-------------------------- MODULE SupervisorProofs --------------------------
(* One Run at a time, an honest status between two runs and at most one    *)
(* Run begun too late, and the backoff schedule, for every base, maximum   *)
(* and number of restarts.                                                 *)
EXTENDS Supervisor, WellFoundedInduction, TLAPS

-----------------------------------------------------------------------------
(* Functions on the numbers defined by what they are at 0 and by a step:   *)
(* that they exist is shown by building them from their finite beginnings. *)

\* A set of numbers that is not empty has a least member: the form in which
\* induction is used below.
LEMMA LeastNumber ==
  ASSUME NEW S \in SUBSET Nat, S # {}
  PROVE  \E i \in S : \A j \in S : i <= j
<1> DEFINE R == {p \in Nat \X Nat : p[1] < p[2]}
<1>1. IsWellFoundedOn(R, Nat)
  BY NatLessThanWellFounded, Zenon DEF OpToRel
<1> HIDE DEF R
<1>2. \E i \in S : \A j \in S : ~(<<j, i>> \in R)
  BY <1>1, WFMin
<1>3. \A i, j \in S : ~(<<j, i>> \in R) => i <= j
  BY DEF R
<1> QED
  BY <1>2, <1>3

\* The values at 0 .. n of the function that is b at 0 and grows by step.
Beginning(S, b, step, n, g) ==
  /\ g \in [0 .. n -> S]
  /\ g[0] = b
  /\ \A i \in 1 .. n : g[i] = step[g[i - 1]]

LEMMA BeginningExists ==
  ASSUME NEW S, NEW b \in S, NEW step \in [S -> S]
  PROVE  \A n \in Nat : \E g : Beginning(S, b, step, n, g)
<1> DEFINE T == {n \in Nat : ~\E g : Beginning(S, b, step, n, g)}
<1> SUFFICES ASSUME T # {} PROVE FALSE
  OBVIOUS
<1>1. PICK n \in T : \A j \in T : n <= j
  BY LeastNumber
<1>2. n # 0
  <2>1. Beginning(S, b, step, 0, [i \in 0 .. 0 |-> b])
    BY DEF Beginning
  <2> QED
    BY <2>1
<1>3. n - 1 \in Nat /\ n \in Nat /\ n - 1 \notin T
  BY <1>1, <1>2
<1>4. PICK g : Beginning(S, b, step, n - 1, g)
  BY <1>3
<1> DEFINE h == [i \in 0 .. n |-> IF i = n THEN step[g[n - 1]] ELSE g[i]]
<1>5. step[g[n - 1]] \in S
  BY <1>3, <1>4 DEF Beginning
<1>6. h \in [0 .. n -> S]
  BY <1>3, <1>4, <1>5 DEF Beginning
<1>7. h[0] = b
  BY <1>2, <1>3, <1>4 DEF Beginning
<1>8. ASSUME NEW i \in 1 .. n
      PROVE  h[i] = step[h[i - 1]]
  <2>1. i \in Nat /\ i - 1 \in 0 .. n /\ i - 1 # n /\ i \in 0 .. n
    BY <1>3
  <2>2. h[i - 1] = g[i - 1]
    BY <2>1
  <2>3. CASE i = n
    BY <2>1, <2>2, <2>3
  <2>4. CASE i # n
    <3>1. h[i] = g[i]
      BY <2>1, <2>4
    <3>2. g[i] = step[g[i - 1]]
      BY <2>1, <2>4, <1>3, <1>4 DEF Beginning
    <3> QED
      BY <2>2, <3>1, <3>2
  <2> QED
    BY <2>3, <2>4
<1>9. Beginning(S, b, step, n, h)
  BY <1>6, <1>7, <1>8 DEF Beginning
<1> QED
  BY <1>9

\* Two beginnings agree as far as both reach.
LEMMA BeginningUnique ==
  ASSUME NEW S, NEW b \in S, NEW step \in [S -> S], NEW m \in Nat, NEW n \in Nat, m <= n,
         NEW g, NEW h, Beginning(S, b, step, m, g), Beginning(S, b, step, n, h)
  PROVE  \A i \in 0 .. m : g[i] = h[i]
<1> DEFINE T == {i \in 0 .. m : g[i] # h[i]}
<1> SUFFICES ASSUME T # {} PROVE FALSE
  OBVIOUS
<1>1. T \in SUBSET Nat
  OBVIOUS
<1>2. PICK i \in T : \A j \in T : i <= j
  BY <1>1, LeastNumber
<1>3. i # 0
  BY DEF Beginning
<1>4. i \in 1 .. m /\ i \in 1 .. n /\ i - 1 \in 0 .. m /\ i - 1 \notin T
  BY <1>1, <1>2, <1>3
<1>5. g[i] = step[g[i - 1]] /\ h[i] = step[h[i - 1]]
  BY <1>4 DEF Beginning
<1>6. g[i - 1] = h[i - 1]
  BY <1>4
<1> QED
  BY <1>5, <1>6

LEMMA StepwiseFunction ==
  ASSUME NEW S, NEW b \in S, NEW step \in [S -> S]
  PROVE  \E f \in [Nat -> S] : f[0] = b /\ \A n \in Nat \ {0} : f[n] = step[f[n - 1]]
<1> DEFINE first(n) == CHOOSE g : Beginning(S, b, step, n, g)
           f == [n \in Nat |-> first(n)[n]]
<1>1. \A n \in Nat : Beginning(S, b, step, n, first(n))
  BY BeginningExists
<1> HIDE DEF first
<1>2. f \in [Nat -> S] /\ f[0] = b
  BY <1>1 DEF Beginning
<1>3. ASSUME NEW n \in Nat \ {0}
      PROVE  f[n] = step[f[n - 1]]
  <2>1. n - 1 \in Nat /\ n \in 1 .. n /\ n - 1 \in 0 .. n - 1
    OBVIOUS
  <2>2. Beginning(S, b, step, n, first(n)) /\ Beginning(S, b, step, n - 1, first(n - 1))
    BY <1>1, <2>1
  <2>3. first(n - 1)[n - 1] = first(n)[n - 1]
    BY <2>1, <2>2, BeginningUnique
  <2>4. first(n)[n] = step[first(n)[n - 1]]
    BY <2>1, <2>2 DEF Beginning
  <2> QED
    BY <2>1, <2>3, <2>4
<1> QED
  BY <1>2, <1>3

-----------------------------------------------------------------------------
(* The backoff schedule.                                                   *)

Delays == BackoffBase .. BackoffMax

\* One step of backoffDelay: a doubling that saturates.
Doubled(d) ==
  CASE d >= BackoffMax       -> d
    [] d < BackoffMax /\ d > BackoffMax \div 2  -> BackoffMax
    [] d < BackoffMax /\ d <= BackoffMax \div 2 -> 2 * d

LEMMA DoubledIsMin ==
  ASSUME NEW d \in Delays
  PROVE  Doubled(d) \in Delays /\ Doubled(d) = Lesser(2 * d, BackoffMax)
<1>1. /\ BackoffMax \in Nat /\ BackoffBase \in Nat /\ BackoffBase > 0
      /\ d \in Nat /\ BackoffBase <= d /\ d <= BackoffMax
  BY SupervisorConstants DEF Delays
<1>2. CASE d >= BackoffMax
  BY <1>1, <1>2 DEF Doubled, Delays, Lesser
<1>3. CASE d < BackoffMax /\ d > BackoffMax \div 2
  <2>1. Doubled(d) = BackoffMax
    BY <1>1, <1>3 DEF Doubled
  <2>2. 2 * d >= BackoffMax
    BY <1>1, <1>3
  <2> QED
    BY <2>1, <2>2, <1>1 DEF Delays, Lesser
<1>4. CASE d < BackoffMax /\ d <= BackoffMax \div 2
  <2>1. Doubled(d) = 2 * d
    BY <1>1, <1>4 DEF Doubled
  <2>2. 2 * d <= BackoffMax
    BY <1>1, <1>4
  <2> QED
    BY <2>1, <2>2, <1>1 DEF Delays, Lesser
<1>5. d >= BackoffMax \/ d < BackoffMax
  BY <1>1
<1>6. d > BackoffMax \div 2 \/ d <= BackoffMax \div 2
  BY <1>1
<1> QED
  BY <1>2, <1>3, <1>4, <1>5, <1>6

\* The recursive function backoffDelay is computed by its own equation.
LEMMA BackoffDelayStep ==
  /\ BackoffDelay \in [Nat -> Delays]
  /\ BackoffDelay[0] = BackoffBase
  /\ \A n \in Nat \ {0} : BackoffDelay[n] = Lesser(2 * BackoffDelay[n - 1], BackoffMax)
<1> DEFINE Up(f) == [n \in Nat |-> IF n = 0 THEN BackoffBase ELSE Doubled(f[n - 1])]
           step == [d \in Delays |-> Doubled(d)]
<1>1. BackoffBase \in Delays /\ step \in [Delays -> Delays]
  BY SupervisorConstants, DoubledIsMin DEF Delays
<1> HIDE DEF step
<1>2. PICK f \in [Nat -> Delays] : f[0] = BackoffBase /\ \A n \in Nat \ {0} : f[n] = step[f[n - 1]]
  BY <1>1, StepwiseFunction
<1>3. f = Up(f)
  <2> SUFFICES ASSUME NEW n \in Nat
               PROVE  f[n] = IF n = 0 THEN BackoffBase ELSE Doubled(f[n - 1])
    BY <1>2
  <2>1. n # 0 => n - 1 \in Nat
    OBVIOUS
  <2> QED
    BY <1>2, <2>1 DEF step
<1>4. BackoffDelay = CHOOSE g : g = Up(g)
  BY DEF BackoffDelay, Doubled
<1> HIDE DEF Up
<1>5. BackoffDelay = Up(BackoffDelay)
  BY <1>3, <1>4
<1>6. BackoffDelay[0] = BackoffBase /\ \A n \in Nat \ {0} : BackoffDelay[n] = Doubled(BackoffDelay[n - 1])
  BY <1>5 DEF Up
<1>7. ASSUME NEW n \in Nat
      PROVE  BackoffDelay[n] \in Delays
  <2> DEFINE T == {k \in Nat : BackoffDelay[k] \notin Delays}
  <2> SUFFICES ASSUME T # {} PROVE FALSE
    OBVIOUS
  <2>1. PICK k \in T : \A j \in T : k <= j
    BY LeastNumber
  <2>2. k # 0
    BY <1>1, <1>6
  <2>3. k - 1 \in Nat /\ k - 1 \notin T
    BY <2>1, <2>2
  <2>4. BackoffDelay[k] \in Delays
    BY <2>2, <2>3, <1>6, DoubledIsMin
  <2> QED
    BY <2>4
<1>8. BackoffDelay \in [Nat -> Delays]
  BY <1>5, <1>7 DEF Up
<1> QED
  BY <1>6, <1>7, <1>8, DoubledIsMin

LEMMA DoublingsStep ==
  /\ Doublings \in [Nat -> Nat]
  /\ Doublings[0] = BackoffBase
  /\ \A n \in Nat \ {0} : Doublings[n] = 2 * Doublings[n - 1]
<1> DEFINE Up(f) == [n \in Nat |-> IF n = 0 THEN BackoffBase ELSE 2 * f[n - 1]]
           step == [d \in Nat |-> 2 * d]
<1>1. BackoffBase \in Nat /\ step \in [Nat -> Nat]
  BY SupervisorConstants
<1> DEFINE values == Nat
<1> HIDE DEF step, values
<1>2. PICK f \in [Nat -> values] : f[0] = BackoffBase /\ \A n \in Nat \ {0} : f[n] = step[f[n - 1]]
  <2>1. BackoffBase \in values /\ step \in [values -> values]
    BY <1>1 DEF values
  <2> QED
    BY <2>1, StepwiseFunction
<1> USE DEF values
<1>3. f = Up(f)
  <2> SUFFICES ASSUME NEW n \in Nat
               PROVE  f[n] = IF n = 0 THEN BackoffBase ELSE 2 * f[n - 1]
    BY <1>2
  <2>1. n # 0 => n - 1 \in Nat
    OBVIOUS
  <2> QED
    BY <1>2, <2>1 DEF step
<1>4. Doublings = CHOOSE g : g = Up(g)
  BY DEF Doublings
<1> HIDE DEF Up
<1>5. Doublings = Up(Doublings)
  BY <1>3, <1>4
<1>6. Doublings[0] = BackoffBase /\ \A n \in Nat \ {0} : Doublings[n] = 2 * Doublings[n - 1]
  BY <1>5 DEF Up
<1>7. ASSUME NEW n \in Nat
      PROVE  Doublings[n] \in Nat
  <2> DEFINE T == {k \in Nat : Doublings[k] \notin Nat}
  <2> SUFFICES ASSUME T # {} PROVE FALSE
    OBVIOUS
  <2>1. PICK k \in T : \A j \in T : k <= j
    BY LeastNumber
  <2>2. k # 0
    BY <1>1, <1>6
  <2>3. k - 1 \in Nat /\ k - 1 \notin T
    BY <2>1, <2>2
  <2>4. Doublings[k] \in Nat
    BY <2>2, <2>3, <1>6
  <2> QED
    BY <2>4
<1>8. Doublings \in [Nat -> Nat]
  BY <1>5, <1>7 DEF Up
<1> QED
  BY <1>6, <1>8

\* However many restarts there were, backoffDelay waits the base doubled that
\* often, or the maximum: saturating early computes the same as doubling all
\* the way, and never exceeds the maximum on the way.
THEOREM BackoffIsDoubling ==
  \A n \in Nat : /\ BackoffDelay[n] \in BackoffBase .. BackoffMax
                 /\ BackoffDelay[n] = Lesser(Doublings[n], BackoffMax)
<1> DEFINE T == {k \in Nat : BackoffDelay[k] # Lesser(Doublings[k], BackoffMax)}
<1>1. T = {}
  <2> SUFFICES ASSUME T # {} PROVE FALSE
    OBVIOUS
  <2>1. PICK k \in T : \A j \in T : k <= j
    BY LeastNumber
  <2>2. k # 0
    BY BackoffDelayStep, DoublingsStep, SupervisorConstants DEF Lesser
  <2>3. k \in Nat \ {0} /\ k - 1 \in Nat /\ k - 1 \notin T
    BY <2>1, <2>2
  <2> DEFINE b == BackoffDelay[k - 1]
             d == Doublings[k - 1]
  <2>4. d \in Nat /\ BackoffMax \in Nat /\ b = Lesser(d, BackoffMax)
    BY <2>3, DoublingsStep, SupervisorConstants
  <2>5. BackoffDelay[k] = Lesser(2 * b, BackoffMax) /\ Doublings[k] = 2 * d
    BY <2>3, BackoffDelayStep, DoublingsStep
  <2> HIDE DEF b, d
  <2>6. Lesser(2 * b, BackoffMax) = Lesser(2 * d, BackoffMax)
    BY <2>4 DEF Lesser
  <2> QED
    BY <2>5, <2>6
<1> QED
  BY <1>1, BackoffDelayStep DEF Delays

-----------------------------------------------------------------------------
(* The loop.                                                               *)

\* A call of Run is in progress exactly while its result is missing, and
\* between two calls none is.
RunAccounted ==
  /\ runs \in {0, 1}
  /\ sup \in {"ready", "restart", "backoff"} => runs = 0
  /\ sup \in {"launched", "waiting", "stopping"} => (runs = 1 <=> result = "none")

\* The delay is the one of the attempt before the counter was advanced.
DelayOfAttempt ==
  sup = "backoff" =>
    /\ delay \in BackoffBase .. BackoffMax
    /\ attempt # 0
    /\ attempt < MaxAttempts => delay = BackoffDelay[attempt - 1]

\* A Run begun too late was begun from a backoff that had been begun in time,
\* and no backoff begins after it.
LateRunIsLast ==
  /\ lateRuns \in {0, 1}
  /\ lateRuns = 1 => cancelled /\ sup \notin {"ready", "backoff"}

LoopInv ==
  /\ SupTypeOK
  /\ RunAccounted
  /\ DelayOfAttempt
  /\ DownMeansStopped
  /\ LateRunIsLast

LEMMA SupervisorStep ==
  ASSUME LoopInv, SupervisorNext
  PROVE  LoopInv'
<1> USE DEF LoopInv, SupTypeOK, SupStates, PluginStates, RunAccounted, DelayOfAttempt,
       DownMeansStopped, LateRunIsLast
<1>1. CASE Launch
  <2>1. /\ sup = "ready" /\ sup' = "launched" /\ runs' = runs + 1 /\ result' = "none"
        /\ healthy' = FALSE /\ state' = "starting" /\ attempt' = attempt /\ delay' = delay
        /\ restart' = restart /\ cancelled' = cancelled
    BY <1>1 DEF Launch
  <2>2. runs = 0 /\ lateRuns = 0
    BY <2>1
  <2>3. lateRuns' \in {0, 1} /\ (lateRuns' = 1 => cancelled)
    BY <1>1, <2>2 DEF Launch
  <2>4. RunAccounted' /\ DelayOfAttempt' /\ DownMeansStopped' /\ LateRunIsLast'
    BY <2>1, <2>2, <2>3
  <2>5. SupTypeOK'
    <3>1. healthy' \in BOOLEAN
      BY <1>1 DEF Launch
    <3>2. restart' \in BOOLEAN /\ cancelled' \in BOOLEAN
      BY <2>1
    <3> QED
      BY <2>1, <2>2, <2>3, <3>1, <3>2
  <2> QED
    BY <2>4, <2>5
<1>2. CASE MarkRunning
  BY <1>2 DEF MarkRunning
<1>3. CASE ExitSeen
  BY <1>3 DEF ExitSeen
<1>4. CASE NoRestart
  BY <1>4 DEF NoRestart
<1>5. CASE BeginBackoff
  <2>1. /\ attempt \in Nat /\ MaxAttempts \in Nat \ {0} /\ BackoffBase \in Nat /\ BackoffMax \in Nat
    BY SupervisorConstants
  <2>2. BackoffDelay[attempt] \in BackoffBase .. BackoffMax
    BY <2>1, BackoffIsDoubling
  <2>3. /\ sup = "restart" /\ ~cancelled /\ sup' = "backoff"
        /\ delay' = BackoffDelay[attempt]
        /\ attempt' = IF attempt < MaxAttempts THEN attempt + 1 ELSE attempt
        /\ UNCHANGED <<restart, cancelled, runs, result, healthy, state, lateRuns>>
    BY <1>5 DEF BeginBackoff
  <2>4. attempt' \in 0 .. MaxAttempts /\ attempt' # 0 /\ (attempt' < MaxAttempts => attempt' - 1 = attempt)
    BY <2>1, <2>3
  <2>5. delay' \in Nat
    BY <2>1, <2>2, <2>3
  <2>6. DelayOfAttempt'
    BY <2>2, <2>3, <2>4
  <2>7. SupTypeOK'
    BY <2>3, <2>4, <2>5
  <2> QED
    BY <2>3, <2>6, <2>7
<1>6. CASE BackoffOver
  BY <1>6 DEF BackoffOver
<1>7. CASE BackoffCancelled
  BY <1>7 DEF BackoffCancelled
<1>8. CASE BeginShutdown
  BY <1>8 DEF BeginShutdown
<1>9. CASE EndShutdown
  BY <1>9 DEF EndShutdown
<1> QED
  BY <1>1, <1>2, <1>3, <1>4, <1>5, <1>6, <1>7, <1>8, <1>9 DEF SupervisorNext

LEMMA PluginStep ==
  ASSUME LoopInv,
         \/ ResetBackoff
         \/ \E r \in {"ok", "failed"} : RunReturns(r)
         \/ \E s \in {"running", "degraded"} : Report(s)
         \/ Cancel
         \/ UNCHANGED vars
  PROVE  LoopInv'
<1> USE DEF LoopInv, SupTypeOK, SupStates, PluginStates, RunAccounted, DelayOfAttempt,
       DownMeansStopped, LateRunIsLast
<1>1. CASE ResetBackoff
  BY <1>1, SupervisorConstants DEF ResetBackoff
<1>2. ASSUME NEW r \in {"ok", "failed"}, RunReturns(r)
      PROVE  LoopInv'
  BY <1>2 DEF RunReturns
<1>3. ASSUME NEW s \in {"running", "degraded"}, Report(s)
      PROVE  LoopInv'
  BY <1>3 DEF Report
<1>4. CASE Cancel
  BY <1>4 DEF Cancel
<1>5. CASE UNCHANGED vars
  BY <1>5 DEF vars
<1> QED
  BY <1>1, <1>2, <1>3, <1>4, <1>5

LEMMA LoopInvAlways == Spec => []LoopInv
<1>1. Init => LoopInv
  <2> SUFFICES ASSUME Init PROVE LoopInv
    OBVIOUS
  <2>1. restart \in BOOLEAN /\ cancelled \in BOOLEAN /\ healthy \in BOOLEAN
    BY DEF Init
  <2>2. SupTypeOK
    BY <2>1, SupervisorConstants DEF Init, SupTypeOK, SupStates, PluginStates
  <2>3. RunAccounted /\ DelayOfAttempt /\ DownMeansStopped /\ LateRunIsLast
    BY DEF Init, RunAccounted, DelayOfAttempt, DownMeansStopped, LateRunIsLast
  <2> QED
    BY <2>2, <2>3 DEF LoopInv
<1>2. LoopInv /\ [Next]_vars => LoopInv'
  BY SupervisorStep, PluginStep DEF Next
<1> QED
  BY <1>1, <1>2, PTL DEF Spec

\* The loop never has two calls of Run at once, waits out the documented
\* backoff, shows an honest status between two runs, and begins at most one
\* Run after the cancellation.
THEOREM SupervisorIsSafe == Spec => []LoopSafe
<1>1. ASSUME LoopInv
      PROVE  LoopSafe
  <2>1. OneRunAtATime /\ DownMeansStopped /\ AtMostOneLateRun
    BY <1>1 DEF LoopInv, RunAccounted, LateRunIsLast, OneRunAtATime, AtMostOneLateRun
  <2>2. BackoffAsDocumented
    <3> SUFFICES ASSUME sup = "backoff"
                 PROVE  IF attempt < MaxAttempts
                        THEN delay = Lesser(Doublings[attempt - 1], BackoffMax)
                        ELSE delay \in BackoffBase .. BackoffMax
      BY DEF BackoffAsDocumented
    <3>1. attempt - 1 \in Nat
      BY <1>1, SupervisorConstants DEF LoopInv, SupTypeOK, DelayOfAttempt
    <3> QED
      BY <1>1, <3>1, BackoffIsDoubling DEF LoopInv, DelayOfAttempt
  <2> QED
    BY <2>1, <2>2 DEF LoopSafe
<1> QED
  BY <1>1, LoopInvAlways, PTL
=============================================================================
