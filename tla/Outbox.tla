------------------------------- MODULE Outbox -------------------------------
(***************************************************************************)
(* What the change journal and the output workers promise together: an     *)
(* ordered, at-least-once outbox.  A consumer is owed every entry that is  *)
(* in the log when it joins and every entry appended while it is a member. *)
(* Entries are delivered to it in order, and an entry leaves the log only  *)
(* when no member still waits for it.  Cursors, batches, acknowledgments,  *)
(* retries, suspension and crashes are all invisible at this level.        *)
(***************************************************************************)
EXTENDS Naturals

CONSTANT Consumers

VARIABLES
  log,     \* ids of the entries that can still be read
  last,    \* the last id ever appended
  members, \* the consumers that are registered
  owed,    \* the ids each member is entitled to
  done     \* the ids successfully delivered to each member at least once

vars == <<log, last, members, owed, done>>

Init ==
  /\ log = {}
  /\ last = 0
  /\ members = {}
  /\ owed = [o \in Consumers |-> {}]
  /\ done = [o \in Consumers |-> {}]

\* New entries get ids above every id used before and are owed to all members.
Append ==
  /\ log \subseteq log'
  /\ last' >= last
  /\ \A i \in log' \ log : last < i /\ i <= last'
  /\ owed' = [o \in Consumers |->
                IF o \in members THEN owed[o] \cup (log' \ log) ELSE owed[o]]
  /\ UNCHANGED <<members, done>>

\* The first successful delivery of i: everything owed before it was delivered.
Deliver(o) ==
  /\ o \in members
  /\ \E i \in owed[o] :
       /\ \A j \in owed[o] : j < i => j \in done[o]
       /\ done' = [done EXCEPT ![o] = @ \cup {i}]
  /\ UNCHANGED <<log, last, members, owed>>

\* Entries nobody waits for may be dropped.
Forget ==
  /\ log' \subseteq log
  /\ \A o \in members : owed[o] \ done[o] \subseteq log'
  /\ UNCHANGED <<last, members, owed, done>>

\* A member that stays keeps its progress; any other one starts over with
\* the log as it is, or is forgotten.
Reconfigure ==
  /\ members' \subseteq Consumers
  /\ \A o \in Consumers :
       \/ o \in members \cap members' /\ owed'[o] = owed[o] /\ done'[o] = done[o]
       \/ o \in members' /\ owed'[o] = log /\ done'[o] = {}
       \/ o \notin members' /\ owed'[o] = {} /\ done'[o] = {}
  /\ owed' = [o \in Consumers |-> owed'[o]]
  /\ done' = [o \in Consumers |-> done'[o]]
  /\ UNCHANGED <<log, last>>

Next ==
  \/ Append
  \/ \E o \in Consumers : Deliver(o)
  \/ Forget
  \/ Reconfigure

Spec == Init /\ [][Next]_vars
=============================================================================
