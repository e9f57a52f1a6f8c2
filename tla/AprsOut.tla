------------------------------ MODULE AprsOut ------------------------------
(***************************************************************************)
(* Outbound APRS messages: the aprs-out action (internal/actions/aprsout)  *)
(* walks over its recipients, paced by a cooldown per station and a gap    *)
(* between transmissions, and sends through the hub (internal/aprs/hub.go  *)
(* SendMessage, SendMessageWaitAck).  Acknowledgments come back from the   *)
(* air, late, repeated, never, from anyone and for any number: the hub     *)
(* knows a waiting call by the number of its message alone.                *)
(*                                                                         *)
(* An instance runs one Execute at a time; the instances share the hub.    *)
(* Cooldown and gap are kept as the ticks that remain of them.             *)
(***************************************************************************)
EXTENDS Naturals, Sequences, FiniteSets, SequencesExt, FiniteSetsExt

CONSTANTS
    Instances,      \* configured aprs-out actions
    Callsigns,      \* the configured recipients, in order
    Groups,         \* what a matched group can add, in order
    Cooldown,       \* cooldown, in ticks
    TxInterval,     \* tx_interval, in ticks
    AckTimeout,     \* ack_timeout, in ticks
    AckPendingCap,  \* ackPendingCap
    SeqWrap         \* how many message numbers there are (100000)

ASSUME OutAssumption ==
    /\ {Cooldown, TxInterval, AckTimeout, AckPendingCap} \subseteq Nat
    /\ SeqWrap \in Nat \ {0}

VARIABLES
    exec,       \* per instance: [pc, todo, cancelled, id, ch] and, as history, who
                \* sent the answer in ch: [from]
    cool,       \* aprsOutAction.lastSend: ticks left per instance and station
    gap,        \* aprsOutAction.nextTx: ticks left per instance
    pending,    \* Hub.pending: message id -> the instance that waits
    msgSeq,     \* Hub.msgSeq, as far as the numbers tell
    sinceTx,    \* ticks since the instance's last transmission
    reused,     \* history: a number was given out while an earlier call held it
    requireAck  \* the instances configured with require_ack

outVars == <<exec, cool, gap, pending, msgSeq, sinceTx, reused, requireAck>>

(* recipients: the configured callsigns, then the group's, each once. *)
Recipients(group) ==
    FoldLeft(LAMBDA out, c : IF Contains(out, c) THEN out ELSE Append(out, c),
             <<>>, Callsigns \o group)

Addressees == Range(Callsigns) \cup UNION {Range(g) : g \in Groups}

Resting == [pc |-> "idle", todo |-> <<>>, cancelled |-> FALSE, id |-> 0,
            ch |-> "none", from |-> "nobody"]

(* SendMessageWaitAck is in progress, past its registration. *)
AwaitsAck(i) == exec[i].pc \in {"registered", "waiting"}

-----------------------------------------------------------------------------
(***************************************************************************)
(* Execute.                                                                *)
(***************************************************************************)
(* The next recipient, or the return to the action worker. *)
NextRecipient(e) ==
    IF Len(e.todo) <= 1
    THEN Resting
    ELSE [Resting EXCEPT !.pc = "slot", !.todo = Tail(e.todo), !.cancelled = e.cancelled]

ExecuteBegins(i) ==
    /\ exec[i].pc = "idle"
    /\ \E g \in Groups :
          /\ Recipients(g) # <<>>
          /\ exec' = [exec EXCEPT ![i] = [Resting EXCEPT !.pc = "slot", !.todo = Recipients(g)]]
    /\ UNCHANGED <<cool, gap, pending, msgSeq, sinceTx, reused, requireAck>>

(* The action's deadline, or the shutdown, cancels the call's context. *)
Cancelled(i) ==
    /\ exec[i].pc # "idle" /\ ~ exec[i].cancelled
    /\ exec' = [exec EXCEPT ![i].cancelled = TRUE]
    /\ UNCHANGED <<cool, gap, pending, msgSeq, sinceTx, reused, requireAck>>

(* nextSlot: the cooldown of the station and the gap have both passed. *)
SlotDue(i) == cool[i][Head(exec[i].todo)] = 0 /\ gap[i] = 0

(* waitUntil looks at the clock before the context: a slot that is already   *)
(* due is taken by a cancelled call as well.                               *)
TakesSlot(i) ==
    /\ exec[i].pc \in {"slot", "wait"}
    /\ exec' = [exec EXCEPT ![i].pc = IF SlotDue(i) THEN "send" ELSE "wait"]
    /\ exec[i].pc = "wait" => SlotDue(i)
    /\ UNCHANGED <<cool, gap, pending, msgSeq, sinceTx, reused, requireAck>>

SlotCancelled(i) ==
    /\ exec[i].pc = "wait" /\ exec[i].cancelled
    /\ exec' = [exec EXCEPT ![i] = NextRecipient(@)]
    /\ UNCHANGED <<cool, gap, pending, msgSeq, sinceTx, reused, requireAck>>

(* A transmission that counts as delivered starts both windows. *)
Delivered(i) ==
    /\ cool' = [cool EXCEPT ![i][Head(exec[i].todo)] = Cooldown]
    /\ gap' = [gap EXCEPT ![i] = TxInterval]
    /\ exec' = [exec EXCEPT ![i] = NextRecipient(@)]

(* The frame leaves: the backends' Send does not look at the context. *)
OnAir(i) == sinceTx' = [sinceTx EXCEPT ![i] = 0]

(* SendMessage, without require_ack: done once a transmitter took the frame. *)
SendMessage(i) ==
    /\ exec[i].pc = "send" /\ i \notin requireAck
    /\ \/ OnAir(i) /\ Delivered(i)
       \/ exec' = [exec EXCEPT ![i] = NextRecipient(@)]
          /\ UNCHANGED <<cool, gap, sinceTx>>
    /\ UNCHANGED <<pending, msgSeq, reused, requireAck>>

-----------------------------------------------------------------------------
(***************************************************************************)
(* SendMessageWaitAck.                                                     *)
(***************************************************************************)
Without(id) == [j \in DOMAIN pending \ {id} |-> pending[j]]

(* The next number, and a place in the table of waiters unless it is full;  *)
(* the numbers wrap, and a call that still holds this one loses its place.  *)
Registers(i) ==
    /\ exec[i].pc = "send" /\ i \in requireAck
    /\ msgSeq' = (msgSeq + 1) % SeqWrap
    /\ IF Cardinality(DOMAIN pending) >= AckPendingCap
       THEN /\ exec' = [exec EXCEPT ![i] = NextRecipient(@)]
            /\ UNCHANGED <<pending, reused>>
       ELSE /\ pending' = [j \in DOMAIN pending \cup {msgSeq'} |->
                              IF j = msgSeq' THEN i ELSE pending[j]]
            /\ exec' = [exec EXCEPT ![i].pc = "registered", ![i].id = msgSeq']
            /\ reused' = (reused \/ \E j \in Instances : AwaitsAck(j) /\ exec[j].id = msgSeq')
    /\ UNCHANGED <<cool, gap, sinceTx, requireAck>>

Transmits(i) ==
    /\ exec[i].pc = "registered"
    /\ OnAir(i)
    /\ exec' = [exec EXCEPT ![i].pc = "waiting"]
    /\ UNCHANGED <<cool, gap, pending, msgSeq, reused, requireAck>>

(* A failed return: the deferred removal runs, no window starts. *)
ReturnsWithoutRemoval(i) ==                                     \* mutant
    /\ exec' = [exec EXCEPT ![i] = NextRecipient(@)]
    /\ UNCHANGED <<cool, gap, pending>>

ReturnsFailed(i) ==
    /\ pending' = Without(exec[i].id)
    /\ exec' = [exec EXCEPT ![i] = NextRecipient(@)]
    /\ UNCHANGED <<cool, gap>>

(* No backend is ready (readyTransmitterFor), or its write fails. *)
TransmitFails(i) ==
    /\ exec[i].pc = "registered"
    /\ ReturnsFailed(i)
    /\ UNCHANGED <<msgSeq, sinceTx, reused, requireAck>>

(* The wait ends by an answer ...                                          *)
Answered(i) ==
    /\ exec[i].pc = "waiting"
    /\ \/ exec[i].ch = "ack" /\ Delivered(i) /\ pending' = Without(exec[i].id)
       \/ exec[i].ch = "rej" /\ ReturnsFailed(i)
    /\ UNCHANGED <<msgSeq, sinceTx, reused, requireAck>>

(* ... the timer or the context, whichever the select takes.               *)
GivesUp(i) ==
    /\ exec[i].pc = "waiting"
    /\ exec[i].cancelled \/ sinceTx[i] >= AckTimeout
    /\ ReturnsFailed(i)
    /\ UNCHANGED <<msgSeq, sinceTx, reused, requireAck>>

(* receiveMessage and signalAck: an ack or rej wakes the waiter of its      *)
(* number, if one is left, whoever sent it and whether or not the message   *)
(* has been transmitted; repeated and late answers find no waiter.          *)
AckArrives(from, id, kind) ==
    /\ id \in DOMAIN pending
    /\ exec' = [exec EXCEPT ![pending[id]].ch = kind, ![pending[id]].from = from]
    /\ pending' = Without(id)
    /\ UNCHANGED <<cool, gap, msgSeq, sinceTx, reused, requireAck>>

-----------------------------------------------------------------------------
LongAgo == Max({TxInterval, AckTimeout})

Less(n) == IF n = 0 THEN 0 ELSE n - 1

OutClock ==
    /\ cool' = [i \in Instances |-> [c \in Addressees |-> Less(cool[i][c])]]
    /\ gap' = [i \in Instances |-> Less(gap[i])]
    /\ sinceTx' = [i \in Instances |-> Min({LongAgo, sinceTx[i] + 1})]
    /\ UNCHANGED <<exec, pending, msgSeq, reused, requireAck>>

NoCooldown == [i \in Instances |-> [c \in Addressees |-> 0]]

(* A new process numbers its messages from one again. *)
OutRestart ==
    /\ exec' = [i \in Instances |-> Resting]
    /\ cool' = NoCooldown /\ gap' = [i \in Instances |-> 0]
    /\ pending' = <<>> /\ msgSeq' = 0 /\ reused' = FALSE
    /\ sinceTx' = [i \in Instances |-> LongAgo]
    /\ UNCHANGED requireAck

OutInit ==
    /\ exec = [i \in Instances |-> Resting]
    /\ cool = NoCooldown /\ gap = [i \in Instances |-> 0]
    /\ pending = <<>> /\ msgSeq = 0
    /\ sinceTx = [i \in Instances |-> LongAgo]
    /\ reused = FALSE
    /\ requireAck \in SUBSET Instances

OutNext ==
    \/ \E i \in Instances :
          \/ ExecuteBegins(i) \/ Cancelled(i) \/ TakesSlot(i) \/ SlotCancelled(i)
          \/ SendMessage(i) \/ Registers(i) \/ Transmits(i) \/ TransmitFails(i)
          \/ Answered(i) \/ GivesUp(i)
    \/ \E from \in Addressees, id \in DOMAIN pending, kind \in {"ack", "rej"} :
          AckArrives(from, id, kind)
    \/ OutClock \/ OutRestart

OutSpec == OutInit /\ [][OutNext]_outVars

-----------------------------------------------------------------------------
(***************************************************************************)
(* Properties.                                                             *)
(***************************************************************************)

(* The table of waiters holds calls in progress that no answer has reached,  *)
(* each under its own number, and never more than the cap: every return path *)
(* of SendMessageWaitAck and every answer clears its entry (hub.go:862), or  *)
(* the cap fills up for good.  Unless the numbers have wrapped around onto a *)
(* call in progress, it holds all of them.                                   *)
PendingMatchesCalls ==
    /\ Cardinality(DOMAIN pending) <= AckPendingCap
    /\ \A id \in DOMAIN pending :
          AwaitsAck(pending[id]) /\ exec[pending[id]].id = id /\ exec[pending[id]].ch = "none"
    /\ ~ reused => \A i \in Instances :
          AwaitsAck(i) /\ exec[i].ch = "none" => exec[i].id \in DOMAIN pending

(* What the comment of SendMessageWaitAck says (hub.go:836-838): it waits for *)
(* "the addressee's ack (or rej)".  Any station's answer with the number does. *)
AckIsAddressees ==
    \A i \in Instances : exec[i].ch # "none" => exec[i].from = Head(exec[i].todo)

=============================================================================
