------------------------------ MODULE Channels ------------------------------
(***************************************************************************)
(* One notification on its way through a channel: the SMTP action with its *)
(* rate limiter, the two webhooks, the APRS message action, and the mailer *)
(* of the password resets.  The instance above the plugin bounds a call    *)
(* and repeats a failed one as a whole; the server below it may take a     *)
(* message whose acknowledgement is lost.                                  *)
(***************************************************************************)
EXTENDS Integers, Sequences, FiniteSetsExt

CONSTANTS
    ChannelKinds,   \* a subset of {"smtp", "webhook", "discord", "aprs", "direct"}
    Configured,     \* the addresses of the configuration, in order
    MemberLists,    \* the address lists a matched group may add
    Lower,          \* an address in lower case
    Interval,       \* the limiter's spacing, in ticks
    CallTimeout,    \* the bound of one Execute, in ticks
    Backoff,        \* the pause before a retry, in ticks
    Retries,
    LastClock       \* bound on the clock

ASSUME ChannelsAssumption ==
    /\ Configured \in Seq(DOMAIN Lower) /\ MemberLists \subseteq Seq(DOMAIN Lower)
    /\ ChannelKinds \subseteq {"smtp", "webhook", "discord", "aprs", "direct"}
    /\ ChannelKinds \cap {"webhook", "discord", "direct"} # {} => Configured # <<>>

VARIABLES
    channel,    \* the plugin at work
    members,    \* the addresses the group adds
    stage,      \* where Execute is
    rest,       \* which addresses are still to be served in this attempt
    faulty,     \* the attempt has collected an error
    tries,      \* attempts begun
    began,      \* when the attempt began
    due,        \* the slot the attempt waits for
    slot,       \* the limiter's next free slot
    clock,
    line,       \* the connection: "up" or "down"
    inbox,      \* what the far end has taken, per address
    verdict     \* what the instance has recorded

chanVars == <<channel, members, stage, rest, faulty, tries, began, due, slot, clock, line, inbox, verdict>>

(* The addresses of one notification.  A webhook has one end point, and a  *)
(* reset mail one reader.                                                  *)
Addresses == IF channel \in {"smtp", "aprs"} THEN Configured \o members ELSE <<Head(Configured)>>
Box(i) == Lower[Addresses[i]]

(* dedupeRecipients, recipients: the first spelling of every address stays. *)
Targets == {i \in DOMAIN Addresses : \A j \in 1 .. i - 1 : Box(j) # Box(i)}

Boxes == {Lower[a] : a \in DOMAIN Lower}
(* The context of the call is done. *)
Expired == clock - began >= CallTimeout
(* They are served in order. *)
DueNext == Min(rest)
Served == [inbox EXCEPT ![Box(DueNext)] = @ + 1]

ChanTypeOK ==
    /\ channel \in ChannelKinds /\ members \in MemberLists
    /\ stage \in {"ready", "open", "next", "pacing", "mail", "rcpt", "data", "quit", "over"}
    /\ faulty \in BOOLEAN
    /\ tries \in 0..Retries + 1 /\ clock \in 0..LastClock
    /\ line \in {"up", "down"} /\ verdict \in {"", "delivered", "failed"}
    /\ inbox \in [Boxes -> Nat]

-----------------------------------------------------------------------------
(* The instance: it starts an attempt, after the backoff when it is a retry. *)
ExecuteStarts ==
    /\ stage = "ready" /\ verdict = ""
    /\ tries > 0 => clock - began >= Backoff
    /\ tries' = tries + 1 /\ began' = clock
    /\ rest' = Targets
    /\ faulty' = (channel = "smtp" /\ Targets = {})
    /\ stage' = IF faulty' THEN "over" ELSE IF channel \in {"smtp", "direct"} THEN "open" ELSE "next"
    /\ line' = "up"
    /\ UNCHANGED <<channel, members, due, slot, clock, inbox, verdict>>

(* What Execute returned is recorded.  A call that ends in the grace period *)
(* after its deadline counts as failed whatever it returned, and a failed  *)
(* call is repeated from its first recipient.  The mailer has no instance  *)
(* above it: its caller logs the error and that is all.                    *)
AttemptEnds ==
    /\ stage = "over"
    /\ \E failed \in {faulty} \cup (IF Expired /\ channel # "direct" THEN {TRUE} ELSE {}) :
         /\ verdict' = IF ~failed THEN "delivered"
                       ELSE IF tries <= Retries /\ channel # "direct" THEN "" ELSE "failed"
         /\ stage' = "ready"
    /\ began' = clock
    /\ UNCHANGED <<channel, members, rest, faulty, tries, due, slot, clock, line, inbox>>

Tick ==
    /\ clock < LastClock /\ verdict = ""
    /\ clock' = clock + 1
    /\ UNCHANGED <<channel, members, stage, rest, faulty, tries, began, due, slot, line, inbox, verdict>>

(* The connection is lost; a cancelled context closes it in any case, except *)
(* under the mailer, which gives its connection a deadline of its own.     *)
LineDrops ==
    /\ stage \in {"open", "next", "pacing", "mail", "rcpt", "data", "quit"} /\ line = "up"
    /\ channel \in {"smtp", "direct"}
    /\ line' = "down"
    /\ UNCHANGED <<channel, members, stage, rest, faulty, tries, began, due, slot, clock, inbox, verdict>>

-----------------------------------------------------------------------------
GoesOn(to) == stage' = to /\ UNCHANGED <<rest, faulty>>
Fails(to) == stage' = to /\ faulty' = TRUE /\ UNCHANGED rest
NextOne == stage' = "next" /\ rest' = rest \ {DueNext}

(* Dial, greeting, STARTTLS and AUTH: each of them ends the call when it   *)
(* fails, and none of them leaves anything behind.                         *)
OpensSession ==
    /\ stage = "open" /\ channel = "smtp"
    /\ \/ line = "up" /\ ~Expired /\ GoesOn("next")
       \/ Fails("over")
    /\ UNCHANGED <<channel, members, tries, began, due, slot, clock, line, inbox, verdict>>

DirectOpens ==
    /\ stage = "open" /\ channel = "direct"
    /\ \/ line = "up" /\ GoesOn("mail")
       \/ Fails("over")
    /\ UNCHANGED <<channel, members, tries, began, due, slot, clock, line, inbox, verdict>>

(* rateLimiter.wait takes the next slot before it waits for it: a wait that *)
(* is cancelled has still used the slot up.                                *)
ClaimSlot ==
    /\ stage = "next" /\ channel = "smtp" /\ rest # {}
    /\ LET start == IF slot < clock THEN clock ELSE slot IN
         /\ slot' = start + Interval
         /\ due' = start
         /\ GoesOn(IF start = clock THEN "mail" ELSE "pacing")
    /\ UNCHANGED <<channel, members, tries, began, clock, line, inbox, verdict>>

SlotArrives ==
    /\ stage = "pacing" /\ clock >= due
    /\ GoesOn("mail")
    /\ UNCHANGED <<channel, members, tries, began, due, slot, clock, line, inbox, verdict>>

WaitCancelledQuietly ==
    /\ stage = "pacing" /\ Expired
    /\ GoesOn("quit")
    /\ UNCHANGED <<channel, members, tries, began, due, slot, clock, line, inbox, verdict>>

(* A cancelled wait fails the rest of the batch. *)
WaitCancelled ==
    /\ stage = "pacing" /\ Expired
    /\ Fails("quit")
    /\ UNCHANGED <<channel, members, tries, began, due, slot, clock, line, inbox, verdict>>

(* A step of sendOne fails.  isProtocolError goes by the step: after RCPT  *)
(* and DATA the next recipient is tried on the same connection, after MAIL *)
(* the batch is given up.  The mailer returns at once.                     *)
StepFails ==
    /\ faulty' = TRUE
    /\ IF channel = "direct" THEN stage' = "over" /\ UNCHANGED rest
       ELSE IF stage = "mail" THEN stage' = "quit" /\ UNCHANGED rest
       ELSE NextOne

(* MAIL, which a server may also refuse because the refused transaction of *)
(* the last recipient is still open.                                       *)
MailFrom ==
    /\ stage = "mail"
    /\ \/ line = "up" /\ GoesOn("rcpt")
       \/ StepFails
    /\ UNCHANGED <<channel, members, tries, began, due, slot, clock, line, inbox, verdict>>

(* RCPT and the DATA command. *)
RcptTo ==
    /\ stage = "rcpt"
    /\ \/ line = "up" /\ GoesOn("data")
       \/ StepFails
    /\ UNCHANGED <<channel, members, tries, began, due, slot, clock, line, inbox, verdict>>

(* The message and its end: taken and told, taken although the answer is   *)
(* lost, refused or cut off at its end, or not written at all.             *)
EndOfData ==
    /\ stage = "data"
    /\ \/ line = "up" /\ NextOne /\ UNCHANGED <<faulty, line>> /\ inbox' = Served
       \/ line = "up" /\ StepFails /\ inbox' = Served /\ line' = "down"
       \/ StepFails /\ UNCHANGED <<inbox, line>>
       \/ line = "down" /\ Fails(IF channel = "direct" THEN "over" ELSE "quit") /\ UNCHANGED <<inbox, line>>
    /\ UNCHANGED <<channel, members, tries, began, due, slot, clock, verdict>>

(* The batch is through; an error of QUIT counts when there is no other. *)
BatchDone ==
    /\ stage = "next" /\ rest = {} /\ channel \in {"smtp", "direct"}
    /\ GoesOn("quit")
    /\ UNCHANGED <<channel, members, tries, began, due, slot, clock, line, inbox, verdict>>

Quits ==
    /\ stage = "quit"
    /\ \/ line = "up" /\ GoesOn("over")
       \/ Fails("over")
    /\ UNCHANGED <<channel, members, tries, began, due, slot, clock, line, inbox, verdict>>

(* One POST; a status outside 2xx, a lost answer and a cancelled request   *)
(* are errors.                                                             *)
Posts(kind) ==
    /\ stage = "next" /\ channel = kind
    /\ \/ ~Expired /\ GoesOn("over") /\ inbox' = Served
       \/ Fails("over") /\ inbox' \in {inbox, Served}
    /\ UNCHANGED <<channel, members, tries, began, due, slot, clock, line, verdict>>

WebhookAnswered == Posts("webhook")
DiscordAnswered == Posts("discord")

(* The APRS action goes through all of its callsigns and returns the first *)
(* error.                                                                  *)
AprsSends ==
    /\ stage = "next" /\ channel = "aprs" /\ rest # {}
    /\ NextOne
    /\ \/ ~Expired /\ UNCHANGED faulty /\ inbox' = Served
       \/ faulty' = TRUE /\ inbox' \in {inbox, Served}
    /\ UNCHANGED <<channel, members, tries, began, due, slot, clock, line, verdict>>

AllSent ==
    /\ stage = "next" /\ channel = "aprs" /\ rest = {}
    /\ GoesOn("over")
    /\ UNCHANGED <<channel, members, tries, began, due, slot, clock, line, inbox, verdict>>

-----------------------------------------------------------------------------
ChanInit ==
    /\ channel \in ChannelKinds /\ members \in MemberLists
    /\ stage = "ready" /\ rest = {} /\ faulty = FALSE
    /\ tries = 0 /\ began = 0 /\ due = 0 /\ slot = 0 /\ clock = 0
    /\ line = "down"
    /\ inbox = [a \in Boxes |-> 0]
    /\ verdict = ""

ChanNext ==
    \/ ExecuteStarts \/ AttemptEnds \/ Tick \/ LineDrops
    \/ OpensSession \/ DirectOpens
    \/ ClaimSlot \/ SlotArrives \/ WaitCancelled
    \/ MailFrom \/ RcptTo \/ EndOfData \/ BatchDone \/ Quits
    \/ WebhookAnswered \/ DiscordAnswered \/ AprsSends \/ AllSent

ChanSpec == ChanInit /\ [][ChanNext]_chanVars

-----------------------------------------------------------------------------
(* A notification the trail calls delivered has reached every address it   *)
(* was for, and no address has it more often than there were attempts,     *)
(* however an attempt was cut short (smtp.go:308-327, instance.go:213).     *)
ServedAsReported ==
    /\ verdict = "delivered" => \A i \in Targets : inbox[Box(i)] > 0
    /\ \A a \in Boxes : inbox[a] <= tries
=============================================================================
