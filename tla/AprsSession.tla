---------------------------- MODULE AprsSession ----------------------------
(***************************************************************************)
(* The connections of the two APRS backends (plugins/sources/aprsinet,     *)
(* plugins/sources/aprsradio) and the KISS stream decoder the radio        *)
(* backend feeds (internal/aprs/kiss.go).  A session dials, registers as   *)
(* the hub's transmitter, reads until the link fails and deregisters; Run  *)
(* reconnects with a growing delay until the context is cancelled.         *)
(*                                                                         *)
(* A byte of the KISS stream is one of the four framing bytes, a data or   *)
(* other command byte, or any other.                                       *)
(***************************************************************************)
EXTENDS Naturals, Sequences, FiniteSets, FiniteSetsExt

CONSTANTS
    Bytes,      \* what a payload is made of
    Payloads,   \* what a frame can carry: sequences of bytes
    MaxDelay,   \* doublings until the reconnect delay is at its maximum
    MaxCarry,   \* bound: bytes of the buffer a skipped frame is read on top of
    IdleFactor  \* idleTimeoutFactor: read timeouts a silent TNC may cause

ASSUME SessionAssumption ==
    Payloads \subseteq Seq(Bytes) /\ {MaxDelay, MaxCarry, IdleFactor} \subseteq Nat

Links == {"aprs-inet", "aprs-radio"}

VARIABLES
    sess,       \* per link: where Run is
    armed,      \* per link: a read deadline is set on the connection
    open,       \* per link: Source.conn is set (closeConn finds it)
    sending,    \* links registered as transmitters at the hub
    delay,      \* per link: doublings of the reconnect delay
    idle,       \* read timeouts in a row on the radio link
    quit,       \* the context is cancelled
    dec,        \* the KISS decoder of the radio session
    sent,       \* the frame the TNC is sending: [kind, payload]
    left,       \* how many units of it (see EncodeKISS) have not been read
    half,       \* the first byte of the next unit has been read
    cut,        \* history: what was read of a data frame that broke off
    muddied     \* history: an escape of a skipped frame is in the buffer

links == <<sess, armed, open, sending, delay, idle, quit>>
stream == <<dec, sent, left, half, cut, muddied>>
sessVars == <<sess, armed, open, sending, delay, idle, quit, dec, sent, left,
              half, cut, muddied>>

-----------------------------------------------------------------------------
(***************************************************************************)
(* KISS.                                                                   *)
(***************************************************************************)
Escaped(b) ==
    CASE b = "FEND" -> <<"FESC", "TFEND">>
      [] b = "FESC" -> <<"FESC", "TFESC">>
      [] OTHER -> <<b>>

(* EncodeKISS, unit by unit: the two bytes in front, what each byte of the    *)
(* payload becomes, the closing byte.  A frame of another port or a TNC       *)
(* command differs in the command byte only.                                  *)
EncodeKISS(kind, payload) ==
    [n \in 1 .. (Len(payload) + 3) |->
        CASE n = 1 \/ n = Len(payload) + 3 -> <<"FEND">>
          [] n = 2 -> <<kind>>
          [] OTHER -> Escaped(payload[n - 2])]

NoFrame == [kind |-> "DATA", payload |-> <<>>]

FreshDecoder == [buf |-> <<>>, esc |-> FALSE, inFrame |-> FALSE, wantCmd |-> FALSE]

Complete(d) == d.inFrame /\ ~ d.wantCmd /\ d.buf # <<>>

(* KISSDecoder.Feed, one byte: the frame it completes, if any, ... *)
FrameOut(d, b) == IF b = "FEND" /\ Complete(d) THEN d.buf ELSE <<>>

(* ... and what becomes of the decoder: the cases in the order of the switch. *)
FeedLeavesEscape(d, b) ==                                       \* mutant
    CASE b = "FEND" -> [d EXCEPT !.buf = IF Complete(d) THEN <<>> ELSE @,
                                 !.inFrame = TRUE, !.wantCmd = TRUE]
      [] b # "FEND" /\ d.esc ->
            [d EXCEPT !.esc = FALSE,
                      !.buf = @ \o (CASE b = "TFEND" -> <<"FEND">>
                                      [] b = "TFESC" -> <<"FESC">>
                                      [] OTHER -> <<>>)]
      [] b = "FESC" /\ ~ d.esc -> [d EXCEPT !.esc = TRUE]
      [] b \notin {"FEND", "FESC"} /\ ~ d.esc /\ d.wantCmd ->
            IF b = "DATA" THEN [d EXCEPT !.wantCmd = FALSE]
                          ELSE [d EXCEPT !.inFrame = FALSE]
      [] OTHER -> [d EXCEPT !.buf = IF d.inFrame THEN Append(@, b) ELSE @]

Feed(d, b) ==
    CASE b = "FEND" -> [d EXCEPT !.buf = IF Complete(d) THEN <<>> ELSE @,
                                 !.inFrame = TRUE, !.wantCmd = TRUE, !.esc = FALSE]
      [] b # "FEND" /\ d.esc ->
            [d EXCEPT !.esc = FALSE,
                      !.buf = @ \o (CASE b = "TFEND" -> <<"FEND">>
                                      [] b = "TFESC" -> <<"FESC">>
                                      [] OTHER -> <<>>)]
      [] b = "FESC" /\ ~ d.esc -> [d EXCEPT !.esc = TRUE]
      [] b \notin {"FEND", "FESC"} /\ ~ d.esc /\ d.wantCmd ->
            IF b = "DATA" THEN [d EXCEPT !.wantCmd = FALSE]
                          ELSE [d EXCEPT !.inFrame = FALSE]
      [] OTHER -> [d EXCEPT !.buf = IF d.inFrame THEN Append(@, b) ELSE @]

(* The TNC starts a frame. *)
FrameStarts(kind, payload) ==
    /\ left = 0 /\ sess["aprs-radio"] = "up" /\ (muddied => Len(dec.buf) <= MaxCarry)
    /\ sent' = [kind |-> kind, payload |-> payload]
    /\ left' = Len(payload) + 3
    /\ UNCHANGED <<dec, half, cut, muddied, links>>

(* The unit that is being read, and its next byte. *)
At == Len(sent.payload) + 4 - left
Unit == EncodeKISS(sent.kind, sent.payload)[At]
NextByte == Unit[IF half THEN 2 ELSE 1]

(* One byte is read.  An escape that is undone while a frame is skipped stays *)
(* in the buffer until the buffer is next handed over.                        *)
ByteRead ==
    /\ left > 0 /\ sess["aprs-radio"] = "up"
    /\ dec' = Feed(dec, NextByte)
    /\ muddied' = (/\ muddied \/ (half /\ sent.kind # "DATA")
                   /\ FrameOut(dec, NextByte) = <<>>)
    /\ cut' = IF At = 1 THEN <<>> ELSE cut
    /\ half' = (~ half /\ Len(Unit) = 2)
    /\ left' = IF half' THEN left ELSE left - 1
    /\ idle' = 0
    /\ UNCHANGED <<sess, armed, open, sending, delay, quit, sent>>

(* The frame breaks off, in an escape perhaps: the next FEND begins another. *)
FrameCut ==
    /\ left > 0 /\ At > 1 /\ sess["aprs-radio"] = "up"
    /\ cut' = IF sent.kind = "DATA" THEN SubSeq(sent.payload, 1, At - 3) ELSE <<>>
    /\ left' = 0 /\ half' = FALSE
    /\ UNCHANGED <<dec, sent, muddied, links>>

-----------------------------------------------------------------------------
(***************************************************************************)
(* Sessions.                                                               *)
(***************************************************************************)
DialFails(l) ==
    /\ sess[l] = "dial"
    /\ sess' = [sess EXCEPT ![l] = "ended"]
    /\ UNCHANGED <<armed, open, sending, delay, idle, quit, stream>>

(* The connection is there (for aprs-inet also logged in), not yet in       *)
(* Source.conn.                                                            *)
Dialled(l) ==
    /\ sess[l] = "dial" /\ ~ quit
    /\ sess' = [sess EXCEPT ![l] = "dialled"]
    /\ UNCHANGED <<armed, open, sending, delay, idle, quit, stream>>

(* The radio session sets a deadline before every read; the internet       *)
(* session only after the first line.                                      *)
Registered(l) ==
    /\ sess[l] = "dialled"
    /\ sess' = [sess EXCEPT ![l] = "up"]
    /\ open' = [open EXCEPT ![l] = TRUE]
    /\ sending' = sending \cup {l}
    /\ armed' = [armed EXCEPT ![l] = l = "aprs-radio"]
    /\ idle' = IF l = "aprs-radio" THEN 0 ELSE idle
    /\ UNCHANGED <<delay, quit, stream>>

LineRead ==
    /\ sess["aprs-inet"] = "up"
    /\ armed' = [armed EXCEPT !["aprs-inet"] = TRUE]
    /\ UNCHANGED <<sess, open, sending, delay, idle, quit, stream>>

(* The decoder and the unread bytes go with the radio session. *)
StreamEnds(l) ==
    IF l = "aprs-radio"
    THEN /\ dec' = FreshDecoder /\ left' = 0 /\ half' = FALSE
         /\ muddied' = FALSE /\ cut' = <<>>
         /\ sent' = NoFrame
    ELSE UNCHANGED stream

(* The deferred function of session. *)
Deregistered(l) ==
    /\ sess' = [sess EXCEPT ![l] = "ended"]
    /\ open' = [open EXCEPT ![l] = FALSE]
    /\ armed' = [armed EXCEPT ![l] = FALSE]
    /\ StreamEnds(l)
    /\ sending' = sending \ {l}

(* The deadline passes: a silent TNC is tolerated IdleFactor times. *)
ReadTimesOut(l) ==
    /\ sess[l] = "up" /\ armed[l]
    /\ IF l = "aprs-radio" /\ ~ quit /\ idle < IdleFactor
       THEN idle' = idle + 1 /\ UNCHANGED <<sess, open, armed, sending, stream>>
       ELSE Deregistered(l) /\ UNCHANGED idle
    /\ UNCHANGED <<delay, quit>>

LinkFails(l) ==
    /\ sess[l] = "up"
    /\ Deregistered(l)
    /\ UNCHANGED <<delay, idle, quit>>

(* Run after a session: return when cancelled, else wait; a session that    *)
(* ran healthily resets the delay (resetBackoff).                          *)
SessionOver(l) ==
    /\ sess[l] = "ended"
    /\ IF quit
       THEN sess' = [sess EXCEPT ![l] = "returned"] /\ UNCHANGED delay
       ELSE /\ sess' = [sess EXCEPT ![l] = "backoff"]
            /\ delay' \in {delay, [delay EXCEPT ![l] = 0]}
    /\ UNCHANGED <<armed, open, sending, idle, quit, stream>>

BackoffEnds(l) ==
    /\ sess[l] = "backoff"
    /\ IF quit
       THEN sess' = [sess EXCEPT ![l] = "returned"] /\ UNCHANGED delay
       ELSE /\ sess' = [sess EXCEPT ![l] = "dial"]
            /\ delay' = [delay EXCEPT ![l] = Min({@ + 1, MaxDelay})]
    /\ UNCHANGED <<armed, open, sending, idle, quit, stream>>

(* Cancellation.  aprs-radio closes the connection it finds in Source.conn; *)
(* aprs-inet only looks at the context between sessions.                   *)
Quit ==
    /\ ~ quit
    /\ quit' = TRUE
    /\ IF open["aprs-radio"]
       THEN Deregistered("aprs-radio")
       ELSE UNCHANGED <<sess, open, armed, sending, stream>>
    /\ UNCHANGED <<delay, idle>>

SessInit ==
    /\ sess = [l \in Links |-> "dial"]
    /\ armed = [l \in Links |-> FALSE] /\ open = [l \in Links |-> FALSE]
    /\ sending = {} /\ delay = [l \in Links |-> 0] /\ idle = 0 /\ quit = FALSE
    /\ dec = FreshDecoder /\ sent = NoFrame
    /\ left = 0 /\ half = FALSE /\ muddied = FALSE /\ cut = <<>>

SessNext ==
    \/ \E kind \in {"DATA", "CMD"}, p \in Payloads : FrameStarts(kind, p)
    \/ ByteRead \/ FrameCut \/ LineRead \/ Quit
    \/ \E l \in Links : \/ DialFails(l) \/ Dialled(l) \/ Registered(l)
                        \/ ReadTimesOut(l) \/ LinkFails(l)
                        \/ SessionOver(l) \/ BackoffEnds(l)

SessSpec == SessInit /\ [][SessNext]_sessVars

-----------------------------------------------------------------------------
(***************************************************************************)
(* Properties.                                                             *)
(***************************************************************************)

(* What handleFrame is due by the framing the TNC sent: the payload of a whole *)
(* data frame at its end, what was read of a broken one at the next FEND.     *)
Due == CASE At = 1 -> cut
         [] At = Len(sent.payload) + 3 /\ sent.kind = "DATA" -> sent.payload
         [] OTHER -> <<>>

(* Each byte brings out exactly what is due with it: every data frame of a    *)
(* session comes out, once, whole and unchanged, whatever was escaped in it,  *)
(* skipped before it or broken off before it, in the middle of an escape      *)
(* (kiss.go:62) as well.  The exception is a skipped frame with an escaped    *)
(* byte: Feed (kiss.go:63) unescapes into the buffer also while it skips, and  *)
(* what is handed over next starts with that byte.                            *)
DecodedUnlessMuddied ==
    left > 0 /\ ~ muddied => FrameOut(dec, NextByte) = Due

=============================================================================
