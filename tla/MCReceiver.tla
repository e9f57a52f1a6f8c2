----------------------------- MODULE MCReceiver -----------------------------
(* One receiver with a connection that breaks, one that mirrors the same   *)
(* active topic from another broker, and every kind of topic.              *)
EXTENDS Receiver, TLC

CONSTANTS r1, r2, a1

MCFeeds == r1 :> {a1, "events"} @@ r2 :> {a1, "info", "status", "generic", "alien"}
=============================================================================
