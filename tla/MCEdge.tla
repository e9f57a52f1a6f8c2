------------------------------- MODULE MCEdge -------------------------------
(***************************************************************************)
(* The components at the edge of the router side by side: the web forms,   *)
(* the HTTP ingest, the polling sources, the path of the weather and air   *)
(* snapshots to the broker and the notification channels.  They share no   *)
(* state: `part' says which of them moves, and the others stay where they  *)
(* begin.                                                                  *)
(***************************************************************************)
EXTENDS Compose, IngestHTTP, Sources, InfoFlow, Channels, TLC

VARIABLE part

MCCover == [w \in Warnings |-> IF w = "wa" THEN Feeds ELSE {CHOOSE f \in Feeds : TRUE}]
MCScope == {<<"wa", 1>>, <<"wa", 2>>, <<"wb", 1>>}
MCDue == [v \in Versions |-> IF v = 1 THEN 2 ELSE 0]

(* The register lists its records in an order of its own. *)
MCRank == [wa |-> 1, wb |-> 2, wc |-> 3]
MCPageIn == [register \in SUBSET Warnings |-> [w \in Warnings |->
                Cardinality({x \in register : MCRank[x] < MCRank[w]}) \div PageSize]]

(* One source with several topics, one that polls twice, one beside the    *)
(* heartbeat, and two that enqueue at the same time.                       *)
MCPrograms == {[sources |-> {"openmeteo"}, heartbeat |-> FALSE],
               [sources |-> {"adsb"}, heartbeat |-> FALSE],
               [sources |-> {"metar"}, heartbeat |-> TRUE],
               [sources |-> {"metar", "giosaq"}, heartbeat |-> FALSE]}
MCRounds == [s \in InfoSources |-> IF s = "adsb" THEN 2 ELSE 1]
MCSnapKeys == [openmeteo |-> <<"home", "home_air", "town">>, metar |-> <<"epkk">>,
               adsb |-> <<"area">>, giosaq |-> <<"station">>]

(* The configuration and the group spell one address differently. *)
MCConfigured == <<"a", "b">>
MCMemberLists == {<<>>, <<"B", "c">>}
MCLower == [a |-> "a", b |-> "b", B |-> "b", c |-> "c"]

EdgeInit ==
    /\ part \in {"web", "ingest", "sources", "info", "channel"}
    /\ WebInit /\ IngestInit /\ SourcesInit /\ InfoInit /\ ChanInit
    /\ part # "sources" => kind = "rso"
    /\ part # "info" => program = CHOOSE p \in Programs : TRUE
    /\ part # "channel" => channel = "smtp" /\ members = <<>>

EdgeNext ==
    \/ part = "web" /\ WebNext /\ UNCHANGED <<part, ingestVars, sourceVars, infoVars, chanVars>>
    \/ part = "ingest" /\ IngestNext /\ UNCHANGED <<part, webVars, sourceVars, infoVars, chanVars>>
    \/ part = "sources" /\ SourcesNext /\ UNCHANGED <<part, webVars, ingestVars, infoVars, chanVars>>
    \/ part = "info" /\ InfoNext /\ UNCHANGED <<part, webVars, ingestVars, sourceVars, chanVars>>
    \/ part = "channel" /\ ChanNext /\ UNCHANGED <<part, webVars, ingestVars, sourceVars, infoVars>>

EdgeSpec == EdgeInit /\ [][EdgeNext]_<<part, webVars, ingestVars, sourceVars, infoVars, chanVars>>
=============================================================================
