------------------------------ MODULE MapMarkers ------------------------------
(***************************************************************************)
(* How fresh a node's marker looks: the icon and the popup that            *)
(* maps/leafletMap.ts makes of a node, the packets the server hears of it  *)
(* and what it tells the client then (ingest/service.go,                   *)
(* stores/nodeState.ts), and the pruning of App.tsx that has the markers   *)
(* rendered again.                                                         *)
(*                                                                         *)
(* One node whose position stays recent; its times are ages in steps of    *)
(* the clock.  Icons are cached by a key that has all they are made from,  *)
(* so the cache is left out, as are the rows of the popup but "MQTT".      *)
(***************************************************************************)
EXTENDS Integers, FiniteSetsExt

CONSTANTS Threshold,   \* meta.disconnected_threshold
          ColdAge,     \* VISUAL_COLD_NODE_AGE_MS
          RenderEvery, \* the interval of applyRelevance
          OldestSeen   \* bound: ages are not told apart from here on

NotSeen == 99

ASSUME MarkersAssumption ==
    /\ {Threshold, ColdAge, RenderEvery, OldestSeen} \subseteq Nat \ {0}
    /\ OldestSeen < NotSeen
    /\ Threshold < ColdAge /\ Threshold + RenderEvery < OldestSeen
    /\ ColdAge + RenderEvery <= OldestSeen

VARIABLES heard,       \* the node's row: ages of last_seen_any_event_at (seen) and
                       \* of last_seen_mqtt_gateway_at (mqtt)
          known,       \* the same as the client has it
          client,      \* "loading", "off" (no meta came), "down" or "up" (the websocket)
          mapShown,    \* the page is the map
          selected,    \* the adapter's selectedID is the node
          drawn,       \* the marker: its icon (freshness, large) and the popup's MQTT status
          renderIn     \* time until the next pruning

markerVars == <<heard, known, client, mapShown, selected, drawn, renderIn>>

NoMarker == [freshness |-> "no marker", large |-> FALSE, status |-> "no popup"]
AgeOf(age) == IF age = NotSeen THEN NotSeen ELSE Min({age + 1, OldestSeen})
OlderRow(row) == [seen |-> AgeOf(row.seen), mqtt |-> AgeOf(row.mqtt)]

----------------------------------------------------------------------------
(* leafletMap.ts; a threshold comes with meta                              *)

WithThreshold(c) == c \in {"down", "up"}

MarkerFreshnessState(row, threshold) ==
    IF threshold /\ row.mqtt <= Threshold THEN "mqtt-recent"
    ELSE IF threshold /\ row.seen <= Threshold THEN "heard-recent"
    ELSE IF row.seen < ColdAge THEN "stale" ELSE "cold"

\* Without a threshold any time will do.
MqttStatus(row, threshold) ==
    IF row.mqtt # NotSeen /\ (threshold => row.mqtt <= Threshold)
    THEN "Connected" ELSE "Disconnected"

\* Mutant: the popup of a marker that is there keeps what it said.
RenderIconOnly(row, threshold, large) ==
    [freshness |-> MarkerFreshnessState(row, threshold), large |-> large,
     status |-> IF drawn = NoMarker THEN MqttStatus(row, threshold) ELSE drawn.status]

RenderMarker(row, threshold, large) ==
    [freshness |-> MarkerFreshnessState(row, threshold), large |-> large,
     status |-> MqttStatus(row, threshold)]

\* The effect of MapPage on its nodes; only the page has an adapter.
RenderNodes ==
    drawn' = IF mapShown' THEN RenderMarker(known', WithThreshold(client'), selected') ELSE NoMarker

\* setSelection has setMarkerSelectedIcon make the icon anew; the popup stays as it was.
SetMarkerSelection ==
    /\ mapShown /\ drawn # NoMarker
    /\ selected' = ~selected
    /\ drawn' = [freshness |-> MarkerFreshnessState(known, WithThreshold(client)),
                 large |-> selected', status |-> drawn.status]
    /\ UNCHANGED <<heard, known, client, mapShown, renderIn>>

\* Leaving the page destroys the adapter; the next one starts without a selection.
LeaveOrEnterMap ==
    /\ mapShown' = ~mapShown
    /\ selected' = FALSE
    /\ IF client = "loading" THEN UNCHANGED <<heard, known, client, renderIn, drawn>>
       ELSE UNCHANGED <<heard, known, client, renderIn>> /\ RenderNodes

----------------------------------------------------------------------------
(* The server and the live events                                          *)

\* What collectNodeEvidence makes of the node in a packet: it sent it and a gateway uploaded
\* it ("sent"), it uploaded a packet of its own ("own") or of another node ("gateway"), or the
\* packet mentions it.
Evidences == {"sent", "own", "gateway", "mentioned"}

\* node.upsert with mergeNode: the client keeps the time of an upload that is not sent.
NodeUpsert(evidence) == [seen |-> 0, mqtt |-> IF evidence = "own" THEN 0 ELSE known.mqtt]

\* Only the evidence of the sender has the uploader, without which nothing is emitted:
\* that a gateway uploaded another's packet is in its row and not told.
UpsertNodeEvidence(evidence) ==
    /\ heard' = [seen |-> 0, mqtt |-> IF evidence \in {"own", "gateway"} THEN 0 ELSE heard.mqtt]
    /\ UNCHANGED <<client, mapShown, selected, renderIn>>
    /\ IF client = "up" /\ evidence \in {"sent", "own"}
       THEN known' = NodeUpsert(evidence) /\ RenderNodes
       ELSE UNCHANGED <<known, drawn>>

----------------------------------------------------------------------------
(* App.tsx                                                                 *)

\* The bootstrap has its answers, the nodes among them; meta came or not.
LoadMarkers(meta) ==
    /\ client = "loading"
    /\ client' = IF meta THEN "down" ELSE "off"
    /\ known' = heard /\ renderIn' = RenderEvery
    /\ UNCHANGED <<heard, mapShown, selected>>
    /\ RenderNodes

ConnectOrDropMarkers ==
    /\ WithThreshold(client)
    /\ client' = IF client = "down" THEN "up" ELSE "down"
    /\ UNCHANGED <<heard, known, mapShown, selected, drawn, renderIn>>

\* applyRelevance, on its timer or with an event about another node: a new list of nodes.
ApplyRelevanceToMarkers ==
    /\ WithThreshold(client)
    /\ renderIn' = IF renderIn = 0 THEN RenderEvery ELSE renderIn
    /\ UNCHANGED <<heard, known, client, mapShown, selected>>
    /\ RenderNodes

\* A timer that is due runs before time goes on.
TickMarkers ==
    /\ WithThreshold(client) => renderIn > 0
    /\ heard' = OlderRow(heard) /\ known' = OlderRow(known)
    /\ renderIn' = IF WithThreshold(client) THEN renderIn - 1 ELSE renderIn
    /\ UNCHANGED <<client, mapShown, selected, drawn>>

MarkersInit ==
    /\ heard \in {[seen |-> 0, mqtt |-> 0], [seen |-> 0, mqtt |-> NotSeen]}
    /\ known = [seen |-> NotSeen, mqtt |-> NotSeen] /\ client = "loading"
    /\ mapShown \in BOOLEAN /\ selected = FALSE
    /\ drawn = NoMarker /\ renderIn = RenderEvery

MarkersNext ==
    \/ SetMarkerSelection \/ LeaveOrEnterMap
    \/ \E evidence \in Evidences : UpsertNodeEvidence(evidence)
    \/ \E meta \in BOOLEAN : LoadMarkers(meta)
    \/ ConnectOrDropMarkers \/ ApplyRelevanceToMarkers \/ TickMarkers

MarkersSpec == MarkersInit /\ [][MarkersNext]_markerVars

----------------------------------------------------------------------------
(* Property                                                                *)

RankOf(freshness) == CASE freshness = "mqtt-recent" -> 3 [] freshness = "heard-recent" -> 2
                       [] freshness = "stale" -> 1 [] OTHER -> 0
Younger(age) == IF age = NotSeen THEN NotSeen ELSE Max({0, age - RenderEvery})

\* A marker lies at most one interval of the pruning behind what the client knows: it is never
\* duller than that, and at most as bright as the node was an interval ago.  A green icon has
\* a popup that says connected, and the client never takes the node for more
\* recent than the server does, whatever it was not told.
MarkersTell ==
    /\ (client # "loading" /\ mapShown) <=> drawn # NoMarker
    /\ (WithThreshold(client) /\ mapShown) =>
          /\ RankOf(drawn.freshness) >= RankOf(MarkerFreshnessState(known, TRUE))
          /\ RankOf(drawn.freshness) <=
                RankOf(MarkerFreshnessState([seen |-> Younger(known.seen), mqtt |-> Younger(known.mqtt)], TRUE))
    /\ drawn.freshness = "mqtt-recent" => drawn.status = "Connected"
    /\ known.mqtt >= heard.mqtt /\ known.seen >= heard.seen

=============================================================================
