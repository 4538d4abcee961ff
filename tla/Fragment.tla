------------------------------ MODULE Fragment ------------------------------
(***************************************************************************)
(* utils/urlState.ts: the state of the page in the fragment of the URL.    *)
(*                                                                         *)
(* A fragment is a record of its path and of the raw query parameters.  A  *)
(* raw number is an integer, or NoNumber when the parameter is absent or   *)
(* no finite number; the empty text, which Number() takes for 0, is 0.     *)
(* The empty text of a name stands for an absent one, as the parser has it. *)
(* Latitudes and longitudes count in tenths of the last of the six decimals *)
(* the serializer keeps, zoom in thousandths with two decimals kept.  The  *)
(* kinds of a filter are a set: their order and repetition are left out.   *)
(***************************************************************************)
EXTENDS LogFilters

CONSTANTS NoNumber,  \* undefined, for a number
          NoText,    \* the empty search text
          NoSource,  \* no source of updates, or the empty one
          Encoded    \* encodeURIComponent of the names of sources

FragmentPages == {"map", "nodes", "stats", "log"}
NoView == [lat |-> NoNumber, lng |-> NoNumber, zoom |-> NoNumber]

Degrees == 10000000
MaxZoom == 24000

\* parseMapView: the three numbers or no view at all.
ParseMapView(params) ==
    IF NoNumber \notin {params.lat, params.lng, params.z}
          /\ -90 * Degrees <= params.lat /\ params.lat <= 90 * Degrees
          /\ -180 * Degrees <= params.lng /\ params.lng <= 180 * Degrees
          /\ 0 <= params.z /\ params.z <= MaxZoom
    THEN [lat |-> params.lat, lng |-> params.lng, zoom |-> params.z]
    ELSE NoView

\* What a page keeps of the fragment when it is on another page: nothing.
NoMap == [view |-> NoView, node |-> NoNode, chat |-> NoChannel, panel |-> "none"]
NoNodes == [node |-> NoNode, q |-> NoText]
NoLog == [eventKinds |-> {}, channel |-> NoChannel, nodeID |-> NoNode,
          hopRange |-> DefaultLogHopRange, eventID |-> 0]

\* The path "none" stands for a hash without a slash, "other" for an unknown page.
ParsePage(path) == IF path \in FragmentPages THEN path ELSE "map"

ParseLog(params) ==
    [eventKinds |-> {kind \in params.kinds : kind # NoNumber /\ kind > 0},
     channel    |-> params.channel,
     nodeID     |-> params.nodeID,
     hopRange   |-> NormalizeLogHopRange(
                      [min |-> IF params.hopsMin = NoNumber THEN LogHopsMin ELSE params.hopsMin,
                       max |-> IF params.hopsMax = NoNumber THEN LogHopsMax ELSE params.hopsMax]),
     eventID    |-> IF params.event = NoNumber \/ params.event < 0 THEN 0 ELSE params.event]

\* parseFragmentState.  "#/updates/" without a name is the map with its parameters.
ParseFragmentState(hash) ==
    LET p       == hash.params
        page    == ParsePage(hash.path)
        routed  == \/ hash.path \notin {"none", "info", "updates"}
                   \/ hash.path = "updates" /\ hash.source = NoSource
    IN  [page   |-> page,
         info   |-> hash.path = "info",
         source |-> IF hash.path = "updates" THEN hash.source ELSE NoSource,
         map    |-> IF routed /\ page = "map"
                    THEN [view |-> ParseMapView(p), node |-> p.node, chat |-> p.chat,
                          panel |-> IF p.panel \in {"open", "collapsed"} THEN p.panel ELSE "none"]
                    ELSE NoMap,
         nodes  |-> IF page = "nodes" THEN [node |-> p.node, q |-> p.q] ELSE NoNodes,
         log    |-> IF page = "log" THEN ParseLog(p) ELSE NoLog]

NoParams == [lat |-> NoNumber, lng |-> NoNumber, z |-> NoNumber, node |-> NoNode,
             chat |-> NoChannel, panel |-> "none", q |-> NoText, kinds |-> {},
             channel |-> NoChannel, nodeID |-> NoNode, hopsMin |-> NoNumber,
             hopsMax |-> NoNumber, event |-> NoNumber]

\* toFixed, which rounds half away from zero.
ToFixed(n) == IF n < 0 THEN -(((5 - n) \div 10) * 10) ELSE ((n + 5) \div 10) * 10
Rounded(view) ==
    IF view = NoView THEN NoView
    ELSE [lat |-> ToFixed(view.lat), lng |-> ToFixed(view.lng), zoom |-> ToFixed(view.zoom)]

At(path, params) == [path |-> path, source |-> NoSource, params |-> params]

SerializeMap(map) ==
    LET view == Rounded(map.view)
    IN  At("map", [NoParams EXCEPT !.lat = view.lat, !.lng = view.lng, !.z = view.zoom,
                                   !.node = map.node, !.chat = map.chat, !.panel = map.panel])
SerializeNodes(nodes) == At("nodes", [NoParams EXCEPT !.node = nodes.node, !.q = nodes.q])

SerializeLog(log) ==
    LET hops == ~IsDefaultLogHopRange(log.hopRange)
    IN  At("log", [NoParams EXCEPT
            !.kinds = log.eventKinds, !.channel = log.channel, !.nodeID = log.nodeID,
            !.hopsMin = IF hops THEN log.hopRange.min ELSE NoNumber,
            !.hopsMax = IF hops THEN log.hopRange.max ELSE NoNumber,
            !.event = IF log.eventID = 0 THEN NoNumber ELSE log.eventID])

\* serializeFragmentState
SerializeFragmentState(state) ==
    IF state.info THEN At("info", NoParams)
    ELSE IF state.source # NoSource
    THEN [At("updates", NoParams) EXCEPT !.source = Encoded[state.source]]
    ELSE CASE state.page = "map"   -> SerializeMap(state.map)
           [] state.page = "nodes" -> SerializeNodes(state.nodes)
           [] state.page = "log"   -> SerializeLog(state.log)
           [] state.page = "stats" -> At("stats", NoParams)

=============================================================================
