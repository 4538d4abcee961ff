----------------------------- MODULE MCWebClient -----------------------------
(***************************************************************************)
(* The parts of the web client that keep a state of their own, each in     *)
(* behaviours of its own: "part" says which one a behaviour is about, and  *)
(* the others stay as they are at first.                                   *)
(***************************************************************************)
EXTENDS Navigation, MapSelection, StatsPage, ChatTab, ChatTimeline,
        NodeStore, Notices, TopologyAll, NodeLinks, LogPage, MapMarkers,
        NodeNames, JsonDetails

VARIABLE part

----------------------------------------------------------------------------
(* Bounds of the navigation                                                *)

MCLower == [c \in {"Fast", "fast", "Slow", "none", "no channel"} |-> IF c = "Fast" THEN "fast" ELSE c]
MCEncoded == [s \in {"a b"} |-> "a%20b"]

V(lat, lng, zoom) == [lat |-> lat, lng |-> lng, zoom |-> zoom]
MCDefaultView == V(645000000, 406000000, 12000)
MCFallbackView == V(100, 100, 12000)
\* A view between two decimals, and one that was dragged round the world.
MCViews == {V(-15, 4, 3005), V(0, 1900000000, 24000)}
MCBoots == {[meta |-> TRUE, channels |-> <<"Fast", "Slow">>], [meta |-> FALSE, channels |-> <<>>]}

P == NoParams
MapAddress == At("map", [P EXCEPT !.chat = "fast", !.panel = "collapsed", !.node = "n1"])
OutOfMap == At("map", [P EXCEPT !.lat = 2000000000, !.lng = 0, !.z = 0, !.chat = "Slow"])
LogAddress == At("log", [P EXCEPT !.kinds = {NoNumber, 0, 4}, !.hopsMin = 9, !.hopsMax = 3, !.event = 5])
NodesAddress == At("nodes", [P EXCEPT !.q = "  ", !.node = "n1"])
Update == [At("updates", P) EXCEPT !.source = "a b"]
MCFilters == {[NoFilters EXCEPT !.channel = "Fast", !.hopRange = [min |-> 2, max |-> 7]]}

Plan == [pages |-> FragmentPages, nodes |-> {}, views |-> {}, panels |-> {}, channels |-> {},
         texts |-> {}, filters |-> {}, events |-> {}, addresses |-> {At("info", P)},
         saved |-> {NoView}, stored |-> {NoChannel}]
MCPlans ==
    {[Plan EXCEPT !.pages = {"map", "stats"}, !.views = MCViews, !.saved = {NoView} \cup MCViews,
                  !.addresses = {At("none", P), OutOfMap}, !.nodes = {"n1"}],
     [Plan EXCEPT !.pages = {"map", "nodes"}, !.channels = {"Fast", "Slow"},
                  !.panels = {"open", "collapsed"}, !.stored = {NoChannel, "fast"},
                  !.addresses = {Update, MapAddress}],
     [Plan EXCEPT !.pages = {"map", "nodes", "log"}, !.nodes = {"n1"}, !.texts = {"a", "  "},
                  !.addresses = {At("info", P), NodesAddress}],
     [Plan EXCEPT !.nodes = {"n1"}, !.filters = MCFilters, !.events = {5},
                  !.addresses = {At("none", P), LogAddress}]}

----------------------------------------------------------------------------
(* Bounds of the others                                                    *)

MCTTL == [f \in Feeds |-> 3]
MCFirst == [1..4 -> ChatChannels] \cup {<<c, Unnamed, Unnamed, d>> : c, d \in ChatChannels}

\* Rows of the history of versions: a whole one, a short one, one that is too long.
MCRows == {<<>>, <<2>>, <<0, 3>>, <<1, 0, 1>>}
MCHistory(weeks, names, rows, starts) ==
    [weeks |-> weeks, names |-> names, rows |-> rows, weekStarts |-> starts]
MCHistories ==
    {MCHistory(2, <<"v1", "v2">>, <<<<0, 3>>, row>>, <<1, 2>>) : row \in MCRows}
    \cup {MCHistory(weeks, <<"v1", "v2">>, <<<<0, 3>>, <<2>>>>, <<1, -1>>) : weeks \in {0, 2}}
    \cup {MCHistory(weeks, names, <<>>, <<1, 2>>) : weeks \in {0, 2}, names \in {<<>>, <<"v1">>}}
    \cup {MCHistory(2, <<>>, <<<<2>>>>, <<1, 2>>)}
MCBars == {<<>>, <<[label |-> "v1", count |-> 2], [label |-> "v2", count |-> 1]>>}
MCMetric == <<"in", "out">>
MCBuckets == {<<>>, <<[in |-> 0, out |-> 0]>>, <<[in |-> 2, out |-> 0], [in |-> 1, out |-> 5]>>,
              [i \in 1..8 |-> [in |-> 1, out |-> i]]}

Row(type, packet, reply, emoji, time, day) ==
    [type |-> type, packet |-> packet, reply |-> reply, emoji |-> emoji, time |-> time, day |-> day]
MCTimelineRows ==
    {Row("message", packet, 0, "", 1, day) : packet \in {0, 1}, day \in {1, 2}}
    \cup {Row("system", 0, 0, "", 1, 1)}
    \cup {Row("reaction", 0, reply, emoji, time, 1) :
              reply \in {0, 1}, emoji \in {"x", "y"}, time \in {1, 2}}

\* One source with releases and one without any.
MCServers ==
    {[info |-> info, hash |-> IF info THEN "h1" ELSE "empty", sources |-> <<"app", "fw">>,
      releases |-> [s \in {"app", "fw"} |-> IF s = "app" THEN <<3, 2>> ELSE <<>>],
      latest |-> [s \in {"app", "fw"} |-> IF s = "app" THEN 4 ELSE 0]] : info \in BOOLEAN}
MCJars == {[info |-> hash, updates |-> [s \in {"app", "fw"} |-> IF s = "app" THEN 2 ELSE 0]] :
              hash \in {"h0", "h1"}}

MCLinks == {<<"a", "b">>}

MCEvidence == {[kind |-> "inferred", snr |-> NoSNR, at |-> 2],
               [kind |-> "mqtt_direct", snr |-> -16, at |-> 1],
               [kind |-> "neighbor_info", snr |-> 5, at |-> 1]}

MCFieldSets == {{"last position", "uptime"},
   {"latitude", "longitude", "position observed", "last position", "precision", "voltage", "level"}}
MCContaining == [t \in {"", "l1"} |-> IF t = "" THEN {"n", "l1", "l2", "s1"} ELSE {t}]

Arr(items) == [kind |-> "array", keys |-> SubSeq(<<"[0]", "[1]">>, 1, Len(items)), items |-> items]
Obj(keys, items) == [kind |-> "object", keys |-> keys, items |-> items]
MCValues == {Obj(<<>>, <<>>), Obj(<<"a">>, <<Arr(<<>>)>>),
             Obj(<<"a", "b">>, <<Arr(<<Scalar, Obj(<<"c">>, <<Scalar>>)>>), Arr(<<Arr(<<Scalar>>)>>)>>),
             Obj(<<"b", "a">>, <<Scalar, Arr(<<Arr(<<>>), Obj(<<"c">>, <<Scalar>>)>>)>>)}

MCListed == <<2, 5, 7>>
MCAddressed == {<<>>, <<7, 2>>, <<99>>, <<5>>}

----------------------------------------------------------------------------
(* One part at a time                                                      *)

vars == <<part, navVars, mapVars, statsVars, chartVars, chatVars, timeline,
          storeVars, noticeVars, topologyVars, linkVars, formVars, eventVars,
          markerVars, nameVars, jsonVars>>

Only(p, init, rests) == init /\ (part = p \/ rests)

Init ==
    /\ part \in {"navigation", "selection", "statistics", "charts", "chat", "timeline",
                "nodes", "notices", "topology", "links", "filters", "events", "markers", "names", "json"}
    /\ Only("navigation", NavInit,
            /\ plan.saved = {NoView} /\ plan.stored = {NoChannel} /\ plan.filters # {}
            /\ history = <<At("none", NoParams)>>)
    /\ Only("selection", SelectionInit, placed = {} /\ selectedId = NoSelection)
    /\ Only("statistics", StatsPageInit, clock = 0)
    /\ Only("charts", ChartsInit, charted.section = "software")
    /\ Only("chat", ChatInit, /\ chatTable = (CHOOSE t \in FirstRows : TRUE)
                              /\ chatChannel = (CHOOSE c \in ChatChannels : TRUE))
    /\ TimelineInit
    /\ Only("nodes", StoreInit, \A id \in StoreNodes : reported[id].pos = None)
    /\ Only("notices", NoticesInit, server.info /\ jar = (CHOOSE j \in Jars : TRUE) /\ route = NoRoute)
    /\ Only("topology", TopologyInit, onMap)
    /\ LinksInit
    /\ FormInit
    /\ EventsInit
    /\ Only("markers", MarkersInit, mapShown /\ heard.mqtt = 0)
    /\ NamesInit
    /\ JsonInit

Moves(p, others) == part = p /\ UNCHANGED <<part, others>>

Next ==
    \/ Moves("navigation", <<mapVars, statsVars, chartVars, chatVars, timeline, storeVars, noticeVars,
          topologyVars, linkVars, formVars, eventVars, markerVars, nameVars, jsonVars>>) /\ NavNext
    \/ Moves("selection", <<navVars, statsVars, chartVars, chatVars, timeline, storeVars, noticeVars,
          topologyVars, linkVars, formVars, eventVars, markerVars, nameVars, jsonVars>>) /\ SelectionNext
    \/ Moves("statistics", <<navVars, mapVars, chartVars, chatVars, timeline, storeVars, noticeVars,
          topologyVars, linkVars, formVars, eventVars, markerVars, nameVars, jsonVars>>) /\ StatsPageNext
    \/ Moves("charts", <<navVars, mapVars, statsVars, chatVars, timeline, storeVars, noticeVars,
          topologyVars, linkVars, formVars, eventVars, markerVars, nameVars, jsonVars>>) /\ ChartsNext
    \/ Moves("chat", <<navVars, mapVars, statsVars, chartVars, timeline, storeVars, noticeVars,
          topologyVars, linkVars, formVars, eventVars, markerVars, nameVars, jsonVars>>) /\ ChatNext
    \/ Moves("timeline", <<navVars, mapVars, statsVars, chartVars, chatVars, storeVars, noticeVars,
          topologyVars, linkVars, formVars, eventVars, markerVars, nameVars, jsonVars>>) /\ TimelineNext
    \/ Moves("nodes", <<navVars, mapVars, statsVars, chartVars, chatVars, timeline, noticeVars,
          topologyVars, linkVars, formVars, eventVars, markerVars, nameVars, jsonVars>>) /\ StoreNext
    \/ Moves("notices", <<navVars, mapVars, statsVars, chartVars, chatVars, timeline, storeVars,
          topologyVars, linkVars, formVars, eventVars, markerVars, nameVars, jsonVars>>) /\ NoticesNext
    \/ Moves("topology", <<navVars, mapVars, statsVars, chartVars, chatVars, timeline, storeVars,
          noticeVars, linkVars, formVars, eventVars, markerVars, nameVars, jsonVars>>) /\ TopologyNext
    \/ Moves("links", <<navVars, mapVars, statsVars, chartVars, chatVars, timeline, storeVars,
          noticeVars, topologyVars, formVars, eventVars, markerVars, nameVars, jsonVars>>) /\ LinksNext
    \/ Moves("filters", <<navVars, mapVars, statsVars, chartVars, chatVars, timeline, storeVars,
          noticeVars, topologyVars, linkVars, eventVars, markerVars, nameVars, jsonVars>>) /\ FormNext
    \/ Moves("events", <<navVars, mapVars, statsVars, chartVars, chatVars, timeline, storeVars,
          noticeVars, topologyVars, linkVars, formVars, markerVars, nameVars, jsonVars>>) /\ EventsNext
    \/ Moves("markers", <<navVars, mapVars, statsVars, chartVars, chatVars, timeline, storeVars,
          noticeVars, topologyVars, linkVars, formVars, eventVars, nameVars, jsonVars>>) /\ MarkersNext
    \/ Moves("names", <<navVars, mapVars, statsVars, chartVars, chatVars, timeline, storeVars,
          noticeVars, topologyVars, linkVars, formVars, eventVars, markerVars, jsonVars>>) /\ NamesNext
    \/ Moves("json", <<navVars, mapVars, statsVars, chartVars, chatVars, timeline, storeVars,
          noticeVars, topologyVars, linkVars, formVars, eventVars, markerVars, nameVars>>) /\ JsonNext

Spec == Init /\ [][Next]_vars

\* The page of statistics alone.
PollingSpec == Init /\ part = "statistics" /\ [][Next]_vars

----------------------------------------------------------------------------
(* Properties                                                              *)

\* What the pages tell of the data they are given is right, see each of the modules: the
\* links of the nodes, the filters and the events of the log, the charts, the timeline, the
\* markers, the names of a node and its fields, and JSON.
ViewsTell ==
    /\ part = "links" => LinksAgree
    /\ part = "filters" => FormTells
    /\ part = "events" => EventsTell
    /\ part = "charts" => ChartsTell
    /\ part = "timeline" => TimelineTells
    /\ part = "markers" => MarkersTell
    /\ part = "names" => NamesTell
    /\ part = "json" => JsonTells

=============================================================================
