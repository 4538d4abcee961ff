----------------------------- MODULE Navigation -----------------------------
(***************************************************************************)
(* App.tsx: the state of the pages, the handlers that change it and write  *)
(* the URL, and what the browser does to both: back and forward, an edited *)
(* address, a reload.  The bootstrap ends some time after a load and may   *)
(* change the channel of the chat and the view of the map.                 *)
(*                                                                         *)
(* "app" holds the state of the React component and of the stores that the *)
(* URL is made of; "history" is the history of the tab.                    *)
(***************************************************************************)
EXTENDS Fragment, SequencesExt

CONSTANTS Blank,                      \* the blank search texts
          Boots,                      \* outcomes of the bootstrap: meta and channels
          DefaultChannel, DefaultView, FallbackView,
          MaxHistory,                 \* bound: entries of the history
          Plans                       \* bound: what may come up in one behaviour, see plan

\* Where the map may be, and the ranges of hops there are.
MapViews == [lat : Int, lng : Int, zoom : Int]
HopRanges == {r \in [min : LogHopsMin..LogHopsMax, max : LogHopsMin..LogHopsMax] : r.min <= r.max}

\* What is read as a number is one or is none.
Numeric(params) ==
    /\ {params.lat, params.lng, params.z, params.hopsMin, params.hopsMax, params.event}
           \subseteq Int \cup {NoNumber}
    /\ params.kinds \subseteq Int \cup {NoNumber}

ASSUME NavigationAssumption ==
    /\ NoNumber \notin Int
    /\ {DefaultView, FallbackView} \subseteq MapViews
    /\ \A boot \in Boots : boot.channels \in Seq(DOMAIN Lower)
    /\ \A p \in Plans :
          /\ p.views \subseteq MapViews /\ p.saved \subseteq MapViews \cup {NoView}
          /\ p.panels \subseteq {"open", "collapsed"} /\ p.events \subseteq Nat
          /\ \A f \in p.filters : f.eventKinds \subseteq Nat \ {0} /\ f.hopRange \in HopRanges
          /\ \A h \in p.addresses : Numeric(h.params)

VARIABLES app, booted, channels, savedView, initial, history, position,
          leaving, \* what the map page saw last, from the click that leaves it to its end
          late,    \* the map moved after it was left, and nothing wrote the URL since
          forced,  \* the bootstrap replaced what the URL says of the chat or the view
          plan     \* the pages, nodes, views, panels, channels, search texts, filters and
                   \* events of this behaviour, the addresses typed, what storage has at first

navVars == <<app, booted, channels, savedView, initial, history, position, leaving, late,
             forced, plan>>

NotLeaving == [page |-> "staying"]
Hash == history[position]
NoFilters == [eventKinds |-> {}, channel |-> NoChannel, nodeID |-> NoNode,
              hopRange |-> DefaultLogHopRange]

Trimmed(text) == IF text \in Blank THEN NoText ELSE text

\* canonicalChannelName for a channel that is set: itself, or the first one that differs
\* from it in case only.
Canonical(list, name) ==
    LET folded == {i \in DOMAIN list : Lower[list[i]] = Lower[name]}
    IN  IF Contains(list, name) \/ folded = {} THEN name ELSE list[Min(folded)]

----------------------------------------------------------------------------
(* Writing the URL                                                         *)

Fragment(page) == [page |-> page, info |-> FALSE, source |-> NoSource,
                   map |-> NoMap, nodes |-> NoNodes, log |-> NoLog]
MapFragment(a) ==
    [Fragment("map") EXCEPT !.map = [view |-> a.mapView, node |-> a.selected,
                                     chat |-> a.channel, panel |-> a.panel]]
NodesFragment(a) ==
    [Fragment("nodes") EXCEPT !.nodes = [node |-> a.selected, q |-> Trimmed(a.nodesFilter)]]
LogFragment(a) ==
    [Fragment("log") EXCEPT !.log = [eventKinds |-> a.filters.eventKinds,
        channel |-> a.filters.channel, nodeID |-> a.filters.nodeID,
        hopRange |-> a.filters.hopRange, eventID |-> a.eventID]]

\* currentFragmentState for the next page; the event is only that of the log page.
CurrentFragmentState(a, page) ==
    CASE page = "map"   -> MapFragment(a)
      [] page = "nodes" -> NodesFragment(a)
      [] page = "log"   -> LogFragment([a EXCEPT !.eventID = IF a.page = "log" THEN @ ELSE 0])
      [] page = "stats" -> Fragment("stats")

\* writeFragment: no entry for the fragment that is there.
WriteFragment(state, mode) ==
    LET next == SerializeFragmentState(state)
    IN  IF next = Hash THEN UNCHANGED <<history, position>>
        ELSE IF mode = "push"
        THEN /\ history' = Append(SubSeq(history, 1, position), next)
             /\ position' = position + 1
        ELSE history' = [history EXCEPT ![position] = next] /\ UNCHANGED position

----------------------------------------------------------------------------
(* Reading the URL                                                         *)

\* applyFragmentState.  The map keeps its view and its channel when the URL has none.
ApplyFragmentState(a, s) ==
    LET b == [a EXCEPT !.page = s.page,
                       !.routes = [info |-> s.info, source |-> s.source],
                       !.eventID = IF s.page = "log" THEN s.log.eventID ELSE 0,
                       !.focus = IF s.page = "map" THEN s.map.node ELSE NoNode]
    IN  CASE s.page = "map" ->
               [b EXCEPT !.mapView  = IF s.map.view # NoView THEN s.map.view ELSE @,
                         !.selected = s.map.node,
                         !.channel  = IF s.map.chat # NoChannel THEN s.map.chat ELSE @,
                         !.panel    = IF s.map.panel # "none" THEN s.map.panel ELSE "open"]
          [] s.page = "nodes" ->
               [b EXCEPT !.selected = s.nodes.node, !.nodesFilter = s.nodes.q]
          [] s.page = "log" ->
               [b EXCEPT !.filters = [eventKinds |-> s.log.eventKinds,
                            channel |-> s.log.channel, nodeID |-> s.log.nodeID,
                            hopRange |-> s.log.hopRange]]
          [] s.page = "stats" -> b

\* The state of a page that was just loaded from a hash, with what the storage has.
LoadedApp(hash, view, channel) ==
    LET s == ParseFragmentState(hash)
    IN  ApplyFragmentState(
          [page |-> "map", selected |-> NoNode, focus |-> NoNode, nodesFilter |-> NoText,
           eventID |-> 0, panel |-> "open", filters |-> NoFilters, channel |-> channel,
           routes |-> [info |-> FALSE, source |-> NoSource],
           mapView |-> IF s.map.view # NoView THEN s.map.view
                       ELSE IF view # NoView THEN view ELSE FallbackView], s)

\* initialURLState and initialChannelRef
InitialOf(hash, channel) ==
    LET map == ParseFragmentState(hash).map
    IN  [view |-> map.view, channel |-> IF map.chat # NoChannel THEN map.chat ELSE channel]

----------------------------------------------------------------------------
(* The bootstrap                                                           *)

Preferred(boot) ==
    IF initial.channel # NoChannel THEN initial.channel
    ELSE IF boot.meta THEN DefaultChannel
    ELSE IF boot.channels # <<>> THEN Head(boot.channels) ELSE NoChannel

\* The end of the bootstrap and the effect that takes the default view of the server.
Bootstrap(boot) ==
    LET channel == Preferred(boot)
        chosen  == IF channel = NoChannel THEN app.channel ELSE Canonical(boot.channels, channel)
        view    == IF boot.meta /\ initial.view = NoView /\ savedView = NoView
                   THEN DefaultView ELSE app.mapView
    IN  /\ ~booted
        /\ booted' = TRUE
        /\ channels' = boot.channels
        /\ app' = [app EXCEPT !.channel = chosen, !.mapView = view]
        /\ forced' = [chat |-> Canonical(boot.channels, app.channel) # chosen,
                      view |-> app.mapView # view]
        /\ UNCHANGED <<savedView, initial, history, position, leaving, late, plan>>

Unsettled == channels # <<>> /\ app.channel # NoChannel
             /\ Canonical(channels, app.channel) # app.channel

\* The effect that takes the server's writing of a channel; only the map's URL names it.
CanonicalChannel ==
    /\ Unsettled
    /\ app' = [app EXCEPT !.channel = Canonical(channels, @)]
    /\ IF app.page = "map" THEN WriteFragment(MapFragment(app'), "replace")
       ELSE UNCHANGED <<history, position>>
    /\ forced' = IF app.page = "map" THEN [chat |-> FALSE, view |-> FALSE] ELSE forced
    /\ UNCHANGED <<booted, channels, savedView, initial, leaving, late, plan>>

----------------------------------------------------------------------------
(* Handlers                                                                *)

\* A handler finds the page rendered and the effects run.
Ready == leaving = NotLeaving /\ ~Unsettled

\* A handler: the state it sets, and the fragment it writes.
Handle(a, fragment, mode) ==
    /\ Ready
    /\ app' = a
    /\ WriteFragment(fragment, mode)
    /\ Len(history') <= MaxHistory
    /\ leaving' = IF app.page = "map" /\ a.page # "map" THEN app ELSE NotLeaving
    /\ late' = FALSE
    /\ forced' = [chat |-> FALSE, view |-> FALSE]
    /\ a.page \in plan.pages
    /\ UNCHANGED <<booted, channels, initial, plan>>

Keep == UNCHANGED savedView

NavigateToPage(page) ==
    /\ Handle([app EXCEPT !.page = page,
                          !.focus = IF page = "map" THEN @ ELSE NoNode,
                          !.eventID = IF page = "log" THEN @ ELSE 0],
              CurrentFragmentState(app, page), "push")
    /\ Keep

\* onMapViewChange: the map says where it is, and the browser stores it.
OnMapViewChange(view) ==
    /\ app.page = "map"
    /\ LET a == [app EXCEPT !.mapView = view] IN Handle(a, MapFragment(a), "replace")
    /\ savedView' = view

SelectMapNode(id) ==
    /\ app.page = "map"
    /\ LET a == [app EXCEPT !.selected = id]
       IN  Handle(a, MapFragment(a), IF id # NoNode THEN "push" ELSE "replace")
    /\ Keep

ChangeChatPanel(panel) ==
    /\ app.page = "map"
    /\ LET a == [app EXCEPT !.panel = panel] IN Handle(a, MapFragment(a), "replace")
    /\ Keep

ChangeChatChannel(channel) ==
    /\ app.page = "map" /\ Contains(channels, channel)
    /\ LET a == [app EXCEPT !.channel = channel] IN Handle(a, MapFragment(a), "replace")
    /\ Keep

OnFocusNodeHandled ==
    /\ app.page = "map" /\ app.focus # NoNode
    /\ app' = [app EXCEPT !.focus = NoNode]
    /\ UNCHANGED <<booted, channels, savedView, initial, history, position, leaving, late,
                   forced, plan>>

\* From a popup or the chat of the map, a neighbour in the list, a row of the log.
OpenNodeDetails(id) ==
    /\ app.page \in {"map", "nodes", "log"}
    /\ LET a == [app EXCEPT !.page = "nodes", !.focus = NoNode, !.eventID = 0, !.selected = id]
       IN  Handle(a, NodesFragment(a), "push")
    /\ Keep

OpenNodeOnMap(id) ==
    /\ app.page = "nodes"
    /\ LET a == [app EXCEPT !.page = "map", !.selected = id, !.focus = id]
       IN  Handle(a, MapFragment(a), "push")
    /\ Keep

\* Mutant: the page that is rendered stays the list of nodes.
OpenNodeLogOnlyURL(id) ==
    /\ app.page = "nodes"
    /\ LET a == [app EXCEPT !.selected = id, !.focus = NoNode, !.eventID = 0,
                            !.filters = [NoFilters EXCEPT !.nodeID = id]]
       IN  Handle(a, LogFragment(a), "push")
    /\ Keep

OpenNodeLog(id) ==
    /\ app.page = "nodes"
    /\ LET a == [app EXCEPT !.page = "log", !.selected = id, !.focus = NoNode, !.eventID = 0,
                            !.filters = [NoFilters EXCEPT !.nodeID = id]]
       IN  Handle(a, LogFragment(a), "push")
    /\ Keep

ChangeNodesFilter(text) ==
    /\ app.page = "nodes"
    /\ LET a == [app EXCEPT !.nodesFilter = text] IN Handle(a, NodesFragment(a), "replace")
    /\ Keep

SelectNodeOnNodesPage(id) ==
    /\ app.page = "nodes"
    /\ LET a == [app EXCEPT !.selected = id] IN Handle(a, NodesFragment(a), "push")
    /\ Keep

\* changeLogFilters and resetLogFilters
ChangeLogFilters(filters) ==
    /\ app.page = "log"
    /\ LET a == [app EXCEPT !.filters = filters, !.eventID = 0]
       IN  Handle(a, LogFragment(a), "replace")
    /\ Keep

SelectLogEvent(id) ==
    /\ app.page = "log"
    /\ LET a == [app EXCEPT !.eventID = id] IN Handle(a, LogFragment(a), "push")
    /\ Keep

CloseLogEvent ==
    /\ app.page = "log" /\ app.eventID # 0
    /\ LET a == [app EXCEPT !.eventID = 0] IN Handle(a, LogFragment(a), "replace")
    /\ Keep

----------------------------------------------------------------------------
(* The end of the map page and the browser                                 *)

\* The map page is unmounted.  External: a map that is removed while it pans says where it
\* has come to, and its handler is still there, with what the map page saw last.
Unmount ==
    /\ leaving # NotLeaving
    /\ leaving' = NotLeaving
    /\ UNCHANGED <<booted, channels, initial, forced, plan>>
    /\ \/ UNCHANGED <<app, savedView, history, position, late>>
       \/ \E view \in plan.views :
             /\ app' = [app EXCEPT !.mapView = view]
             /\ savedView' = view
             /\ WriteFragment(MapFragment([leaving EXCEPT !.mapView = view]), "replace")
             /\ late' = TRUE

\* handleURLChange; popstate and hashchange may both come, the second changes nothing.
HandleURLChange ==
    /\ app' = ApplyFragmentState(app, ParseFragmentState(Hash'))
    /\ late' = FALSE
    /\ leaving' = IF app.page = "map" /\ app'.page # "map" THEN app ELSE NotLeaving
    /\ forced' = [chat |-> FALSE, view |-> FALSE]
    /\ UNCHANGED <<booted, channels, savedView, initial, plan>>

GoTo(k) ==
    /\ Ready
    /\ k \in DOMAIN history \ {position}
    /\ position' = k /\ UNCHANGED history
    /\ HandleURLChange

EditAddress(hash) ==
    /\ Ready
    /\ hash # Hash
    /\ position < MaxHistory
    /\ history' = Append(SubSeq(history, 1, position), hash)
    /\ position' = position + 1
    /\ HandleURLChange

Reload ==
    /\ Ready
    /\ app' = LoadedApp(Hash, savedView, app.channel)
    /\ initial' = InitialOf(Hash, app.channel)
    /\ booted' = FALSE /\ channels' = <<>>
    /\ late' = FALSE /\ forced' = [chat |-> FALSE, view |-> FALSE]
    /\ UNCHANGED <<savedView, history, position, leaving, plan>>

NavInit ==
    \E chosen \in Plans : \E hash \in chosen.addresses, view \in chosen.saved,
                              channel \in chosen.stored :
        /\ plan = chosen
        /\ history = <<hash>> /\ position = 1
        /\ app = LoadedApp(hash, view, channel)
        /\ initial = InitialOf(hash, channel)
        /\ savedView = view
        /\ booted = FALSE /\ channels = <<>>
        /\ leaving = NotLeaving /\ late = FALSE
        /\ forced = [chat |-> FALSE, view |-> FALSE]

NavNext ==
    \/ \E boot \in Boots : Bootstrap(boot)
    \/ CanonicalChannel
    \/ \E page \in FragmentPages : NavigateToPage(page)
    \/ \E view \in plan.views : OnMapViewChange(view)
    \/ \E id \in plan.nodes \cup {NoNode} : SelectMapNode(id)
    \/ \E panel \in plan.panels : ChangeChatPanel(panel)
    \/ \E channel \in plan.channels : ChangeChatChannel(channel)
    \/ OnFocusNodeHandled
    \/ \E id \in plan.nodes : \/ OpenNodeDetails(id) \/ OpenNodeOnMap(id)
                         \/ OpenNodeLog(id) \/ SelectNodeOnNodesPage(id)
    \/ \E text \in plan.texts : ChangeNodesFilter(text)
    \/ \E filters \in plan.filters : ChangeLogFilters(filters)
    \/ \E id \in plan.events : SelectLogEvent(id)
    \/ CloseLogEvent
    \/ Unmount
    \/ \E k \in 1..MaxHistory : GoTo(k)
    \/ \E hash \in plan.addresses : EditAddress(hash)
    \/ Reload

NavSpec == NavInit /\ [][NavNext]_navVars

----------------------------------------------------------------------------
(* Properties                                                              *)

\* The page that is shown is the one the URL names, with the node, the search, the filters
\* and the event the URL names; the view and the channel are those the URL has, if it has
\* any, up to its decimals and the writing of the channel.  A reload, a link and a step
\* back rely on it.  Let out: a map that moves after it was left, and what the bootstrap
\* sets over an address written before its end.
UrlAgrees ==
    LET s == ParseFragmentState(Hash)
    IN  late \/
        /\ app.page = s.page
        /\ app.eventID = s.log.eventID
        /\ s.page = "map" =>
              /\ app.selected = s.map.node
              /\ app.panel = IF s.map.panel = "none" THEN "open" ELSE s.map.panel
              /\ s.map.view = NoView \/ forced.view \/ Rounded(app.mapView) = Rounded(s.map.view)
              /\ \/ s.map.chat = NoChannel \/ forced.chat
                 \/ Canonical(channels, app.channel) = Canonical(channels, s.map.chat)
        /\ s.page = "nodes" =>
              app.selected = s.nodes.node /\ Trimmed(app.nodesFilter) = Trimmed(s.nodes.q)
        /\ s.page = "log" => LogFragment(app).log = s.log

=============================================================================
