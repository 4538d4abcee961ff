----------------------------- MODULE TopologyAll -----------------------------
(***************************************************************************)
(* The map with every link of the network: stores/topologyAll.ts, the      *)
(* effects of App.tsx that refresh it, MapTopologyToggle.tsx,              *)
(* utils/topologyAllCache.ts, and the layer of maps/leafletMap.ts it is    *)
(* drawn on by the effects of pages/MapPage.tsx.                           *)
(*                                                                         *)
(* Requests are numbered as they are sent; none of them is ever aborted,   *)
(* so answers come in any order.  Links are known by the request that      *)
(* brought them, and 0 is none.  A line is drawn between two positions and *)
(* stays as it is until the layer is drawn again.                          *)
(***************************************************************************)
EXTENDS Integers

CONSTANTS TopologyTTL,   \* ticks a snapshot is fresh for
          TopologyLinks, \* pairs of nodes: the edges of a snapshot
          Positions,     \* where a node may be
          MaxSnapshots   \* bound: requests sent

ASSUME TopologyAssumption == TopologyTTL \in Nat /\ MaxSnapshots \in Nat

VARIABLES topologyAll,    \* useTopologyAllStore; age: ticks since lastFetchedAt, TopologyTTL
                          \* when it is no more fresh or there is none
          topologyMeta,   \* "loading", "failed", or that of a server whose map is made like the
                          \* one before meta has come ("alike") or with other options ("other")
          nodePositions,      \* useNodeStore.mapNodes: the position of each end that has one
          onMap,          \* the map page is shown
          topologySeen,   \* what the effects last ran with; positions: what the map rendered
          drawnLinks,     \* topologyAllLayer: <<snapshot, from, to>>
          snapshotsAsked, \* requests sent
          snapshotsDue,   \* those without an answer
          askedBefore,    \* the requests sent before the mode was last turned on
          overtaken,      \* history: one was answered after a later one had been
          stirred         \* history: nodes or meta came since the last answer, turn or opening

topologyVars == <<topologyAll, topologyMeta, nodePositions, onMap, topologySeen, drawnLinks,
                  snapshotsAsked, snapshotsDue, askedBefore, overtaken, stirred>>

InitialTopology ==
    [enabled |-> FALSE, edges |-> 0, loading |-> FALSE, error |-> FALSE, age |-> TopologyTTL]
TopologyState == [enabled |-> topologyAll.enabled, edges |-> topologyAll.edges,
                  meta |-> topologyMeta, map |-> onMap, positions |-> nodePositions]
TopologyQuiet == topologySeen = TopologyState

IsTopologyAllFresh == topologyAll.age < TopologyTTL

LinkEnds == {link[1] : link \in TopologyLinks} \cup {link[2] : link \in TopologyLinks}
Placements == UNION {[placed -> Positions] : placed \in SUBSET LinkEnds}

\* renderAllTopology: an edge is left out when the map has no position of one of its ends.
Lines(edges, placed) ==
    {<<edges, placed[link[1]], placed[link[2]]>> :
        link \in {l \in TopologyLinks : edges # 0 /\ {l[1], l[2]} \subseteq DOMAIN placed}}

TopologyRefresh(state) ==
    /\ topologyAll' = [state EXCEPT !.loading = TRUE, !.error = FALSE]
    /\ snapshotsAsked' = snapshotsAsked + 1
    /\ snapshotsDue' = snapshotsDue \cup {snapshotsAsked + 1}

\* Turning the mode on asks for a snapshot, fresh or not.
SetEnabled(next) ==
    LET state == [topologyAll EXCEPT !.enabled = next]
    IN  IF next THEN TopologyRefresh(state)
        ELSE topologyAll' = state /\ UNCHANGED <<snapshotsAsked, snapshotsDue>>

\* The switch is disabled while a snapshot loads.
ToggleTopologyAll ==
    /\ TopologyQuiet /\ onMap /\ ~topologyAll.loading
    /\ ~topologyAll.enabled => snapshotsAsked + 2 <= MaxSnapshots
    /\ SetEnabled(~topologyAll.enabled)
    /\ askedBefore' = snapshotsAsked
    /\ stirred' = FALSE
    /\ UNCHANGED <<topologyMeta, nodePositions, onMap, topologySeen, drawnLinks, overtaken>>

----------------------------------------------------------------------------
(* The effects.  Those of the page run first, in their order; all of them  *)
(* run when it is opened.                                                  *)

\* Clustering or the mode of the circles is another: the map is made anew, and empty.
MapMadeAnew == onMap /\ topologySeen.map /\ (topologySeen.meta = "other") # (topologyMeta = "other")

\* The lines are drawn when the mode or the snapshot has changed, and not for nodes or meta.
LinesAreDrawn ==
    onMap /\ (~topologySeen.map \/ topologySeen.enabled # topologyAll.enabled
              \/ topologySeen.edges # topologyAll.edges)

\* Mutant: the lines are drawn before the nodes are rendered.
PositionsAsLastRendered == IF topologySeen.map THEN topologySeen.positions ELSE <<>>

\* The nodes are rendered first.
PositionsToDraw == nodePositions

DrawLines ==
    drawnLinks' =
        IF LinesAreDrawn
        THEN IF topologyAll.enabled THEN Lines(topologyAll.edges, PositionsToDraw) ELSE {}
        ELSE IF MapMadeAnew THEN {} ELSE drawnLinks

HasTopologyMeta == topologyMeta \in {"alike", "other"}

\* The application asks again when the mode or meta has changed, unless what it has is
\* fresh.  The first answer is not there yet: that asks twice.
RunTopologyEffects ==
    /\ ~TopologyQuiet
    /\ topologySeen' = TopologyState
    /\ DrawLines
    /\ IF /\ topologySeen.enabled # topologyAll.enabled \/ topologySeen.meta # topologyMeta
          /\ topologyAll.enabled /\ HasTopologyMeta /\ ~IsTopologyAllFresh
       THEN TopologyRefresh(topologyAll)
       ELSE UNCHANGED <<topologyAll, snapshotsAsked, snapshotsDue>>
    /\ UNCHANGED <<topologyMeta, nodePositions, onMap, askedBefore, overtaken, stirred>>

----------------------------------------------------------------------------
(* Answers, nodes and pages                                                *)

Answered(n) ==
    /\ n \in snapshotsDue
    /\ snapshotsDue' = snapshotsDue \ {n}
    /\ overtaken' = (overtaken \/ \E m \in n + 1 .. snapshotsAsked : m \notin snapshotsDue)
    /\ UNCHANGED <<topologyMeta, nodePositions, onMap, topologySeen, drawnLinks, snapshotsAsked,
                   askedBefore>>

AnswerTopology(n) ==
    /\ Answered(n)
    /\ topologyAll' = [topologyAll EXCEPT !.edges = n, !.loading = FALSE, !.error = FALSE, !.age = 0]
    /\ stirred' = FALSE

FailTopology(n) ==
    /\ Answered(n)
    /\ topologyAll' = [topologyAll EXCEPT !.loading = FALSE, !.error = TRUE]
    /\ UNCHANGED stirred

NodesChange(placed) ==
    /\ nodePositions' = placed
    /\ stirred' = TRUE
    /\ UNCHANGED <<topologyAll, onMap, topologySeen, drawnLinks, snapshotsAsked, snapshotsDue,
                   askedBefore, overtaken>>

\* The bootstrap has its answers, meta and nodes at once, whichever of them came.
BootTopology(meta, placed) ==
    /\ topologyMeta = "loading"
    /\ topologyMeta' = meta
    /\ NodesChange(placed)

\* Live events place and move nodes, and those that are too old are taken out, once there
\* is meta.
RenewNodes(placed) ==
    /\ HasTopologyMeta
    /\ placed # nodePositions
    /\ NodesChange(placed)
    /\ UNCHANGED topologyMeta

\* The page of the map is left, its layers with it, or opened again; the mode stays on.
ShowOrLeaveMap ==
    /\ TopologyQuiet
    /\ onMap' = ~onMap /\ drawnLinks' = {}
    /\ stirred' = FALSE
    /\ UNCHANGED <<topologyAll, topologyMeta, nodePositions, topologySeen, snapshotsAsked,
                   snapshotsDue, askedBefore, overtaken>>

TopologyTick ==
    /\ IsTopologyAllFresh
    /\ topologyAll' = [topologyAll EXCEPT !.age = @ + 1]
    /\ UNCHANGED <<topologyMeta, nodePositions, onMap, topologySeen, drawnLinks, snapshotsAsked,
                   snapshotsDue, askedBefore, overtaken, stirred>>

TopologyInit ==
    /\ topologyAll = InitialTopology
    /\ topologyMeta = "loading" /\ nodePositions = <<>> /\ onMap \in BOOLEAN
    /\ topologySeen = [TopologyState EXCEPT !.map = FALSE]
    /\ drawnLinks = {}
    /\ snapshotsAsked = 0 /\ snapshotsDue = {} /\ askedBefore = 0
    /\ overtaken = FALSE /\ stirred = FALSE

TopologyNext ==
    \/ ToggleTopologyAll \/ RunTopologyEffects \/ ShowOrLeaveMap \/ TopologyTick
    \/ \E n \in snapshotsDue : AnswerTopology(n) \/ FailTopology(n)
    \/ \E meta \in {"failed", "alike", "other"}, placed \in Placements : BootTopology(meta, placed)
    \/ \E placed \in Placements : RenewNodes(placed)

TopologySpec == TopologyInit /\ [][TopologyNext]_topologyVars

----------------------------------------------------------------------------
(* Properties                                                              *)

\* While the mode is on, once everything was answered, the links in the store come from a
\* request that was sent since it was turned on, or an error is told; turning it off and on
\* again is how a user asks for newer ones.  A refresh that goes on longer than a newer one
\* is let out, and puts older links back.  The switch is never left disabled.
\*
\* No line is drawn of another snapshot than that, or with the mode off.  All of its lines
\* are, where the nodes are now, unless nodes or meta came since it was answered, the mode
\* turned or the page opened: nothing draws them then, neither for a node that is placed,
\* moved or taken out later, nor on a map that was made anew.
TopologyAgrees ==
    /\ topologyAll.loading => snapshotsDue # {}
    /\ TopologyQuiet =>
          /\ \A line \in drawnLinks : onMap /\ topologyAll.enabled /\ line[1] = topologyAll.edges
          /\ onMap /\ topologyAll.enabled /\ ~stirred => drawnLinks = Lines(topologyAll.edges, nodePositions)
          /\ topologyAll.enabled /\ snapshotsDue = {} =>
                \/ topologyAll.error
                \/ topologyAll.edges > askedBefore
                \/ overtaken /\ topologyAll.edges > 0

=============================================================================
