----------------------------- MODULE NodeStore -----------------------------
(***************************************************************************)
(* What the web client keeps of the nodes: stores/nodes.ts with nodeState, *)
(* filled by the bootstrap of App.tsx and by the events of the websocket,  *)
(* and utils/relevance.ts, which takes out what is too old every minute.   *)
(*                                                                         *)
(* Positions and telemetry are known by their age, in ticks; None is none. *)
(* The clock of the browser is that of the server.                         *)
(***************************************************************************)
EXTENDS Integers, FiniteSetsExt

CONSTANTS StoreNodes,
          PositionMaxAge, TelemetryMaxAge, \* meta.relevance
          PruneEvery,                      \* a minute
          OldestAge                        \* bound: ages are told apart up to here

ASSUME NodeStoreAssumption ==
    /\ PositionMaxAge \in Nat /\ TelemetryMaxAge \in Nat /\ PruneEvery \in Nat \ {0}
    /\ OldestAge \in Nat
    /\ OldestAge > PositionMaxAge + PruneEvery /\ OldestAge > TelemetryMaxAge + PruneEvery

VARIABLES reported,  \* the server: age of the last position and telemetry of each node
          snapshot,  \* api.mapNodes as the server answered it, with ages since; or NotAsked
          live,      \* "loading", "off" (without meta), "down" or "up": the websocket
          mapNodes,  \* useNodeStore.mapNodes, NotOnMap for a node that is not in it
          summaries, \* useNodeStore.summaries: the age of the position a node is marked with
          pruneIn,   \* ticks until applyRelevance runs
          missed     \* nodes that reported a position the client was not told of

storeVars == <<reported, snapshot, live, mapNodes, summaries, pruneIn, missed>>

None == -1
NotOnMap == [onMap |-> FALSE, named |-> FALSE, pos |-> None, tel |-> None]
NotAsked == [asked |-> FALSE]

IsRecent(age, maxAge) == age # None /\ age <= maxAge
Aged(age) == IF age = None THEN None ELSE Min({age + 1, OldestAge})
OlderNode(n) == [n EXCEPT !.pos = Aged(@), !.tel = Aged(@)]

----------------------------------------------------------------------------
(* utils/relevance.ts                                                      *)

\* Mutant: a node is judged by its telemetry.
PruneByTelemetry(nodes) ==
    [id \in StoreNodes |->
        IF IsRecent(nodes[id].tel, TelemetryMaxAge) THEN nodes[id] ELSE NotOnMap]

\* pruneMapNodesByRelevance: without a recent position a node goes with all that is known
\* of it.
PruneMapNodes(nodes) ==
    [id \in StoreNodes |->
        IF ~IsRecent(nodes[id].pos, PositionMaxAge) THEN NotOnMap
        ELSE [nodes[id] EXCEPT !.tel = IF IsRecent(@, TelemetryMaxAge) THEN @ ELSE None]]

\* pruneNodeSummariesByRelevance: the node stays in the list, without its position.
PruneSummaries(list) ==
    [id \in StoreNodes |-> IF IsRecent(list[id], PositionMaxAge) THEN list[id] ELSE None]

----------------------------------------------------------------------------
(* stores/nodeState.ts                                                     *)

UpsertNode(nodes, id) == [nodes EXCEPT ![id].onMap = TRUE, ![id].named = TRUE]

\* A node that is not there is put in without its names.
UpsertPosition(nodes, id) == [nodes EXCEPT ![id].onMap = TRUE, ![id].pos = 0]

UpsertTelemetry(nodes, id) == IF nodes[id].onMap THEN [nodes EXCEPT ![id].tel = 0] ELSE nodes

----------------------------------------------------------------------------
(* The server and the websocket                                            *)

ReportPosition(id) ==
    /\ reported' = [reported EXCEPT ![id].pos = 0]
    /\ mapNodes' = IF live = "up" THEN UpsertPosition(mapNodes, id) ELSE mapNodes
    /\ missed' = IF live = "up" THEN missed \ {id} ELSE missed \cup {id}
    /\ UNCHANGED <<snapshot, live, summaries, pruneIn>>

ReportTelemetry(id) ==
    /\ reported' = [reported EXCEPT ![id].tel = 0]
    /\ mapNodes' = IF live = "up" THEN UpsertTelemetry(mapNodes, id) ELSE mapNodes
    /\ UNCHANGED <<snapshot, live, summaries, pruneIn, missed>>

ReportNode(id) ==
    /\ live = "up"
    /\ mapNodes' = UpsertNode(mapNodes, id)
    /\ UNCHANGED <<reported, snapshot, live, summaries, pruneIn, missed>>

\* The server answers api.mapNodes: the nodes with a recent position, each with
\* its telemetry if that is recent too.
ServeMapNodes ==
    /\ live = "loading" /\ snapshot = NotAsked
    /\ snapshot' = [asked |-> TRUE, nodes |-> [id \in StoreNodes |->
           IF IsRecent(reported[id].pos, PositionMaxAge)
           THEN [onMap |-> TRUE, named |-> TRUE, pos |-> reported[id].pos,
                 tel |-> IF IsRecent(reported[id].tel, TelemetryMaxAge) THEN reported[id].tel ELSE None]
           ELSE NotOnMap]]
    /\ missed' = {}
    /\ UNCHANGED <<reported, live, mapNodes, summaries, pruneIn>>

----------------------------------------------------------------------------
(* App.tsx                                                                 *)

\* The bootstrap has all its answers; it takes the nodes, if they came.  With meta it has
\* started the websocket, and applyRelevance runs from here on.
FinishLoading(meta) ==
    /\ live = "loading"
    /\ live' = IF meta THEN "down" ELSE "off"
    /\ mapNodes' = IF snapshot = NotAsked THEN mapNodes
                   ELSE IF meta THEN PruneMapNodes(snapshot.nodes) ELSE snapshot.nodes
    /\ missed' = IF snapshot = NotAsked THEN StoreNodes ELSE missed
    /\ pruneIn' = IF meta THEN 0 ELSE pruneIn
    /\ snapshot' = NotAsked
    /\ UNCHANGED <<reported, summaries>>

\* The list of nodes is loaded once, as its page is first opened.
LoadSummaries ==
    /\ summaries = [id \in StoreNodes |-> None]
    /\ LET answer == [id \in StoreNodes |-> reported[id].pos]
       IN  summaries' = IF live \in {"up", "down"} THEN PruneSummaries(answer) ELSE answer
    /\ UNCHANGED <<reported, snapshot, live, mapNodes, pruneIn, missed>>

Connect == live = "down" /\ live' = "up"
           /\ UNCHANGED <<reported, snapshot, mapNodes, summaries, pruneIn, missed>>
Disconnect == live = "up" /\ live' = "down"
              /\ UNCHANGED <<reported, snapshot, mapNodes, summaries, pruneIn, missed>>

ApplyRelevance ==
    /\ live \in {"up", "down"} /\ pruneIn = 0
    /\ mapNodes' = PruneMapNodes(mapNodes)
    /\ summaries' = PruneSummaries(summaries)
    /\ pruneIn' = PruneEvery
    /\ UNCHANGED <<reported, snapshot, live, missed>>

\* A timer that is due runs before time goes on.
TimePasses ==
    /\ live \in {"up", "down"} => pruneIn > 0
    /\ pruneIn' = IF live \in {"up", "down"} THEN pruneIn - 1 ELSE pruneIn
    /\ reported' = [id \in StoreNodes |-> OlderNode(reported[id])]
    /\ mapNodes' = [id \in StoreNodes |-> OlderNode(mapNodes[id])]
    /\ summaries' = [id \in StoreNodes |-> Aged(summaries[id])]
    /\ snapshot' = IF snapshot = NotAsked THEN NotAsked
                   ELSE [snapshot EXCEPT !.nodes = [id \in StoreNodes |-> OlderNode(@[id])]]
    /\ UNCHANGED <<live, missed>>

StoreInit ==
    /\ reported \in [StoreNodes -> {[pos |-> None, tel |-> None], [pos |-> 0, tel |-> 0]}]
    /\ snapshot = NotAsked /\ live = "loading"
    /\ mapNodes = [id \in StoreNodes |-> NotOnMap]
    /\ summaries = [id \in StoreNodes |-> None]
    /\ pruneIn = 0 /\ missed = StoreNodes

StoreNext ==
    \/ \E id \in StoreNodes : ReportPosition(id) \/ ReportTelemetry(id) \/ ReportNode(id)
    \/ ServeMapNodes
    \/ \E meta \in BOOLEAN : FinishLoading(meta)
    \/ LoadSummaries \/ Connect \/ Disconnect \/ ApplyRelevance \/ TimePasses

StoreSpec == StoreInit /\ [][StoreNext]_storeVars

----------------------------------------------------------------------------
(* Properties                                                              *)

\* With meta and between two prunings, what the map and the list show of a node has been
\* outdated for a minute at most; and a node whose last position the client was told of is
\* on the map with it for as long as it is recent, however its other data age and whatever
\* connects, breaks and comes late.
NodesCurrent ==
    live \in {"up", "down"} /\ pruneIn > 0 =>
        \A id \in StoreNodes :
            /\ mapNodes[id].pos <= PositionMaxAge + PruneEvery
            /\ mapNodes[id].tel <= TelemetryMaxAge + PruneEvery
            /\ summaries[id] <= PositionMaxAge + PruneEvery
            /\ (id \notin missed /\ IsRecent(reported[id].pos, PositionMaxAge)) =>
                  mapNodes[id].pos = reported[id].pos

=============================================================================
