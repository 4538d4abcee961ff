---------------------------- MODULE MapSelection ----------------------------
(***************************************************************************)
(* The node that is selected on the map page has three homes: the store    *)
(* (selectedId, with the focus that waits for a node to be placed), the    *)
(* URL, and the adapter of the map, where the selected node is the one     *)
(* whose popup is open.  Each changes the others: a popup that opens or    *)
(* closes sets the store and the URL, and an effect of MapPage.tsx brings  *)
(* the store's selection to the adapter.                                   *)
(*                                                                         *)
(* External, the map: one popup is open at a time; opening another closes  *)
(* it first; the popup of a marker that is hidden in a cluster does not    *)
(* open, and closes when its marker is hidden; zoomToShowLayer calls back  *)
(* at once for a marker that is shown and later for one that is not.       *)
(* Of the URL only the node is kept here, the rest is in Navigation.       *)
(***************************************************************************)
EXTENDS Integers, FiniteSets, Sequences

CONSTANTS Nodes,
          NoSelection,            \* null, where no node is selected
          PrecisionCirclesMode,   \* "none", "selected" or "always"
          Imprecise,              \* nodes whose position has a radius to draw
          MaxEntries, MaxPlacings \* bounds: history entries, changes of the placed nodes

ASSUME SelectionAssumption ==
    NoSelection \notin Nodes /\ PrecisionCirclesMode \in {"none", "selected", "always"}

VARIABLES placed,   \* nodes of the store that have a position
          selectedId, \* useNodeStore.selectedId
          focus,    \* mapFocusNodeId
          entries, entry, \* the history of the tab and where it is
          seenByMap,     \* what the effects of the page last ran with
          markers,  \* nodes the adapter has a marker for
          visible,  \* markers that are not in a cluster
          shown,    \* the adapter's selectedID, the node whose popup is open
          circles,  \* precision circles drawn
          zooming,  \* markers a zoom is to bring out
          lost,     \* nodes whose marker was removed while a zoom was to bring it out
          placings

mapVars == <<placed, selectedId, focus, entries, entry, seenByMap, markers, visible, shown, circles,
             zooming, lost, placings>>

----------------------------------------------------------------------------
(* The adapter.  A record carries what one call chain changes:             *)
(* [shown, circles, selected, entries, entry].                             *)

Chain == [shown |-> shown, circles |-> circles, selected |-> selectedId,
          entries |-> entries, entry |-> entry]

\* selectMapNode: a node is pushed, no node replaces.
SelectOnMap(c, id) ==
    IF id = c.entries[c.entry] THEN [c EXCEPT !.selected = id]
    ELSE IF id = NoSelection
    THEN [c EXCEPT !.selected = id, !.entries[c.entry] = id]
    ELSE [c EXCEPT !.selected = id, !.entries = Append(SubSeq(@, 1, c.entry), id),
                   !.entry = @ + 1]

\* shouldRenderPrecisionCircle and syncPrecisionCircles, for the nodes last rendered
Circles(nodes, id) ==
    CASE PrecisionCirclesMode = "always"   -> nodes \cap Imprecise
      [] PrecisionCirclesMode = "selected" -> nodes \cap Imprecise \cap {id}
      [] PrecisionCirclesMode = "none"     -> {}

\* Mutant: the circles stay as they are.
SetSelectionNoCircles(c, nodes, id) ==
    IF id = c.shown THEN c ELSE SelectOnMap([c EXCEPT !.shown = id], id)

SetSelection(c, nodes, id) ==
    IF id = c.shown THEN c
    ELSE SelectOnMap([c EXCEPT !.shown = id, !.circles = Circles(nodes, id)], id)

\* The handlers of popupclose and popupopen.
ClosePopup(c, nodes) == SetSelection(c, nodes, NoSelection)
OpenPopup(c, nodes, onMap, id) ==
    IF id \notin onMap \/ id = c.shown THEN c
    ELSE SetSelection(ClosePopup(c, nodes), nodes, id)

\* Mutant: a node without a marker leaves the popup of another open.
SetSelectedNodeLeavesPopup(c, nodes, onMap, id) ==
    IF id = c.shown THEN c
    ELSE IF id = NoSelection THEN ClosePopup(c, nodes)
    ELSE OpenPopup(c, nodes, onMap, id)

\* setSelectedNode
SetSelectedNode(c, nodes, onMap, id) ==
    IF id = c.shown THEN c
    ELSE IF id = NoSelection \/ id \notin nodes THEN ClosePopup(c, nodes)
    ELSE OpenPopup(c, nodes, onMap, id)

\* render: the popup of a node that is gone closes with its marker.
Render(c, nodes) ==
    LET open == IF c.shown \in nodes THEN c ELSE ClosePopup(c, nodes)
    IN  [open EXCEPT !.circles = Circles(nodes, open.shown)]

Commit(c) ==
    /\ shown' = c.shown /\ circles' = c.circles /\ selectedId' = c.selected
    /\ entries' = c.entries /\ entry' = c.entry

----------------------------------------------------------------------------
(* The effects of the page                                                 *)

SeenByMap == [placed |-> placed, selected |-> selectedId, focus |-> focus]
FreshPage == [placed |-> {}, selected |-> NoSelection, focus |-> NoSelection]
MapQuiet == seenByMap = SeenByMap

\* What changed since the effects last ran, in their order: the markers, the selection,
\* the focus.  New markers may be shown or in a cluster.
RunMapEffects ==
    /\ ~MapQuiet
    /\ seenByMap' = SeenByMap
    /\ markers' = placed
    /\ \E new \in SUBSET (placed \ markers) : visible' = (visible \cap placed) \cup new
    /\ LET rendered == IF seenByMap.placed # placed THEN Render(Chain, placed) ELSE Chain
           chosen   == IF seenByMap.selected # selectedId
                       THEN SetSelectedNode(rendered, placed, visible', selectedId) ELSE rendered
           focused  == focus \in placed /\ (seenByMap.focus # focus \/ seenByMap.placed # placed)
       IN  /\ Commit(IF focused THEN OpenPopup(chosen, placed, visible', focus) ELSE chosen)
           /\ focus' = IF focused THEN NoSelection ELSE focus
           /\ zooming' = (zooming \cap placed) \cup
                         IF focused THEN {focus} \ visible' ELSE {}
           /\ lost' = lost \cup (zooming \ placed)
    /\ UNCHANGED <<placed, placings>>

----------------------------------------------------------------------------
(* The map                                                                 *)

Still == UNCHANGED <<placed, focus, seenByMap, markers, lost, placings>>
Room == MapQuiet /\ entry < MaxEntries

\* A click on a marker opens its popup or closes it.
ClickMarker(id) ==
    /\ Room
    /\ id \in visible
    /\ Commit(IF shown = id THEN ClosePopup(Chain, markers)
              ELSE OpenPopup(Chain, markers, visible, id))
    /\ Still /\ UNCHANGED <<visible, zooming>>

ClickMap ==
    /\ MapQuiet
    /\ shown # NoSelection
    /\ Commit(ClosePopup(Chain, markers))
    /\ Still /\ UNCHANGED <<visible, zooming>>

\* The map is zoomed or dragged: markers come out of clusters and go into them.
Regroup(onMap) ==
    /\ MapQuiet
    /\ onMap # visible
    /\ visible' = onMap
    /\ Commit(IF shown \in onMap THEN Chain ELSE ClosePopup(Chain, markers))
    /\ Still /\ UNCHANGED zooming

\* The callback of focusNode.
ZoomEnds(id) ==
    /\ MapQuiet
    /\ visible' = visible \cup {id}
    /\ zooming' = zooming \ {id}
    /\ Commit(OpenPopup(Chain, markers, visible', id))
    /\ Still

----------------------------------------------------------------------------
(* The page and the browser                                                *)

\* A live position, or nodes that are no longer relevant.
PlaceNodes(nodes) ==
    /\ placings < MaxPlacings
    /\ placings' = placings + 1
    /\ nodes # placed
    /\ placed' = nodes
    /\ UNCHANGED <<selectedId, focus, entries, entry, seenByMap, markers, visible, shown, circles,
                   zooming, lost>>

\* focusNodeFromChat for a node that is placed
FocusNodeFromChat(id) ==
    /\ Room
    /\ id \in placed
    /\ Commit(OpenPopup(SelectOnMap(Chain, id), markers, visible, id))
    /\ zooming' = zooming \cup ({id} \ visible)
    /\ Still /\ UNCHANGED visible

\* applyFragmentState for a node in the URL
ApplyMapNode(id) ==
    /\ selectedId' = id
    /\ focus' = id
    /\ UNCHANGED <<placed, seenByMap, markers, visible, shown, circles, zooming, lost, placings>>

GoBackOrForward(k) ==
    /\ MapQuiet
    /\ k \in DOMAIN entries \ {entry}
    /\ entry' = k /\ UNCHANGED entries
    /\ ApplyMapNode(entries[k])

EditMapAddress(id) ==
    /\ Room
    /\ id # entries[entry]
    /\ entries' = Append(SubSeq(entries, 1, entry), id) /\ entry' = entry + 1
    /\ ApplyMapNode(id)

\* The page is left and opened again, for a node of the list (openNodeOnMap) or with the
\* node that was selected: the adapter is destroyed without a word and made anew.
Remount(id) ==
    /\ Room
    /\ selectedId' = IF id = NoSelection THEN selectedId ELSE id
    /\ focus' = id
    /\ entries' = Append(SubSeq(entries, 1, entry), selectedId') /\ entry' = entry + 1
    /\ seenByMap' = FreshPage
    /\ markers' = {} /\ visible' = {} /\ circles' = {} /\ zooming' = {} /\ lost' = {}
    /\ shown' = NoSelection
    /\ UNCHANGED <<placed, placings>>

SelectionInit ==
    /\ placed \in SUBSET Nodes
    /\ \E id \in Nodes \cup {NoSelection} : selectedId = id /\ focus = id /\ entries = <<id>>
    /\ entry = 1
    /\ seenByMap = FreshPage
    /\ markers = {} /\ visible = {} /\ circles = {} /\ zooming = {} /\ lost = {}
    /\ shown = NoSelection
    /\ placings = 0

SelectionNext ==
    \/ RunMapEffects
    \/ \E id \in Nodes : \/ ClickMarker(id) \/ FocusNodeFromChat(id)
    \/ ClickMap
    \/ \E onMap \in SUBSET markers : Regroup(onMap)
    \/ \E id \in zooming : ZoomEnds(id)
    \/ \E nodes \in SUBSET Nodes : PlaceNodes(nodes)
    \/ \E k \in 1..MaxEntries : GoBackOrForward(k)
    \/ \E id \in Nodes \cup {NoSelection} : EditMapAddress(id) \/ Remount(id)

SelectionSpec == SelectionInit /\ [][SelectionNext]_mapVars

----------------------------------------------------------------------------
(* Properties                                                              *)

\* When the effects have run and no zoom is under way, no popup but that of the selected
\* node is open, unless its marker went away before the zoom was there; and at any time the
\* URL names the node the store has selected.
SelectionAgrees ==
    /\ (MapQuiet /\ zooming = {} /\ selectedId \notin lost) => shown \in {NoSelection, selectedId}
    /\ entries[entry] = selectedId

\* The circles are those of the nodes rendered last, and in the mode "selected" that of
\* the open popup alone, whichever way it was opened or closed.
CirclesAgree ==
    \A id \in Nodes : id \in circles <=>
        /\ id \in markers \cap Imprecise
        /\ PrecisionCirclesMode = "selected" => id = shown
        /\ PrecisionCirclesMode # "none"

\* What the map shows of the node that is selected.
MapAgrees == SelectionAgrees /\ CirclesAgree

=============================================================================
