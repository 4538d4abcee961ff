---------------------------- MODULE NodeDetails ----------------------------
(***************************************************************************)
(* The details of a node in the web client: App.tsx (the effects that load *)
(* them for the selected and for the hovered node, refreshNodeDetails, the *)
(* events of the selected node) and utils/nodeDetailsCache.ts.             *)
(*                                                                         *)
(* A change of the state renders the page; then the effects whose          *)
(* dependencies changed run in one go, first what the last run of each     *)
(* left to clean up, then each of them in order.  Answers may come between *)
(* a change and its effects.  A request that is aborted is rejected later, *)
(* and is in the map of requests under way until then.                     *)
(***************************************************************************)
EXTENDS Integers, SequencesExt

CONSTANTS NoId,            \* null, no node
          Known,           \* nodes the server has details of
          Links,           \* neighbours the answer about a node lists
          CacheMaxEntries,
          Selectable, Hoverable \* bounds: nodes a user selects or points at

Listed == DOMAIN Links

ASSUME DetailsAssumption ==
    /\ NoId \notin Listed /\ Known \subseteq Listed /\ Selectable \subseteq Listed
    /\ Hoverable \subseteq Known  \* the nodes on the map are known to the server
    /\ CacheMaxEntries \in Nat \ {0}
    /\ Links \in [Listed -> SUBSET Listed]

VARIABLES selectedNode, hovered, metaLoaded, bootstrapDone,
          cache,           \* detailsCache, the entry fetched last first
          cacheChanged,    \* detailsCache is another object than the effects last saw
          details,         \* useNodeStore.details, the node and whether the server's answer
                           \* about it is in them, or only what a neighbour's said
          detailsError,    \* the node nodeDetailsError is about
          detailsRequests, \* inFlightNodeDetails
          seenState,       \* what the effects last ran with
          nodeLog,         \* whose events are shown, and nodeLogLoading
          logRequest       \* the node whose events were asked for

inputs == <<selectedNode, hovered, metaLoaded, bootstrapDone>>
cacheVars == <<cache, cacheChanged>>
shownDetails == <<details, detailsError>>
logVars == <<nodeLog, logRequest>>
detailsVars == <<inputs, cacheVars, shownDetails, detailsRequests, seenState, logVars>>

NoDetails == [id |-> NoId, own |-> FALSE]
NoDetailsRequest == [state |-> "none", owner |-> "none", selected |-> NoId]
DetailsState == [selected |-> selectedNode, hovered |-> hovered, meta |-> metaLoaded,
                 booted |-> bootstrapDone]
DetailsQuiet == seenState = DetailsState /\ ~cacheChanged

----------------------------------------------------------------------------
(* The cache                                                               *)

Entries(id) == SelectSeq(cache, LAMBDA e : e.id = id)
Cached(id) == Entries(id) # <<>>
IsFresh(id) == Cached(id) /\ Entries(id)[1].fresh
Trim(entries) ==
    SubSeq(entries, 1, IF Len(entries) < CacheMaxEntries THEN Len(entries) ELSE CacheMaxEntries)

\* upsertNodeDetailsCache: the answer about a node, and an entry for each neighbour it lists
\* that has none; one that has an entry keeps the time of it.
Upsert(id) ==
    LET others == SelectSeq(cache, LAMBDA e : e.id # id)
        stubs  == {n \in Links[id] \ {id} : ~Cached(n)}
    IN  Trim(<<[id |-> id, fresh |-> TRUE, own |-> TRUE]>>
             \o SetToSeq({[id |-> n, fresh |-> TRUE, own |-> FALSE] : n \in stubs}) \o others)

----------------------------------------------------------------------------
(* The effects                                                             *)

DetailsDue == cacheChanged \/ seenState.meta # metaLoaded \/ seenState.selected # selectedNode
HoverDue == DetailsDue \/ seenState.hovered # hovered
LogDue == seenState.booted # bootstrapDone \/ seenState.selected # selectedNode

\* Cleaning up aborts the requests an effect has started; refreshNodeDetails hands out a
\* request that is under way, an aborted one too.
Aborted == [id \in Listed |->
    IF detailsRequests[id].state = "sent" /\ (detailsRequests[id].owner = "hover" => HoverDue)
                                   /\ (detailsRequests[id].owner = "details" => DetailsDue)
    THEN [detailsRequests[id] EXCEPT !.state = "aborted"] ELSE detailsRequests[id]]

RefreshNodeDetails(reqs, id, owner) ==
    [reqs EXCEPT ![id] =
        IF @.state = "none"
        THEN [state |-> "sent", owner |-> owner, selected |-> selectedNode] ELSE @]

\* Mutant: the details of the node before stay until others come.
CachedDetailsOrStay ==
    IF selectedNode = NoId THEN NoDetails
    ELSE IF Cached(selectedNode)
    THEN [id |-> selectedNode, own |-> Entries(selectedNode)[1].own] ELSE details

\* What the effect shows before it asks.
CachedDetails ==
    IF selectedNode # NoId /\ Cached(selectedNode)
    THEN [id |-> selectedNode, own |-> Entries(selectedNode)[1].own] ELSE NoDetails

\* The events of the selected node.
RunLogEffect ==
    IF ~LogDue THEN UNCHANGED logVars
    ELSE IF selectedNode = NoId
    THEN nodeLog' = [of |-> NoId, loading |-> FALSE] /\ logRequest' = NoId
    ELSE IF ~bootstrapDone THEN nodeLog' = nodeLog /\ logRequest' = NoId
    ELSE nodeLog' = [nodeLog EXCEPT !.loading = TRUE] /\ logRequest' = selectedNode

RunDetailsEffects ==
    /\ ~DetailsQuiet
    /\ seenState' = DetailsState
    /\ cacheChanged' = (metaLoaded /\ ~seenState.meta)   \* applyRelevance makes another cache
    /\ LET asked == IF DetailsDue /\ selectedNode # NoId /\ ~IsFresh(selectedNode)
                    THEN RefreshNodeDetails(Aborted, selectedNode, "details") ELSE Aborted
       IN  detailsRequests' =
               IF HoverDue /\ hovered # NoId /\ ~IsFresh(hovered)
               THEN RefreshNodeDetails(asked, hovered, "hover") ELSE asked
    /\ IF DetailsDue
       THEN details' = CachedDetails /\ detailsError' = NoId
       ELSE UNCHANGED shownDetails
    /\ RunLogEffect
    /\ UNCHANGED <<inputs, cache>>

----------------------------------------------------------------------------
(* The answers                                                             *)

\* Mutant: a request that is over stays in the map unless it succeeded.
RejectKeeps(id) ==
    /\ detailsRequests[id].state = "aborted"
    /\ detailsRequests' = [detailsRequests EXCEPT ![id].owner = "none"]
    /\ UNCHANGED <<inputs, cacheVars, shownDetails, logVars, seenState>>

\* The rejection of an aborted request comes, and is passed over.
Reject(id) ==
    /\ detailsRequests[id].state = "aborted"
    /\ detailsRequests' = [detailsRequests EXCEPT ![id] = NoDetailsRequest]
    /\ UNCHANGED <<inputs, cacheVars, shownDetails, logVars, seenState>>

\* The details come; they are shown if their node was the selected one as they were asked for.
Deliver(id) ==
    /\ detailsRequests[id].state = "sent" /\ id \in Known
    /\ cache' = Upsert(id)
    /\ cacheChanged' = TRUE
    /\ IF detailsRequests[id].selected = id
       THEN details' = [id |-> id, own |-> TRUE] /\ detailsError' = NoId
       ELSE UNCHANGED shownDetails
    /\ detailsRequests' = [detailsRequests EXCEPT ![id] = NoDetailsRequest]
    /\ UNCHANGED <<inputs, logVars, seenState>>

\* The server does not know the node.
NotFound(id) ==
    /\ detailsRequests[id].state = "sent" /\ id \notin Known
    /\ detailsError' = id
    /\ detailsRequests' = [detailsRequests EXCEPT ![id] = NoDetailsRequest]
    /\ UNCHANGED <<inputs, cacheVars, logVars, details, seenState>>

\* The request fails: a banner says so.
Fail(id) ==
    /\ detailsRequests[id].state = "sent"
    /\ detailsRequests' = [detailsRequests EXCEPT ![id] = NoDetailsRequest]
    /\ UNCHANGED <<inputs, cacheVars, shownDetails, logVars, seenState>>

\* The events of the selected node come or do not: then the list is empty, with an error.
AnswerLog ==
    /\ logRequest # NoId
    /\ nodeLog' \in {[of |-> logRequest, loading |-> FALSE], [of |-> NoId, loading |-> FALSE]}
    /\ logRequest' = NoId
    /\ UNCHANGED <<inputs, cacheVars, shownDetails, detailsRequests, seenState>>

----------------------------------------------------------------------------
(* The user, the clock and the bootstrap                                   *)

RestOfDetails == <<bootstrapDone, cache, shownDetails, detailsRequests, seenState, logVars>>

SelectNode(id) ==
    /\ selectedNode # id
    /\ selectedNode' = id
    /\ UNCHANGED <<hovered, metaLoaded, cacheChanged, RestOfDetails>>

\* The pointer has rested on a marker, or left it.
HoverNode(id) ==
    /\ hovered # id
    /\ hovered' = id
    /\ UNCHANGED <<selectedNode, metaLoaded, cacheChanged, RestOfDetails>>

\* The bootstrap ends, with the server's meta or without.
FinishBootstrap ==
    /\ ~bootstrapDone
    /\ bootstrapDone' = TRUE
    /\ metaLoaded' \in BOOLEAN
    /\ UNCHANGED <<cacheVars, shownDetails, logVars, selectedNode, hovered, detailsRequests, seenState>>

\* Every minute what is no longer relevant goes, and the cache is another object.
DetailsTick ==
    /\ seenState.meta
    /\ cacheChanged' = TRUE
    /\ UNCHANGED <<selectedNode, hovered, metaLoaded, RestOfDetails>>

\* The entry fetched first gets too old.
Expire ==
    /\ \E k \in DOMAIN cache :
          /\ cache[k].fresh
          /\ \A j \in k + 1..Len(cache) : ~cache[j].fresh
          /\ cache' = [cache EXCEPT ![k].fresh = FALSE]
    /\ UNCHANGED <<inputs, shownDetails, logVars, cacheChanged, detailsRequests, seenState>>

DetailsInit ==
    /\ selectedNode \in Selectable \cup {NoId} /\ hovered = NoId
    /\ metaLoaded = FALSE /\ bootstrapDone = FALSE
    /\ cache = <<>> /\ cacheChanged = TRUE
    /\ details = NoDetails /\ detailsError = NoId
    /\ detailsRequests = [id \in Listed |-> NoDetailsRequest]
    /\ seenState = [DetailsState EXCEPT !.selected = NoId]
    /\ nodeLog = [of |-> NoId, loading |-> FALSE] /\ logRequest = NoId

Settle(id) == Deliver(id) \/ NotFound(id)

DetailsNext ==
    \/ RunDetailsEffects
    \/ \E id \in Listed : Reject(id) \/ Deliver(id) \/ NotFound(id) \/ Fail(id)
    \/ AnswerLog
    \/ \E id \in Selectable \cup {NoId} : SelectNode(id)
    \/ \E id \in Hoverable \cup {NoId} : HoverNode(id)
    \/ FinishBootstrap
    \/ DetailsTick
    \/ Expire

\* The browser runs what is due, the clock goes on, a rejection comes.  A server that is
\* asked again and again answers in time once: nothing else keeps a tick, or the answer
\* about another node, from aborting the request every time.
DetailsFairness ==
    /\ WF_detailsVars(RunDetailsEffects) /\ WF_detailsVars(DetailsTick) /\ WF_detailsVars(Expire)
    /\ \A id \in Listed : WF_detailsVars(Reject(id)) /\ SF_detailsVars(Settle(id))

DetailsSpec == DetailsInit /\ [][DetailsNext]_detailsVars /\ DetailsFairness

----------------------------------------------------------------------------
(* Properties                                                              *)

\* When the effects have run, the details, the error and the events are those of the
\* selected node or of none, whichever requests were under way as it changed; the events of
\* the node before stay only while those of the selected one are being loaded.
ShowsSelected ==
    DetailsQuiet =>
        /\ details.id \in {NoId, selectedNode}
        /\ detailsError \in {NoId, selectedNode}
        /\ nodeLog.of \in {NoId, selectedNode} \/ nodeLog.loading
        /\ nodeLog.loading <=> logRequest # NoId

\* A node that stays selected gets the server's details or the word that there are none,
\* though its request may be aborted and the aborted one handed out again, and though an
\* entry a neighbour left in the cache counts as fresh.  Without meta nothing runs again.
DetailsCome ==
    \A id \in Listed :
        []<>(\/ selectedNode # id \/ ~metaLoaded
             \/ details = [id |-> id, own |-> TRUE] \/ detailsError = id)

=============================================================================
