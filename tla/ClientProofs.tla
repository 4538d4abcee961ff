---------------------------- MODULE ClientProofs ----------------------------
(***************************************************************************)
(* Proofs about the parts of the web client that keep a state of their     *)
(* own: the links of the whole network, the nodes and their age, the node  *)
(* that is selected on the map, the details of the selected node, the page *)
(* of statistics, the state that is kept in the URL, the notices and the   *)
(* chat.                                                                   *)
(***************************************************************************)
EXTENDS NodeStore, TopologyAll, MapSelection, NodeDetails, StatsPage, Navigation, Notices,
        ChatTab, SequenceTheorems, FiniteSetTheorems, WellFoundedInduction, TLAPS

----------------------------------------------------------------------------
(* The links of the whole network.  Answers come in any order, so what     *)
(* TopologyAgrees says when all have come follows from what is still due:  *)
(* while the mode is on, a request sent since then is due, or has been     *)
(* answered last, or has failed last, or an older one came after it.  What *)
(* is drawn is what the effects saw when they drew last: unless something  *)
(* came that does not draw, nothing has changed since, or they run again.  *)

Snapshots == [enabled : BOOLEAN, edges : Nat, loading : BOOLEAN, error : BOOLEAN, age : Int]

TopologyTyped ==
    /\ topologyAll \in Snapshots
    /\ topologySeen.edges \in Nat
    /\ onMap \in BOOLEAN /\ overtaken \in BOOLEAN
    /\ snapshotsAsked \in Nat /\ askedBefore \in 0..snapshotsAsked
    /\ snapshotsDue \subseteq 1..snapshotsAsked
    /\ topologyAll.edges <= snapshotsAsked /\ topologyAll.edges \notin snapshotsDue
    /\ topologySeen.edges <= snapshotsAsked /\ topologySeen.edges \notin snapshotsDue

TopologyInv ==
    /\ TopologyTyped
    /\ topologyAll.loading => snapshotsDue # {}
    /\ snapshotsAsked > 0 /\ snapshotsDue = {} => topologyAll.error \/ topologyAll.edges > 0
    /\ topologyAll.enabled =>
          /\ snapshotsAsked > askedBefore
          /\ \/ overtaken \/ topologyAll.error \/ topologyAll.edges > askedBefore
             \/ \E n \in snapshotsDue : n > askedBefore

LinesOfSeen ==
    \A line \in drawnLinks :
        onMap /\ topologySeen.map /\ topologySeen.enabled /\ line[1] = topologySeen.edges

\* The effects have nothing to draw, and nothing came that does not make them.
Settled ==
    /\ ~stirred
    /\ topologySeen.map = onMap
    /\ topologySeen.enabled = topologyAll.enabled
    /\ topologySeen.edges = topologyAll.edges

LinesWhole ==
    Settled => /\ topologySeen.meta = topologyMeta
               /\ onMap /\ topologyAll.enabled => drawnLinks = Lines(topologyAll.edges, nodePositions)

LinesInv == LinesOfSeen /\ LinesWhole

LEMMA SeenWhenQuiet ==
    ASSUME TopologyQuiet
    PROVE  /\ topologySeen.map = onMap /\ topologySeen.enabled = topologyAll.enabled
           /\ topologySeen.edges = topologyAll.edges /\ topologySeen.meta = topologyMeta
BY DEF TopologyQuiet, TopologyState

LEMMA TopologyTold == TopologyInv /\ LinesInv => TopologyAgrees
<1>1. SUFFICES ASSUME TopologyInv, LinesInv PROVE TopologyAgrees
  OBVIOUS
<1>2. topologyAll.enabled /\ snapshotsDue = {} =>
         \/ topologyAll.error
         \/ topologyAll.edges > askedBefore
         \/ overtaken /\ topologyAll.edges > 0
  BY <1>1 DEF TopologyInv, TopologyTyped
<1>3. ASSUME TopologyQuiet
      PROVE  /\ \A line \in drawnLinks : onMap /\ topologyAll.enabled /\ line[1] = topologyAll.edges
             /\ onMap /\ topologyAll.enabled /\ ~stirred =>
                   drawnLinks = Lines(topologyAll.edges, nodePositions)
  <2>1. /\ topologySeen.map = onMap /\ topologySeen.enabled = topologyAll.enabled
        /\ topologySeen.edges = topologyAll.edges
    BY <1>3, SeenWhenQuiet, Zenon
  <2>2. \A line \in drawnLinks : onMap /\ topologyAll.enabled /\ line[1] = topologyAll.edges
    BY <1>1, <2>1, Zenon DEF LinesInv, LinesOfSeen
  <2>3. ~stirred => Settled
    BY <2>1, Zenon DEF Settled
  <2>4. onMap /\ topologyAll.enabled /\ ~stirred => drawnLinks = Lines(topologyAll.edges, nodePositions)
    BY <1>1, <2>3, Zenon DEF LinesInv, LinesWhole
  <2> QED
    BY <2>2, <2>4, Zenon
<1>4. topologyAll.loading => snapshotsDue # {}
  BY <1>1, Zenon DEF TopologyInv
<1> QED
  BY <1>2, <1>3, <1>4, Zenon DEF TopologyAgrees

LEMMA TopologyStarts == TopologyInit => TopologyInv /\ LinesInv
<1>1. SUFFICES ASSUME TopologyInit PROVE TopologyInv /\ LinesInv
  OBVIOUS
<1>2. /\ topologyMeta = "loading" /\ onMap \in BOOLEAN /\ drawnLinks = {} /\ ~stirred
      /\ snapshotsAsked = 0 /\ snapshotsDue = {} /\ askedBefore = 0 /\ overtaken \in BOOLEAN
  BY <1>1, Zenon DEF TopologyInit
<1>3. topologyAll \in Snapshots /\ ~topologyAll.enabled /\ ~topologyAll.loading /\ topologyAll.edges = 0
  <2>1. topologyAll = InitialTopology /\ TopologyTTL \in Int
    BY <1>1, TopologyAssumption DEF TopologyInit
  <2>2. InitialTopology \in Snapshots
    BY <2>1 DEF InitialTopology, Snapshots
  <2>3. ~InitialTopology.enabled /\ ~InitialTopology.loading /\ InitialTopology.edges = 0
    BY DEF InitialTopology
  <2> QED
    BY <2>1, <2>2, <2>3, Zenon
<1>4. topologySeen.edges = 0 /\ ~topologySeen.map /\ topologySeen.meta = topologyMeta
  BY <1>1, <1>3 DEF TopologyInit, TopologyState
<1>5. TopologyTyped
  BY <1>2, <1>3, <1>4 DEF TopologyTyped
<1>6. TopologyInv
  BY <1>2, <1>3, <1>5 DEF TopologyInv
<1>7. LinesOfSeen
  BY <1>2, Zenon DEF LinesOfSeen
<1>8. LinesWhole
  <2>1. Settled => ~onMap
    BY <1>2, <1>4 DEF Settled
  <2> QED
    BY <1>4, <2>1, Zenon DEF LinesWhole
<1> QED
  BY <1>6, <1>7, <1>8, Zenon DEF LinesInv

\* A snapshot is asked for: it is the newest, and due.
LEMMA RefreshKeeps ==
    ASSUME TopologyInv, NEW state, TopologyRefresh(state), state \in Snapshots,
           state.edges = topologyAll.edges,
           askedBefore' \in {askedBefore, snapshotsAsked},
           topologySeen'.edges \in {topologySeen.edges, topologyAll.edges},
           UNCHANGED <<onMap, overtaken>>
    PROVE  TopologyInv'
<1>1. /\ topologyAll' \in Snapshots
      /\ topologyAll'.edges = topologyAll.edges
      /\ snapshotsAsked' = snapshotsAsked + 1
      /\ snapshotsDue' = snapshotsDue \cup {snapshotsAsked + 1}
  BY DEF TopologyRefresh, Snapshots
<1>2. /\ snapshotsAsked' \in Nat /\ snapshotsDue' \subseteq 1..snapshotsAsked'
      /\ askedBefore' \in 0..snapshotsAsked' /\ snapshotsAsked + 1 > askedBefore'
      /\ snapshotsAsked + 1 \in snapshotsDue'
  BY <1>1 DEF TopologyInv, TopologyTyped
<1>3. /\ topologyAll.edges \in Nat /\ topologySeen.edges \in Nat
      /\ topologyAll.edges <= snapshotsAsked /\ topologyAll.edges \notin snapshotsDue
      /\ topologySeen.edges <= snapshotsAsked /\ topologySeen.edges \notin snapshotsDue
      /\ snapshotsAsked \in Nat
  BY DEF TopologyInv, TopologyTyped, Snapshots
<1>4. /\ topologyAll'.edges <= snapshotsAsked' /\ topologyAll'.edges \notin snapshotsDue'
      /\ topologySeen'.edges <= snapshotsAsked' /\ topologySeen'.edges \notin snapshotsDue'
      /\ topologySeen'.edges \in Nat
  BY <1>1, <1>3
<1>5. TopologyTyped'
  BY <1>1, <1>2, <1>4 DEF TopologyInv, TopologyTyped
<1> QED
  BY <1>1, <1>2, <1>5 DEF TopologyInv

\* A request ends: whatever was sent after it is due, unless it is overtaken.
LEMMA AnsweredRight ==
    ASSUME TopologyInv, NEW n \in snapshotsDue, Answered(n)
    PROVE  /\ snapshotsDue' \subseteq 1..snapshotsAsked' /\ overtaken' \in BOOLEAN
           /\ overtaken \/ n > askedBefore => overtaken' \/ n > askedBefore
           /\ topologyAll.enabled /\ ~overtaken' /\ n <= askedBefore =>
                 \E m \in snapshotsDue' : m > askedBefore
<1>1. /\ snapshotsDue' = snapshotsDue \ {n} /\ snapshotsAsked' = snapshotsAsked
      /\ overtaken' = (overtaken \/ \E m \in n + 1 .. snapshotsAsked : m \notin snapshotsDue)
      /\ n \in 1..snapshotsAsked /\ snapshotsAsked \in Nat /\ askedBefore \in Nat
  BY DEF Answered, TopologyInv, TopologyTyped
<1>2. ASSUME topologyAll.enabled, ~overtaken', n <= askedBefore
      PROVE  \E m \in snapshotsDue' : m > askedBefore
  <2>1. askedBefore + 1 \in n + 1 .. snapshotsAsked
    BY <1>1, <1>2 DEF TopologyInv
  <2>2. \A m \in n + 1 .. snapshotsAsked : m \in snapshotsDue
    BY <1>1, <1>2
  <2>3. askedBefore + 1 \in snapshotsDue /\ askedBefore + 1 # n
    BY <1>1, <1>2, <2>1, <2>2
  <2> QED
    BY <1>1, <2>3
<1> QED
  BY <1>1, <1>2 DEF TopologyInv, TopologyTyped

LEMMA TopologyGoesOn == TopologyInv /\ [TopologyNext]_topologyVars => TopologyInv'
<1>1. SUFFICES ASSUME TopologyInv, [TopologyNext]_topologyVars PROVE TopologyInv'
  OBVIOUS
<1>2. TopologyTyped
  BY <1>1 DEF TopologyInv
<1>3. CASE UNCHANGED topologyVars
  BY <1>1, <1>3 DEF topologyVars, TopologyInv, TopologyTyped
<1>4. CASE ToggleTopologyAll
  <2>1. PICK state : state = [topologyAll EXCEPT !.enabled = ~topologyAll.enabled]
    OBVIOUS
  <2>2. /\ state \in Snapshots
        /\ state.enabled = ~topologyAll.enabled /\ state.edges = topologyAll.edges
        /\ state.loading = topologyAll.loading /\ state.error = topologyAll.error
    BY <1>2, <2>1 DEF TopologyTyped, Snapshots
  <2>3. /\ askedBefore' = snapshotsAsked
        /\ UNCHANGED <<onMap, topologySeen, overtaken>>
    BY <1>4 DEF ToggleTopologyAll
  <2>4. CASE topologyAll.enabled
    <3>1. topologyAll' = state /\ UNCHANGED <<snapshotsAsked, snapshotsDue>>
      BY <1>4, <2>1, <2>4 DEF ToggleTopologyAll, SetEnabled
    <3>2. ~topologyAll'.enabled /\ topologyAll'.edges = topologyAll.edges
          /\ topologyAll'.loading = topologyAll.loading /\ topologyAll'.error = topologyAll.error
          /\ topologyAll' \in Snapshots
      BY <2>2, <2>4, <3>1
    <3>3. askedBefore' \in 0..snapshotsAsked
      BY <1>2, <2>3 DEF TopologyTyped
    <3>4. TopologyTyped'
      BY <1>2, <2>3, <3>1, <3>2, <3>3 DEF TopologyTyped
    <3> QED
      BY <1>1, <3>1, <3>2, <3>4 DEF TopologyInv
  <2>5. CASE ~topologyAll.enabled
    <3>1. TopologyRefresh(state)
      BY <1>4, <2>1, <2>5 DEF ToggleTopologyAll, SetEnabled
    <3> QED
      BY <1>1, <2>2, <2>3, <3>1, RefreshKeeps
  <2> QED
    BY <2>4, <2>5
<1>5. CASE RunTopologyEffects
  <2>1. /\ topologySeen'.edges = topologyAll.edges
        /\ UNCHANGED <<onMap, askedBefore, overtaken>>
    BY <1>5 DEF RunTopologyEffects, TopologyState
  <2>2. CASE TopologyRefresh(topologyAll)
    BY <1>1, <1>2, <2>1, <2>2, RefreshKeeps DEF TopologyTyped
  <2>3. CASE UNCHANGED <<topologyAll, snapshotsAsked, snapshotsDue>>
    <3>1. topologyAll.edges \in Nat
      BY <1>2 DEF TopologyTyped, Snapshots
    <3> QED
      BY <1>1, <2>1, <2>3, <3>1 DEF TopologyInv, TopologyTyped
  <2> QED
    BY <1>5, <2>2, <2>3 DEF RunTopologyEffects
<1>6. ASSUME UNCHANGED <<topologyAll, topologySeen, snapshotsAsked, snapshotsDue, askedBefore,
                         overtaken>>, onMap' \in BOOLEAN
      PROVE  TopologyInv'
  BY <1>1, <1>6 DEF TopologyInv, TopologyTyped
<1>7. CASE ShowOrLeaveMap \/ \E spots \in Placements :
              RenewNodes(spots) \/ \E meta \in {"failed", "alike", "other"} : BootTopology(meta, spots)
  <2>1. /\ UNCHANGED <<topologyAll, topologySeen, snapshotsAsked, snapshotsDue, askedBefore, overtaken>>
        /\ onMap' \in BOOLEAN
    BY <1>2, <1>7 DEF ShowOrLeaveMap, RenewNodes, BootTopology, NodesChange, TopologyTyped
  <2> QED
    BY <1>6, <2>1
<1>8. CASE TopologyTick
  <2>1. /\ topologyAll' \in Snapshots
        /\ topologyAll'.enabled = topologyAll.enabled /\ topologyAll'.edges = topologyAll.edges
        /\ topologyAll'.loading = topologyAll.loading /\ topologyAll'.error = topologyAll.error
    <3>1. PICK older \in Int : older = topologyAll.age + 1
      BY <1>2 DEF TopologyTyped, Snapshots
    <3>2. topologyAll' = [topologyAll EXCEPT !.age = older]
      BY <1>8, <3>1 DEF TopologyTick
    <3>3. topologyAll \in Snapshots
      BY <1>2 DEF TopologyTyped
    <3>4. topologyAll' \in Snapshots
      BY <3>1, <3>2, <3>3 DEF Snapshots
    <3>5. topologyAll'.edges = topologyAll.edges
      BY <3>2, <3>3 DEF Snapshots
    <3>6. topologyAll'.enabled = topologyAll.enabled
      BY <3>2, <3>3 DEF Snapshots
    <3>7. topologyAll'.loading = topologyAll.loading
      BY <3>2, <3>3 DEF Snapshots
    <3>8. topologyAll'.error = topologyAll.error
      BY <3>2, <3>3 DEF Snapshots
    <3> QED
      BY <3>4, <3>5, <3>6, <3>7, <3>8
  <2> QED
    BY <1>1, <1>8, <2>1 DEF TopologyTick, TopologyInv, TopologyTyped
<1>9. ASSUME NEW n \in snapshotsDue, AnswerTopology(n)
      PROVE  TopologyInv'
  <2>1. /\ topologyAll' \in Snapshots
        /\ topologyAll'.enabled = topologyAll.enabled /\ topologyAll'.edges = n
        /\ ~topologyAll'.loading /\ n > 0
    <3>1. /\ topologyAll' = [topologyAll EXCEPT !.edges = n, !.loading = FALSE, !.error = FALSE, !.age = 0]
          /\ n \in Nat /\ n > 0
          /\ topologyAll \in Snapshots
      BY <1>2, <1>9 DEF AnswerTopology, TopologyTyped
    <3>2. topologyAll' \in Snapshots
      <4>1. PICK loaded \in Snapshots :
               loaded = [topologyAll EXCEPT !.edges = n]
        BY <3>1 DEF Snapshots
      <4>2. PICK over \in Snapshots :
               over = [loaded EXCEPT !.loading = FALSE]
        BY <4>1 DEF Snapshots
      <4>3. PICK right \in Snapshots :
               right = [over EXCEPT !.error = FALSE]
        BY <4>2 DEF Snapshots
      <4>4. PICK now \in Int : now = 0
        OBVIOUS
      <4>5. PICK new \in Snapshots :
               new = [right EXCEPT !.age = now]
        BY <4>3, <4>4 DEF Snapshots
      <4>6. topologyAll' = new
        BY <3>1, <4>1, <4>2, <4>3, <4>4, <4>5
      <4> QED
        BY <4>6
    <3>3. topologyAll'.enabled = topologyAll.enabled
      BY <3>1 DEF Snapshots
    <3>4. topologyAll'.edges = n
      BY <3>1 DEF Snapshots
    <3>5. ~topologyAll'.loading
      BY <3>1 DEF Snapshots
    <3> QED
      BY <3>1, <3>2, <3>3, <3>4, <3>5
  <2>2. /\ UNCHANGED <<onMap, topologySeen, snapshotsAsked, askedBefore>>
        /\ snapshotsDue' \subseteq 1..snapshotsAsked' /\ overtaken' \in BOOLEAN
    BY <1>1, <1>9, AnsweredRight DEF AnswerTopology, Answered
  <2>3. topologyAll'.enabled => overtaken' \/ topologyAll'.edges > askedBefore
                                 \/ \E m \in snapshotsDue' : m > askedBefore
    <3>1. n > askedBefore \/ n <= askedBefore
      BY <1>2, <1>9 DEF TopologyTyped
    <3> QED
      BY <1>1, <1>9, <2>1, <3>1, AnsweredRight DEF AnswerTopology
  <2>4. TopologyTyped'
    <3>1. snapshotsDue' = snapshotsDue \ {n} /\ n <= snapshotsAsked
      BY <1>2, <1>9 DEF AnswerTopology, Answered, TopologyTyped
    <3> QED
      BY <1>2, <2>1, <2>2, <3>1 DEF TopologyTyped
  <2> QED
    BY <1>1, <2>1, <2>2, <2>3, <2>4 DEF TopologyInv
<1>10. ASSUME NEW n \in snapshotsDue, FailTopology(n)
       PROVE  TopologyInv'
  <2>1. /\ topologyAll' \in Snapshots
        /\ topologyAll'.enabled = topologyAll.enabled /\ topologyAll'.edges = topologyAll.edges
        /\ ~topologyAll'.loading /\ topologyAll'.error
    BY <1>2, <1>10 DEF FailTopology, TopologyTyped, Snapshots
  <2>2. /\ UNCHANGED <<onMap, topologySeen, snapshotsAsked, askedBefore>>
        /\ snapshotsDue' \subseteq 1..snapshotsAsked' /\ overtaken' \in BOOLEAN
    BY <1>1, <1>10, AnsweredRight DEF FailTopology, Answered
  <2>3. TopologyTyped'
    <3>1. snapshotsDue' = snapshotsDue \ {n}
      BY <1>10 DEF FailTopology, Answered
    <3> QED
      BY <1>2, <2>1, <2>2, <3>1 DEF TopologyTyped
  <2> QED
    BY <1>1, <2>1, <2>2, <2>3 DEF TopologyInv
<1> QED
  BY <1>1, <1>3, <1>4, <1>5, <1>6, <1>7, <1>8, <1>9, <1>10 DEF TopologyNext

\* The lines.  Whatever makes them incomplete stirs; an answer, a turn of the mode and an
\* opened page change what the effects have seen, so that they draw.
LEMMA SameLines ==
    ASSUME LinesInv, UNCHANGED <<topologyMeta, onMap, topologySeen, drawnLinks, nodePositions>>,
           Settled' => Settled /\ topologyAll'.edges = topologyAll.edges
                               /\ topologyAll'.enabled = topologyAll.enabled
    PROVE  LinesInv'
<1>1. LinesOfSeen'
  BY Zenon DEF LinesInv, LinesOfSeen
<1>2. LinesWhole'
  <2>1. SUFFICES ASSUME Settled'
                 PROVE  /\ topologySeen.meta = topologyMeta
                        /\ onMap /\ topologyAll'.enabled =>
                              drawnLinks = Lines(topologyAll'.edges, nodePositions)
    BY DEF LinesWhole, Lines
  <2> QED
    BY <2>1, Zenon DEF LinesInv, LinesWhole
<1> QED
  BY <1>1, <1>2, Zenon DEF LinesInv

LEMMA DrawingKeeps == TopologyInv /\ LinesInv /\ RunTopologyEffects => LinesInv'
<1>1. SUFFICES ASSUME TopologyInv, LinesInv, RunTopologyEffects PROVE LinesInv'
  OBVIOUS
<1>2. /\ topologySeen'.map = onMap /\ topologySeen'.enabled = topologyAll.enabled
      /\ topologySeen'.edges = topologyAll.edges /\ topologySeen'.meta = topologyMeta
  BY <1>1 DEF RunTopologyEffects, TopologyState
<1>3. UNCHANGED <<topologyMeta, nodePositions, onMap, stirred>> /\ DrawLines
  BY <1>1 DEF RunTopologyEffects
<1>4. topologyAll'.edges = topologyAll.edges /\ topologyAll'.enabled = topologyAll.enabled
  <2>1. topologyAll \in Snapshots
    BY <1>1 DEF TopologyInv, TopologyTyped
  <2>2. topologyAll' = topologyAll \/ topologyAll' = [topologyAll EXCEPT !.loading = TRUE, !.error = FALSE]
    BY <1>1 DEF RunTopologyEffects, TopologyRefresh
  <2> QED
    BY <2>1, <2>2 DEF Snapshots
<1>5. /\ \A line \in drawnLinks' : onMap /\ topologyAll.enabled /\ line[1] = topologyAll.edges
      /\ ~stirred /\ onMap /\ topologyAll.enabled =>
            drawnLinks' = Lines(topologyAll.edges, nodePositions)
  <2>1. CASE LinesAreDrawn
    <3>1. drawnLinks' = IF topologyAll.enabled THEN Lines(topologyAll.edges, nodePositions) ELSE {}
      BY <1>3, <2>1 DEF DrawLines, PositionsToDraw
    <3>2. onMap
      BY <2>1 DEF LinesAreDrawn
    <3>3. \A line \in Lines(topologyAll.edges, nodePositions) : line[1] = topologyAll.edges
      BY DEF Lines
    <3> QED
      BY <3>1, <3>2, <3>3, Zenon
  <2>2. CASE ~LinesAreDrawn
    <3>1. drawnLinks' = IF MapMadeAnew THEN {} ELSE drawnLinks
      BY <1>3, <2>2 DEF DrawLines
    <3>2. onMap => /\ topologySeen.map = onMap /\ topologySeen.enabled = topologyAll.enabled
                   /\ topologySeen.edges = topologyAll.edges
      BY <2>2 DEF LinesAreDrawn
    <3>3. \A line \in drawnLinks : onMap /\ topologyAll.enabled /\ line[1] = topologyAll.edges
      BY <1>1, <3>2, Zenon DEF LinesInv, LinesOfSeen
    <3>4. ASSUME ~stirred, onMap, topologyAll.enabled
          PROVE  drawnLinks' = Lines(topologyAll.edges, nodePositions)
      <4>1. Settled
        BY <3>2, <3>4, Zenon DEF Settled
      <4>2. topologySeen.meta = topologyMeta /\ drawnLinks = Lines(topologyAll.edges, nodePositions)
        BY <1>1, <3>4, <4>1, Zenon DEF LinesInv, LinesWhole
      <4>3. ~MapMadeAnew
        BY <4>2 DEF MapMadeAnew
      <4> QED
        BY <3>1, <4>2, <4>3, Zenon
    <3> QED
      BY <3>1, <3>3, <3>4
  <2> QED
    BY <2>1, <2>2, Zenon
<1>6. LinesOfSeen'
  BY <1>2, <1>3, <1>5, Zenon DEF LinesOfSeen
<1>7. LinesWhole'
  <2>1. SUFFICES ASSUME Settled'
                 PROVE  /\ topologySeen'.meta = topologyMeta'
                        /\ onMap' /\ topologyAll'.enabled =>
                              drawnLinks' = Lines(topologyAll.edges, nodePositions)
    BY <1>3, <1>4 DEF LinesWhole, Lines
  <2>2. ~stirred
    BY <1>3, <2>1, Zenon DEF Settled
  <2> QED
    BY <1>2, <1>3, <1>4, <1>5, <2>2
<1> QED
  BY <1>6, <1>7, Zenon DEF LinesInv

LEMMA LinesGoOn == TopologyInv /\ LinesInv /\ [TopologyNext]_topologyVars => LinesInv'
<1>1. SUFFICES ASSUME TopologyInv, LinesInv, [TopologyNext]_topologyVars PROVE LinesInv'
  OBVIOUS
<1>2. topologyAll \in Snapshots /\ TopologyTyped
  BY <1>1 DEF TopologyInv, TopologyTyped
<1>3. CASE UNCHANGED topologyVars
  BY <1>1, <1>3, SameLines DEF topologyVars, Settled
<1>4. CASE ToggleTopologyAll
  <2>1. /\ UNCHANGED <<topologyMeta, onMap, topologySeen, drawnLinks, nodePositions>>
        /\ topologySeen.enabled = topologyAll.enabled
    BY <1>4, SeenWhenQuiet DEF ToggleTopologyAll
  <2>2. topologyAll'.enabled = ~topologyAll.enabled
    BY <1>2, <1>4 DEF ToggleTopologyAll, SetEnabled, TopologyRefresh, Snapshots
  <2>3. topologyAll.enabled \in BOOLEAN
    BY <1>2 DEF Snapshots
  <2>4. ~Settled'
    BY <2>1, <2>2, <2>3 DEF Settled
  <2> QED
    BY <1>1, <2>1, <2>4, SameLines
<1>5. CASE RunTopologyEffects
  BY <1>1, <1>5, DrawingKeeps
<1>6. CASE \E spots \in Placements :
              RenewNodes(spots) \/ \E meta \in {"failed", "alike", "other"} : BootTopology(meta, spots)
  <2>1. stirred' /\ UNCHANGED <<onMap, topologySeen, drawnLinks>>
    BY <1>6 DEF RenewNodes, BootTopology, NodesChange
  <2>2. LinesOfSeen'
    BY <1>1, <2>1, Zenon DEF LinesInv, LinesOfSeen
  <2>3. LinesWhole'
    BY <2>1 DEF LinesWhole, Settled
  <2> QED
    BY <2>2, <2>3, Zenon DEF LinesInv
<1>7. CASE ShowOrLeaveMap
  <2>1. drawnLinks' = {} /\ onMap' = ~onMap /\ topologySeen' = topologySeen /\ topologySeen.map = onMap
    BY <1>7, SeenWhenQuiet DEF ShowOrLeaveMap
  <2>2. onMap \in BOOLEAN
    BY <1>2 DEF TopologyTyped
  <2>3. ~Settled'
    BY <2>1, <2>2 DEF Settled
  <2>4. LinesOfSeen'
    BY <2>1, Zenon DEF LinesOfSeen
  <2>5. LinesWhole'
    BY <2>3, Zenon DEF LinesWhole
  <2> QED
    BY <2>4, <2>5, Zenon DEF LinesInv
<1>8. ASSUME topologyAll'.enabled = topologyAll.enabled, topologyAll'.edges = topologyAll.edges,
             UNCHANGED <<topologyMeta, onMap, topologySeen, drawnLinks, nodePositions, stirred>>
      PROVE  LinesInv'
  <2>1. Settled' => Settled
    BY <1>8 DEF Settled
  <2> QED
    BY <1>1, <1>8, <2>1, SameLines
<1>9. CASE TopologyTick
  <2>1. topologyAll' = [topologyAll EXCEPT !.age = topologyAll.age + 1]
    BY <1>9 DEF TopologyTick
  <2>2. topologyAll'.enabled = topologyAll.enabled /\ topologyAll'.edges = topologyAll.edges
    BY <1>2, <2>1 DEF Snapshots
  <2> QED
    BY <1>8, <1>9, <2>2 DEF TopologyTick
<1>10. ASSUME NEW n \in snapshotsDue, FailTopology(n)
       PROVE  LinesInv'
  <2>1. topologyAll'.enabled = topologyAll.enabled /\ topologyAll'.edges = topologyAll.edges
    BY <1>2, <1>10 DEF FailTopology, Snapshots
  <2> QED
    BY <1>8, <1>10, <2>1 DEF FailTopology, Answered
<1>11. ASSUME NEW n \in snapshotsDue, AnswerTopology(n)
       PROVE  LinesInv'
  <2>1. topologyAll'.edges = n
    BY <1>2, <1>11 DEF AnswerTopology, Snapshots
  <2>2. UNCHANGED <<topologyMeta, onMap, topologySeen, drawnLinks, nodePositions>>
    BY <1>11 DEF AnswerTopology, Answered
  <2>3. topologySeen.edges # n
    BY <1>2, <1>11 DEF TopologyTyped
  <2>4. ~Settled'
    BY <2>1, <2>2, <2>3 DEF Settled
  <2> QED
    BY <1>1, <2>2, <2>4, SameLines
<1> QED
  BY <1>1, <1>3, <1>4, <1>5, <1>6, <1>7, <1>9, <1>10, <1>11 DEF TopologyNext

\* In whatever order the snapshots come, fail and overtake each other while the mode is
\* turned on and off, nodes are placed, moved and taken out, meta makes the map anew and its
\* page is left and opened again.
THEOREM LinksOfTheNetwork == TopologySpec => []TopologyAgrees
<1>1. TopologyInv /\ LinesInv /\ [TopologyNext]_topologyVars => TopologyInv' /\ LinesInv'
  BY TopologyGoesOn, LinesGoOn
<1> QED
  BY TopologyStarts, TopologyTold, <1>1, PTL DEF TopologySpec

----------------------------------------------------------------------------
(* The selected node on the map.  A chain of calls keeps that the URL      *)
(* names the selected node and that the circles fit the open popup; a      *)
(* popup that is open is that of the selected node, or a zoom is to bring  *)
(* it out, was to, or the effects of the page have yet to see it.          *)

Selections == Nodes \cup {NoSelection}
Chains == [shown : Selections, circles : SUBSET Nodes, selected : Selections,
           entries : Seq(Selections), entry : Nat]
Named(c) == c.entry \in 1..Len(c.entries) /\ c.entries[c.entry] = c.selected

SelectionInv ==
    /\ placed \subseteq Nodes /\ markers \subseteq Nodes /\ visible \subseteq Nodes
    /\ zooming \subseteq Nodes /\ focus \in Selections
    /\ Chain \in Chains /\ Named(Chain)
    /\ circles = Circles(markers, shown)
    /\ markers = seenByMap.placed
    /\ seenByMap.focus = focus => focus \notin seenByMap.placed
    /\ \/ shown \in {NoSelection, selectedId}
       \/ selectedId \in zooming \cup lost
       \/ seenByMap.selected # selectedId /\ selectedId \in {NoSelection, focus}

\* The circles are those of rendered nodes, which are nodes of the store.
LEMMA CirclesTyped ==
    ASSUME NEW nodes \in SUBSET Nodes, NEW id
    PROVE  Circles(nodes, id) \in SUBSET Nodes
<1>1. CASE PrecisionCirclesMode = "always"
  BY <1>1 DEF Circles
<1>2. CASE PrecisionCirclesMode = "selected"
  BY <1>2 DEF Circles
<1>3. CASE PrecisionCirclesMode = "none"
  BY <1>3 DEF Circles
<1> QED
  BY <1>1, <1>2, <1>3, SelectionAssumption

LEMMA SelectionTold == SelectionInv => MapAgrees
<1>1. SUFFICES ASSUME SelectionInv PROVE MapAgrees
  OBVIOUS
<1>2. SelectionAgrees
  <2>1. entries[entry] = selectedId
    BY <1>1 DEF SelectionInv, Named, Chain
  <2>2. MapQuiet => seenByMap.selected = selectedId
    BY DEF MapQuiet, SeenByMap
  <2> QED
    BY <1>1, <2>1, <2>2 DEF SelectionInv, SelectionAgrees
<1>3. CirclesAgree
  <2>1. circles = Circles(markers, shown)
    BY <1>1 DEF SelectionInv
  <2>2. CASE PrecisionCirclesMode = "always"
    BY <2>1, <2>2 DEF Circles, CirclesAgree
  <2>3. CASE PrecisionCirclesMode = "selected"
    BY <2>1, <2>3 DEF Circles, CirclesAgree
  <2>4. CASE PrecisionCirclesMode = "none"
    BY <2>1, <2>4 DEF Circles, CirclesAgree
  <2> QED
    BY <2>2, <2>3, <2>4, SelectionAssumption
<1> QED
  BY <1>2, <1>3 DEF MapAgrees

\* selectMapNode: whatever is selected, the URL names it.
LEMMA SelectOnMapNames ==
    ASSUME NEW c \in Chains, Named(c), NEW id \in Selections
    PROVE  /\ SelectOnMap(c, id) \in Chains /\ Named(SelectOnMap(c, id))
           /\ SelectOnMap(c, id).selected = id
           /\ SelectOnMap(c, id).shown = c.shown /\ SelectOnMap(c, id).circles = c.circles
<1>1. /\ c.entries \in Seq(Selections) /\ c.entry \in 1..Len(c.entries) /\ Len(c.entries) \in Nat
      /\ c.entry \in Nat
  BY DEF Chains, Named
<1>2. PICK e \in Chains : e = [c EXCEPT !.selected = id]
  BY DEF Chains
<1>3. /\ e.selected = id /\ e.shown = c.shown /\ e.circles = c.circles
      /\ e.entries = c.entries /\ e.entry = c.entry
  BY <1>2 DEF Chains
<1>4. CASE id = c.entries[c.entry]
  <2>1. SelectOnMap(c, id) = e
    BY <1>2, <1>4 DEF SelectOnMap
  <2> QED
    BY <1>1, <1>2, <1>3, <1>4, <2>1 DEF Named
<1>5. CASE id # c.entries[c.entry] /\ id = NoSelection
  <2>1. PICK list \in Seq(Selections) : list = [c.entries EXCEPT ![c.entry] = id]
    BY <1>1, ExceptSeq
  <2>2. Len(list) = Len(c.entries) /\ list[c.entry] = id
    BY <1>1, <2>1, ExceptSeq
  <2>3. PICK d \in Chains : d = [e EXCEPT !.entries = list]
    BY <1>2, <2>1 DEF Chains
  <2>4. /\ d.selected = id /\ d.shown = c.shown /\ d.circles = c.circles
        /\ d.entries = list /\ d.entry = c.entry
    BY <1>2, <1>3, <2>3 DEF Chains
  <2>5. SelectOnMap(c, id) = [c EXCEPT !.selected = id, !.entries[c.entry] = id]
    BY <1>5 DEF SelectOnMap
  <2>6. SelectOnMap(c, id) = d
    BY <1>2, <1>3, <2>1, <2>3, <2>5 DEF Chains
  <2> QED
    BY <1>1, <2>2, <2>3, <2>4, <2>6 DEF Named
<1>6. CASE id # c.entries[c.entry] /\ id # NoSelection
  <2>1. PICK kept \in Seq(Selections) : kept = SubSeq(c.entries, 1, c.entry) /\ Len(kept) = c.entry
    <3>1. \A i \in 1..c.entry : c.entries[i] \in Selections
      BY <1>1, ElementOfSeq
    <3>2. /\ SubSeq(c.entries, 1, c.entry) \in Seq(Selections)
          /\ Len(SubSeq(c.entries, 1, c.entry)) = c.entry
      BY <1>1, <3>1, SubSeqProperties
    <3> QED
      BY <3>2
  <2>2. PICK list \in Seq(Selections) : list = Append(kept, id)
    BY <2>1, AppendProperties
  <2>3. Len(list) = c.entry + 1 /\ list[c.entry + 1] = id
    BY <1>1, <2>1, <2>2, AppendProperties
  <2>4. PICK f \in Chains : f = [e EXCEPT !.entries = list]
    BY <1>2, <2>2 DEF Chains
  <2>4a. PICK next \in Nat : next = c.entry + 1
    BY <1>1
  <2>5. PICK d \in Chains : d = [f EXCEPT !.entry = next]
    BY <2>4, <2>4a DEF Chains
  <2>6. /\ d.selected = id /\ d.shown = c.shown /\ d.circles = c.circles
        /\ d.entries = list /\ d.entry = c.entry + 1
    BY <1>2, <1>3, <2>4, <2>4a, <2>5 DEF Chains
  <2>7. SelectOnMap(c, id) = d
    BY <1>2, <1>3, <1>6, <2>1, <2>2, <2>4, <2>4a, <2>5 DEF SelectOnMap, Chains
  <2> QED
    BY <1>1, <2>3, <2>5, <2>6, <2>7 DEF Named
<1> QED
  BY <1>4, <1>5, <1>6

\* setSelection tells the page, unless the node is the one that is shown.
LEMMA SetSelectionShows ==
    ASSUME NEW c \in Chains, Named(c), NEW nodes \in SUBSET Nodes, NEW id \in Selections
    PROVE  /\ SetSelection(c, nodes, id) \in Chains /\ Named(SetSelection(c, nodes, id))
           /\ id = c.shown => SetSelection(c, nodes, id) = c
           /\ id # c.shown =>
                 /\ SetSelection(c, nodes, id).shown = id /\ SetSelection(c, nodes, id).selected = id
                 /\ SetSelection(c, nodes, id).circles = Circles(nodes, id)
<1>1. CASE id = c.shown
  BY <1>1 DEF SetSelection
<1>2. CASE id # c.shown
  <2>1. PICK drawn \in SUBSET Nodes : drawn = Circles(nodes, id)
    BY CirclesTyped
  <2>2. PICK e \in Chains : e = [c EXCEPT !.shown = id]
    BY DEF Chains
  <2>3. PICK d \in Chains : d = [e EXCEPT !.circles = drawn]
    BY <2>1, <2>2 DEF Chains
  <2>4. /\ d.shown = id /\ d.circles = drawn /\ d.selected = c.selected
        /\ d.entries = c.entries /\ d.entry = c.entry
    BY <2>2, <2>3 DEF Chains
  <2>5. Named(d)
    BY <2>4 DEF Named
  <2>6. SetSelection(c, nodes, id) = SelectOnMap(d, id)
    BY <1>2, <2>1, <2>2, <2>3 DEF SetSelection, Chains
  <2>7. PICK f \in Chains : f = SelectOnMap(d, id)
    BY <2>5, SelectOnMapNames
  <2>8. Named(f) /\ f.selected = id /\ f.shown = id /\ f.circles = Circles(nodes, id)
    BY <2>1, <2>4, <2>5, <2>7, SelectOnMapNames
  <2> QED
    BY <1>2, <2>6, <2>7, <2>8
<1> QED
  BY <1>1, <1>2

\* A popup that closes leaves no node selected; with none open nothing happens.
LEMMA ClosePopupEnds ==
    ASSUME NEW c \in Chains, Named(c), NEW nodes \in SUBSET Nodes
    PROVE  /\ ClosePopup(c, nodes) \in Chains /\ Named(ClosePopup(c, nodes))
           /\ ClosePopup(c, nodes).shown = NoSelection
           /\ c.shown = NoSelection => ClosePopup(c, nodes) = c
           /\ c.shown # NoSelection =>
                 /\ ClosePopup(c, nodes).selected = NoSelection
                 /\ ClosePopup(c, nodes).circles = Circles(nodes, NoSelection)
  BY SetSelectionShows DEF ClosePopup, Selections

\* The popup of a node that is not shown does not open; any other is of the selected node.
LEMMA OpenPopupShows ==
    ASSUME NEW c \in Chains, Named(c), NEW nodes \in SUBSET Nodes, NEW out, NEW id \in Nodes
    PROVE  /\ OpenPopup(c, nodes, out, id) \in Chains /\ Named(OpenPopup(c, nodes, out, id))
           /\ id \notin out \/ id = c.shown => OpenPopup(c, nodes, out, id) = c
           /\ id \in out /\ id # c.shown =>
                 /\ OpenPopup(c, nodes, out, id).shown = id
                 /\ OpenPopup(c, nodes, out, id).selected = id
                 /\ OpenPopup(c, nodes, out, id).circles = Circles(nodes, id)
<1>1. id \in Selections /\ id # NoSelection
  BY SelectionAssumption DEF Selections
<1>2. CASE id \notin out \/ id = c.shown
  BY <1>2 DEF OpenPopup
<1>3. CASE id \in out /\ id # c.shown
  <2>1. OpenPopup(c, nodes, out, id) = SetSelection(ClosePopup(c, nodes), nodes, id)
    BY <1>3 DEF OpenPopup
  <2> QED
    BY <1>1, <1>3, <2>1, ClosePopupEnds, SetSelectionShows
<1> QED
  BY <1>2, <1>3

\* setSelectedNode, and what it leaves: the node shown, none shown, or, when its marker is
\* in a cluster, all as it was.
LEMMA SetSelectedNodeShows ==
    ASSUME NEW c \in Chains, Named(c), NEW nodes \in SUBSET Nodes, NEW out, NEW id \in Selections,
           c.selected \in {id, c.shown}, c.circles = Circles(nodes, c.shown)
    PROVE  LET d == SetSelectedNode(c, nodes, out, id)
           IN  /\ d \in Chains /\ Named(d) /\ d.circles = Circles(nodes, d.shown)
               /\ \/ d.shown = d.selected
                  \/ d.shown = NoSelection /\ d.selected \in {id, NoSelection}
                  \/ d = c /\ id \in nodes
<1>1. CASE id = c.shown
  BY <1>1 DEF SetSelectedNode
<1>2. CASE id # c.shown /\ (id = NoSelection \/ id \notin nodes)
  <2>1. SetSelectedNode(c, nodes, out, id) = ClosePopup(c, nodes)
    BY <1>2 DEF SetSelectedNode
  <2> QED
    BY <1>2, <2>1, ClosePopupEnds
<1>3. CASE id # c.shown /\ id # NoSelection /\ id \in nodes
  <2>1. SetSelectedNode(c, nodes, out, id) = OpenPopup(c, nodes, out, id)
    BY <1>3 DEF SetSelectedNode
  <2>2. CASE id \in out
    BY <1>3, <2>1, <2>2, OpenPopupShows
  <2>3. CASE id \notin out
    BY <1>3, <2>1, <2>3, OpenPopupShows
  <2> QED
    BY <2>2, <2>3
<1> QED
  BY <1>1, <1>2, <1>3

\* render: whatever nodes were drawn before, the circles are now those of these.
LEMMA RenderShows ==
    ASSUME NEW c \in Chains, Named(c), NEW nodes \in SUBSET Nodes
    PROVE  LET d == Render(c, nodes)
           IN  /\ d \in Chains /\ Named(d) /\ d.circles = Circles(nodes, d.shown)
               /\ \/ d.shown = c.shown /\ d.selected = c.selected
                  \/ d.shown = NoSelection /\ d.selected = NoSelection
<1>1. PICK o \in Chains : o = IF c.shown \in nodes THEN c ELSE ClosePopup(c, nodes)
  BY ClosePopupEnds
<1>2. /\ Named(o)
      /\ \/ o.shown = c.shown /\ o.selected = c.selected
         \/ o.shown = NoSelection /\ o.selected = NoSelection
  BY <1>1, ClosePopupEnds
<1>3. PICK drawn \in SUBSET Nodes : drawn = Circles(nodes, o.shown)
  BY CirclesTyped
<1>4. PICK d \in Chains : d = [o EXCEPT !.circles = drawn]
  BY <1>3 DEF Chains
<1>5. /\ d.shown = o.shown /\ d.circles = drawn /\ d.selected = o.selected
      /\ d.entries = o.entries /\ d.entry = o.entry
  BY <1>4 DEF Chains
<1>6. Render(c, nodes) = d
  BY <1>1, <1>3, <1>4 DEF Render
<1> QED
  BY <1>2, <1>3, <1>5, <1>6 DEF Named

LEMMA ChainFields ==
    /\ Chain.shown = shown /\ Chain.circles = circles /\ Chain.selected = selectedId
    /\ Chain.entries = entries /\ Chain.entry = entry
  BY DEF Chain

LEMMA CommitTold ==
    ASSUME NEW c \in Chains, Named(c), Commit(c)
    PROVE  /\ Chain' \in Chains /\ Named(Chain)'
           /\ shown' = c.shown /\ circles' = c.circles /\ selectedId' = c.selected
<1>1. /\ shown' = c.shown /\ circles' = c.circles /\ selectedId' = c.selected
      /\ entries' = c.entries /\ entry' = c.entry
  BY DEF Commit
<1>2. Chain' = [shown |-> c.shown, circles |-> c.circles, selected |-> c.selected,
                entries |-> c.entries, entry |-> c.entry]
  BY <1>1 DEF Chain
<1>3. Chain' \in Chains
  BY <1>2 DEF Chains
<1>4. Named(Chain)'
  BY <1>1, ChainFields DEF Named, Chain
<1> QED
  BY <1>1, <1>3, <1>4

LEMMA SelectionStarts == SelectionInit => SelectionInv
<1>1. SUFFICES ASSUME SelectionInit PROVE SelectionInv
  OBVIOUS
<1>2. PICK id \in Selections : selectedId = id /\ focus = id /\ entries = <<id>>
  BY <1>1 DEF SelectionInit, Selections
<1>3. /\ entries \in Seq(Selections) /\ Len(entries) = 1 /\ entries[1] = id /\ entry = 1
  BY <1>1, <1>2 DEF SelectionInit
<1>4. /\ placed \subseteq Nodes /\ markers = {} /\ visible = {} /\ circles = {} /\ zooming = {}
      /\ shown = NoSelection /\ seenByMap = FreshPage
  BY <1>1 DEF SelectionInit
<1>5. Chain \in Chains
  BY <1>2, <1>3, <1>4 DEF Chain, Chains, Selections
<1>6. Named(Chain)
  BY <1>2, <1>3 DEF Chain, Named
<1>7. circles = Circles(markers, shown)
  BY <1>4, SelectionAssumption DEF Circles
<1>8. seenByMap.placed = {}
  BY <1>4 DEF FreshPage
<1> QED
  BY <1>2, <1>4, <1>5, <1>6, <1>7, <1>8 DEF SelectionInv

\* What a call chain of the map leaves is still invariant.
LEMMA CommitKeeps ==
    ASSUME SelectionInv, NEW c \in Chains, Named(c), Commit(c),
           c.circles = Circles(markers, c.shown), visible' \subseteq Nodes, zooming' \subseteq Nodes,
           \/ c.shown = c.selected
           \/ c.selected \in zooming'
           \/ c = Chain /\ (selectedId \in zooming => selectedId \in zooming' \cup {shown}),
           UNCHANGED <<placed, focus, seenByMap, markers, lost>>
    PROVE  SelectionInv'
<1>1. /\ Chain' \in Chains /\ Named(Chain)'
      /\ shown' = c.shown /\ circles' = c.circles /\ selectedId' = c.selected
  BY CommitTold
<1>2. circles' = Circles(markers', shown')
  BY <1>1
<1>3. \/ shown' \in {NoSelection, selectedId'}
      \/ selectedId' \in zooming' \cup lost'
      \/ seenByMap'.selected # selectedId' /\ selectedId' \in {NoSelection, focus'}
  <2>1. CASE c = Chain
    BY <1>1, <2>1, ChainFields DEF SelectionInv
  <2>2. CASE c # Chain
    BY <1>1, <2>2
  <2> QED
    BY <2>1, <2>2
<1> QED
  BY <1>1, <1>2, <1>3 DEF SelectionInv

\* The effects bring the selection and the focus of the store to the map.
LEMMA EffectsKeep == SelectionInv /\ RunMapEffects => SelectionInv'
<1>1. SUFFICES ASSUME SelectionInv, RunMapEffects PROVE SelectionInv'
  OBVIOUS
<1>2. PICK rendered, chosen, focused :
         /\ rendered = IF seenByMap.placed # placed THEN Render(Chain, placed) ELSE Chain
         /\ chosen = IF seenByMap.selected # selectedId
                     THEN SetSelectedNode(rendered, placed, visible', selectedId) ELSE rendered
         /\ focused = (focus \in placed /\ (seenByMap.focus # focus \/ seenByMap.placed # placed))
         /\ Commit(IF focused THEN OpenPopup(chosen, placed, visible', focus) ELSE chosen)
         /\ focus' = IF focused THEN NoSelection ELSE focus
         /\ zooming' = (zooming \cap placed) \cup IF focused THEN {focus} \ visible' ELSE {}
         /\ lost' = lost \cup (zooming \ placed)
  BY <1>1 DEF RunMapEffects
<1>3. /\ markers' = placed /\ placed' = placed /\ placed \in SUBSET Nodes /\ visible' \subseteq Nodes
      /\ seenByMap'.placed = placed /\ seenByMap'.selected = selectedId /\ seenByMap'.focus = focus
  <2>1. seenByMap' = SeenByMap /\ markers' = placed /\ placed' = placed
    BY <1>1 DEF RunMapEffects
  <2>2. \E new \in SUBSET (placed \ markers) : visible' = (visible \cap placed) \cup new
    BY <1>1 DEF RunMapEffects
  <2> QED
    BY <1>1, <2>1, <2>2 DEF SelectionInv, SeenByMap
<1>4. /\ Chain \in Chains /\ Named(Chain) /\ selectedId \in Selections
      /\ Chain.shown = shown /\ Chain.selected = selectedId /\ Chain.circles = circles
  BY <1>1, ChainFields DEF SelectionInv, Chains
\* a focus that can be brought out is
<1>5. /\ focused <=> focus \in placed
      /\ focused => focus \in Nodes
      /\ zooming' \subseteq Nodes /\ focus' \in Selections
      /\ focus' \notin seenByMap'.placed
      /\ zooming \subseteq zooming' \cup lost'
      /\ focused => focus \in zooming' \/ focus \in visible'
  BY <1>1, <1>2, <1>3, SelectionAssumption DEF SelectionInv, Selections
<1>6. /\ rendered \in Chains /\ Named(rendered) /\ rendered.circles = Circles(placed, rendered.shown)
      /\ \/ rendered.shown = shown /\ rendered.selected = selectedId
         \/ rendered.shown = NoSelection /\ rendered.selected = NoSelection
  <2>1. CASE seenByMap.placed # placed
    BY <1>2, <1>3, <1>4, <2>1, RenderShows
  <2>2. CASE seenByMap.placed = placed
    BY <1>1, <1>2, <1>4, <2>2 DEF SelectionInv
  <2> QED
    BY <2>1, <2>2
\* when the selection stayed where it was, its marker is in a cluster and a zoom brings it out
<1>7. /\ chosen \in Chains /\ Named(chosen) /\ chosen.circles = Circles(placed, chosen.shown)
      /\ \/ chosen.shown = chosen.selected
         \/ chosen.shown = NoSelection /\ chosen.selected \in {selectedId, NoSelection}
         \/ chosen.selected = selectedId /\ selectedId \in zooming' \cup lost'
         \/ chosen.selected = selectedId /\ selectedId = focus /\ focused
  <2>1. CASE seenByMap.selected = selectedId
    <3>1. chosen = rendered
      BY <1>2, <2>1
    <3>2. \/ shown \in {NoSelection, selectedId}
          \/ selectedId \in zooming' \cup lost'
      BY <1>1, <1>2, <1>5, <2>1 DEF SelectionInv
    <3> QED
      BY <1>6, <3>1, <3>2
  <2>2. CASE seenByMap.selected # selectedId
    <3>1. /\ chosen = SetSelectedNode(rendered, placed, visible', selectedId)
          /\ rendered.selected \in {selectedId, rendered.shown}
      BY <1>2, <1>6, <2>2
    <3>2. /\ chosen \in Chains /\ Named(chosen) /\ chosen.circles = Circles(placed, chosen.shown)
          /\ \/ chosen.shown = chosen.selected
             \/ chosen.shown = NoSelection /\ chosen.selected \in {selectedId, NoSelection}
             \/ chosen = rendered /\ selectedId \in placed
      BY <1>3, <1>4, <1>6, <3>1, SetSelectedNodeShows
    <3>3. ASSUME chosen = rendered, selectedId \in placed,
                 rendered.shown = shown, rendered.selected = selectedId, shown \notin {NoSelection, selectedId}
          PROVE  selectedId \in zooming' \cup lost' \/ (selectedId = focus /\ focused)
      <4>1. selectedId # NoSelection
        BY <1>3, <3>3, SelectionAssumption
      <4> QED
        BY <1>1, <1>2, <1>5, <2>2, <3>3, <4>1 DEF SelectionInv
    <3> QED
      BY <1>6, <3>2, <3>3
  <2> QED
    BY <2>1, <2>2
<1>8. PICK d \in Chains :
         /\ Named(d) /\ Commit(d) /\ d.circles = Circles(placed, d.shown)
         /\ \/ d.shown = d.selected
            \/ d.shown = NoSelection /\ d.selected \in {selectedId, NoSelection}
            \/ d.selected = selectedId /\ selectedId \in zooming' \cup lost'
  <2>1. CASE focused
    <3>1. Commit(OpenPopup(chosen, placed, visible', focus))
      BY <1>2, <2>1
    <3>2. CASE focus \in visible' /\ focus # chosen.shown
      BY <1>3, <1>5, <1>7, <2>1, <3>1, <3>2, OpenPopupShows
    <3>3. CASE focus \notin visible' \/ focus = chosen.shown
      <4>1. OpenPopup(chosen, placed, visible', focus) = chosen
        BY <1>3, <1>5, <1>7, <2>1, <3>3, OpenPopupShows
      <4>2. selectedId = focus /\ chosen.selected = selectedId =>
               chosen.shown = chosen.selected \/ selectedId \in zooming'
        BY <1>5, <2>1, <3>3
      <4> QED
        BY <1>7, <3>1, <4>1, <4>2
    <3> QED
      BY <3>2, <3>3
  <2>2. CASE ~focused
    BY <1>2, <1>7, <2>2
  <2> QED
    BY <2>1, <2>2
<1>9. /\ Chain' \in Chains /\ Named(Chain)'
      /\ shown' = d.shown /\ circles' = d.circles /\ selectedId' = d.selected
  BY <1>8, CommitTold
<1>10. \/ shown' \in {NoSelection, selectedId'}
       \/ selectedId' \in zooming' \cup lost'
  BY <1>8, <1>9
<1>11. circles' = Circles(markers', shown')
  BY <1>3, <1>8, <1>9
<1> QED
  BY <1>3, <1>5, <1>9, <1>10, <1>11 DEF SelectionInv

LEMMA SelectionGoesOn == SelectionInv /\ [SelectionNext]_mapVars => SelectionInv'
<1>1. SUFFICES ASSUME SelectionInv, [SelectionNext]_mapVars PROVE SelectionInv'
  OBVIOUS
<1>2. /\ Chain \in Chains /\ Named(Chain) /\ selectedId \in Selections /\ shown \in Selections
      /\ Chain.shown = shown /\ Chain.selected = selectedId /\ Chain.circles = circles
      /\ entries \in Seq(Selections) /\ entry \in 1..Len(entries) /\ entries[entry] = selectedId
      /\ Len(entries) \in Nat /\ entry \in Nat
      /\ markers \in SUBSET Nodes /\ circles = Circles(markers, shown)
  BY <1>1, ChainFields DEF SelectionInv, Chains, Named
<1>3. CASE UNCHANGED mapVars
  BY <1>1, <1>3 DEF mapVars, SelectionInv, Chain, Named
<1>4. CASE RunMapEffects
  BY <1>1, <1>4, EffectsKeep
<1>5. ASSUME NEW id \in Nodes, ClickMarker(id)
      PROVE  SelectionInv'
  <2>1. /\ UNCHANGED <<placed, focus, seenByMap, markers, lost, visible, zooming>> /\ id \in visible
    BY <1>5 DEF ClickMarker, Still
  <2>2. id # NoSelection
    BY SelectionAssumption
  <2>3. CASE shown = id
    <3>1. Commit(ClosePopup(Chain, markers))
      BY <1>5, <2>3 DEF ClickMarker
    <3>2. PICK c \in Chains : c = ClosePopup(Chain, markers) /\ Named(c) /\ c.shown = c.selected
                              /\ c.circles = Circles(markers, c.shown)
      BY <1>2, <2>2, <2>3, ClosePopupEnds
    <3> QED
      BY <1>1, <2>1, <3>1, <3>2, CommitKeeps DEF SelectionInv
  <2>4. CASE shown # id
    <3>1. Commit(OpenPopup(Chain, markers, visible, id))
      BY <1>5, <2>4 DEF ClickMarker
    <3>2. PICK c \in Chains : c = OpenPopup(Chain, markers, visible, id) /\ Named(c)
                              /\ c.shown = c.selected /\ c.circles = Circles(markers, c.shown)
      BY <1>2, <2>1, <2>4, OpenPopupShows
    <3> QED
      BY <1>1, <2>1, <3>1, <3>2, CommitKeeps DEF SelectionInv
  <2> QED
    BY <2>3, <2>4
<1>6. CASE ClickMap
  <2>1. /\ UNCHANGED <<placed, focus, seenByMap, markers, lost, visible, zooming>>
        /\ shown # NoSelection /\ Commit(ClosePopup(Chain, markers))
    BY <1>6 DEF ClickMap, Still
  <2>2. PICK c \in Chains : c = ClosePopup(Chain, markers) /\ Named(c) /\ c.shown = c.selected
                            /\ c.circles = Circles(markers, c.shown)
    BY <1>2, <2>1, ClosePopupEnds
  <2> QED
    BY <1>1, <2>1, <2>2, CommitKeeps DEF SelectionInv
<1>7. ASSUME NEW out \in SUBSET markers, Regroup(out)
      PROVE  SelectionInv'
  <2>1. /\ UNCHANGED <<placed, focus, seenByMap, markers, lost, zooming>> /\ visible' \subseteq Nodes
        /\ zooming' \subseteq Nodes
        /\ Commit(IF shown \in out THEN Chain ELSE ClosePopup(Chain, markers))
    BY <1>1, <1>7 DEF Regroup, Still, SelectionInv
  <2>2. PICK c \in Chains :
           /\ c = IF shown \in out THEN Chain ELSE ClosePopup(Chain, markers)
           /\ Named(c) /\ c.circles = Circles(markers, c.shown)
           /\ c.shown = c.selected \/ c = Chain
    BY <1>2, ClosePopupEnds
  <2> QED
    BY <1>1, <2>1, <2>2, CommitKeeps
<1>8. ASSUME NEW id \in zooming, ZoomEnds(id)
      PROVE  SelectionInv'
  <2>1. /\ UNCHANGED <<placed, focus, seenByMap, markers, lost>> /\ id \in Nodes
        /\ visible' = visible \cup {id} /\ zooming' = zooming \ {id}
        /\ Commit(OpenPopup(Chain, markers, visible', id))
    BY <1>1, <1>8 DEF ZoomEnds, Still, SelectionInv
  <2>2. visible' \subseteq Nodes /\ zooming' \subseteq Nodes /\ id \in visible'
    BY <1>1, <2>1 DEF SelectionInv
  <2>3. PICK c \in Chains :
           /\ c = OpenPopup(Chain, markers, visible', id)
           /\ Named(c) /\ c.circles = Circles(markers, c.shown)
           /\ c.shown = c.selected \/ (c = Chain /\ shown = id)
    BY <1>2, <2>1, <2>2, OpenPopupShows
  <2>4. c = Chain /\ shown = id => (selectedId \in zooming => selectedId \in zooming' \cup {shown})
    BY <2>1
  <2> QED
    BY <1>1, <2>1, <2>2, <2>3, <2>4, CommitKeeps
<1>9. ASSUME NEW nodes \in SUBSET Nodes, PlaceNodes(nodes)
      PROVE  SelectionInv'
  <2>1. /\ UNCHANGED <<selectedId, focus, entries, entry, seenByMap, markers, visible, shown,
                       circles, zooming, lost>>
        /\ placed' \subseteq Nodes
    BY <1>9 DEF PlaceNodes
  <2>2. Chain' = Chain
    BY <2>1 DEF Chain
  <2> QED
    BY <1>1, <2>1, <2>2 DEF SelectionInv, Named
<1>10. ASSUME NEW id \in Nodes, FocusNodeFromChat(id)
       PROVE  SelectionInv'
  <2>1. /\ UNCHANGED <<placed, focus, seenByMap, markers, lost, visible>>
        /\ zooming' = zooming \cup ({id} \ visible)
        /\ Commit(OpenPopup(SelectOnMap(Chain, id), markers, visible, id))
    BY <1>10 DEF FocusNodeFromChat, Still
  <2>2. visible' \subseteq Nodes /\ zooming' \subseteq Nodes
    BY <1>1, <2>1 DEF SelectionInv
  <2>3. PICK b \in Chains : b = SelectOnMap(Chain, id) /\ Named(b) /\ b.selected = id
                            /\ b.shown = shown /\ b.circles = Circles(markers, shown)
    BY <1>2, SelectOnMapNames DEF Selections
  <2>4. PICK c \in Chains : c = OpenPopup(b, markers, visible, id) /\ Named(c)
                            /\ c.circles = Circles(markers, c.shown) /\ c.selected = id
                            /\ (c.shown = id \/ id \notin visible)
    BY <1>2, <2>3, OpenPopupShows
  <2>5. c.shown = c.selected \/ c.selected \in zooming'
    BY <2>1, <2>4
  <2> QED
    BY <1>1, <2>1, <2>2, <2>3, <2>4, <2>5, CommitKeeps
\* the URL selects: what it names is the focus too
<1>11. ASSUME NEW id \in Selections, MapQuiet, ApplyMapNode(id), entries' \in Seq(Selections),
              entry' \in 1..Len(entries'), Len(entries') \in Nat, entries'[entry'] = id
       PROVE  SelectionInv'
  <2>1. /\ selectedId' = id /\ focus' = id
        /\ UNCHANGED <<placed, seenByMap, markers, visible, shown, circles, zooming, lost>>
    BY <1>11 DEF ApplyMapNode
  <2>2. seenByMap.selected = selectedId /\ seenByMap.focus = focus
    BY <1>11 DEF MapQuiet, SeenByMap
  <2>3. Chain' \in Chains
    BY <1>1, <1>2, <1>11, <2>1 DEF Chain, Chains, SelectionInv
  <2>4. Named(Chain)'
    BY <1>11, <2>1 DEF Named, Chain
  <2>5. \/ shown' \in {NoSelection, selectedId'}
        \/ selectedId' \in zooming' \cup lost'
        \/ seenByMap'.selected # selectedId' /\ selectedId' \in {NoSelection, focus'}
    BY <1>1, <2>1, <2>2 DEF SelectionInv
  <2> QED
    BY <1>1, <2>1, <2>2, <2>3, <2>4, <2>5 DEF SelectionInv
<1>12. ASSUME NEW k \in 1..MaxEntries, GoBackOrForward(k)
       PROVE  SelectionInv'
  <2>1. /\ MapQuiet /\ k \in 1..Len(entries) /\ entry' = k /\ entries' = entries
        /\ ApplyMapNode(entries[k])
    BY <1>2, <1>12, LenProperties DEF GoBackOrForward
  <2>2. entries[k] \in Selections
    BY <1>2, <2>1, ElementOfSeq
  <2> QED
    BY <1>2, <1>11, <2>1, <2>2
\* a new entry of the history
<1>13. ASSUME NEW id \in Selections, entries' = Append(SubSeq(entries, 1, entry), id), entry' = entry + 1
       PROVE  /\ entries' \in Seq(Selections) /\ Len(entries') \in Nat
              /\ entry' \in 1..Len(entries') /\ entries'[entry'] = id /\ entry' \in Nat
  <2>1. \A i \in 1..entry : entries[i] \in Selections
    BY <1>2, ElementOfSeq
  <2>2. PICK kept \in Seq(Selections) : kept = SubSeq(entries, 1, entry) /\ Len(kept) = entry
    <3>1. /\ SubSeq(entries, 1, entry) \in Seq(Selections)
          /\ Len(SubSeq(entries, 1, entry)) = entry
      BY <1>2, <2>1, SubSeqProperties
    <3> QED
      BY <3>1
  <2>3. /\ Append(kept, id) \in Seq(Selections) /\ Len(Append(kept, id)) = entry + 1
        /\ Append(kept, id)[entry + 1] = id
    BY <2>2, AppendProperties
  <2> QED
    BY <1>2, <1>13, <2>2, <2>3
<1>14. ASSUME NEW id \in Nodes \cup {NoSelection}, EditMapAddress(id)
       PROVE  SelectionInv'
  <2>1. /\ MapQuiet /\ ApplyMapNode(id) /\ id \in Selections
        /\ entries' = Append(SubSeq(entries, 1, entry), id) /\ entry' = entry + 1
    BY <1>14 DEF EditMapAddress, Room, Selections
  <2> QED
    BY <1>11, <1>13, <2>1
<1>15. ASSUME NEW id \in Nodes \cup {NoSelection}, Remount(id)
       PROVE  SelectionInv'
  <2>1. /\ selectedId' = IF id = NoSelection THEN selectedId ELSE id
        /\ focus' = id /\ id \in Selections
        /\ entries' = Append(SubSeq(entries, 1, entry), selectedId') /\ entry' = entry + 1
        /\ seenByMap' = FreshPage /\ placed' = placed
        /\ markers' = {} /\ visible' = {} /\ circles' = {} /\ zooming' = {}
        /\ shown' = NoSelection
    BY <1>15 DEF Remount, Selections
  <2>2. selectedId' \in Selections
    BY <1>2, <2>1
  <2>3. /\ entries' \in Seq(Selections) /\ entry' \in 1..Len(entries') /\ entry' \in Nat
        /\ entries'[entry'] = selectedId'
    BY <1>13, <2>1, <2>2
  <2>4. Chain' \in Chains
    BY <2>1, <2>2, <2>3 DEF Chain, Chains, Selections
  <2>5. Named(Chain)'
    BY <2>3 DEF Named, Chain
  <2>6. circles' = Circles(markers', shown')
    BY <2>1, SelectionAssumption DEF Circles
  <2>7. seenByMap'.placed = {}
    BY <2>1 DEF FreshPage
  <2> QED
    BY <1>1, <2>1, <2>4, <2>5, <2>6, <2>7 DEF SelectionInv
<1> QED
  BY <1>1, <1>3, <1>4, <1>5, <1>6, <1>7, <1>8, <1>9, <1>10, <1>12, <1>14, <1>15 DEF SelectionNext

\* Whatever popup the user, the map, the URL, a zoom that comes late or the nodes that come
\* and go open or close, and in every mode of the circles.
THEOREM OneNodeIsSelected == SelectionSpec => []MapAgrees
BY SelectionStarts, SelectionGoesOn, SelectionTold, PTL DEF SelectionSpec

----------------------------------------------------------------------------
(* The nodes.  What is shown gets older by a tick with each tick until the *)
(* next pruning, and a node the client was told of is shown as it was      *)
(* told, from the snapshot of the bootstrap on.                            *)

Ages == {a \in Int : a = None \/ (a >= 0 /\ a <= OldestAge)}
MapNode == [onMap : BOOLEAN, named : BOOLEAN, pos : Ages, tel : Ages]

ToldOf(nodes) == \A id \in StoreNodes :
    id \notin missed /\ IsRecent(reported[id].pos, PositionMaxAge) => nodes[id].pos = reported[id].pos

Outdated(nodes, list, by) == \A id \in StoreNodes :
    /\ nodes[id].pos <= PositionMaxAge + by
    /\ nodes[id].tel <= TelemetryMaxAge + by
    /\ list[id] <= PositionMaxAge + by

StoreInv ==
    /\ reported \in [StoreNodes -> [pos : Ages, tel : Ages]]
    /\ mapNodes \in [StoreNodes -> MapNode] /\ summaries \in [StoreNodes -> Ages]
    /\ snapshot # NotAsked => snapshot \in [asked : BOOLEAN, nodes : [StoreNodes -> MapNode]]
                              /\ ToldOf(snapshot.nodes)
    /\ live # "loading" => snapshot = NotAsked
    /\ pruneIn \in 0..PruneEvery
    /\ live \in {"up", "down"} =>
          /\ ToldOf(mapNodes)
          /\ pruneIn > 0 => Outdated(mapNodes, summaries, PruneEvery - pruneIn)

LEMMA StoreTold == StoreInv => NodesCurrent
<1>1. SUFFICES ASSUME StoreInv, live \in {"up", "down"}, pruneIn > 0, NEW id \in StoreNodes
               PROVE  /\ mapNodes[id].pos <= PositionMaxAge + PruneEvery
                      /\ mapNodes[id].tel <= TelemetryMaxAge + PruneEvery
                      /\ summaries[id] <= PositionMaxAge + PruneEvery
                      /\ (id \notin missed /\ IsRecent(reported[id].pos, PositionMaxAge)) =>
                            mapNodes[id].pos = reported[id].pos
  BY DEF NodesCurrent
<1>2. /\ mapNodes[id].pos <= PositionMaxAge + (PruneEvery - pruneIn)
      /\ mapNodes[id].tel <= TelemetryMaxAge + (PruneEvery - pruneIn)
      /\ summaries[id] <= PositionMaxAge + (PruneEvery - pruneIn)
  BY <1>1 DEF StoreInv, Outdated
<1>3. /\ mapNodes[id].pos \in Int /\ mapNodes[id].tel \in Int /\ summaries[id] \in Int /\ pruneIn \in Nat
  BY <1>1, NodeStoreAssumption DEF StoreInv, MapNode, Ages
<1> QED
  BY <1>1, <1>2, <1>3, NodeStoreAssumption DEF StoreInv, ToldOf

\* A tick makes an age older by one, and what is recent after it was so before.
LEMMA AgesGrow ==
    ASSUME NEW since \in Ages, NEW maxAge \in Nat, maxAge < OldestAge
    PROVE  /\ Aged(since) \in Ages /\ since \in Int /\ Aged(since) \in Int
           /\ Aged(since) <= since + 1
           /\ IsRecent(Aged(since), maxAge) => IsRecent(since, maxAge)
<1>1. CASE since = None
  BY <1>1, NodeStoreAssumption DEF Aged, Ages, None, IsRecent
<1>2. CASE since # None
  <2>1. since \in Int /\ since >= 0 /\ since <= OldestAge /\ OldestAge \in Nat
    BY <1>2, NodeStoreAssumption DEF Ages
  <2>2. PICK next \in Nat : next = since + 1
    BY <2>1
  <2>3. PICK older : older = Min({next, OldestAge})
    OBVIOUS
  <2>4. older \in {next, OldestAge} /\ older <= next /\ older <= OldestAge
    <3>1. \E x \in {next, OldestAge} : \A y \in {next, OldestAge} : x <= y
      BY <2>1, <2>2
    <3> QED
      BY <2>3, <3>1 DEF Min
  <2>5. Aged(since) = older
    BY <1>2, <2>2, <2>3 DEF Aged
  <2> QED
    BY <2>1, <2>2, <2>4, <2>5 DEF Ages, None, IsRecent
<1> QED
  BY <1>1, <1>2

LEMMA OlderIsTyped ==
    ASSUME NEW n \in MapNode
    PROVE  /\ OlderNode(n) \in MapNode
           /\ OlderNode(n).pos = Aged(n.pos) /\ OlderNode(n).tel = Aged(n.tel)
<1>1. n.pos \in Ages /\ n.tel \in Ages
  BY DEF MapNode
<1>2. PICK p \in Ages, t \in Ages : p = Aged(n.pos) /\ t = Aged(n.tel)
  BY <1>1, AgesGrow, NodeStoreAssumption
<1>3. OlderNode(n) = [n EXCEPT !.pos = p, !.tel = t]
  BY <1>2 DEF OlderNode
<1> QED
  BY <1>2, <1>3 DEF MapNode

\* applyRelevance leaves nothing outdated, and takes nothing away that is recent.
LEMMA PruningKeeps ==
    ASSUME NEW nodes \in [StoreNodes -> MapNode], NEW id \in StoreNodes
    PROVE  /\ PruneMapNodes(nodes) \in [StoreNodes -> MapNode]
           /\ PruneMapNodes(nodes)[id].pos <= PositionMaxAge
           /\ PruneMapNodes(nodes)[id].tel <= TelemetryMaxAge
           /\ \A since : nodes[id].pos = since /\ IsRecent(since, PositionMaxAge)
                           => PruneMapNodes(nodes)[id].pos = since
<1>1. NotOnMap \in MapNode /\ NotOnMap.pos = None /\ NotOnMap.tel = None
  BY DEF NotOnMap, MapNode, Ages, None
<1>2. ASSUME NEW n \in MapNode
      PROVE  LET kept == [n EXCEPT !.tel = IF IsRecent(@, TelemetryMaxAge) THEN @ ELSE None]
             IN  /\ kept \in MapNode /\ kept.pos = n.pos /\ kept.tel <= TelemetryMaxAge
  <2>1. n.tel \in Ages
    BY <1>2 DEF MapNode
  <2>2. PICK t \in Ages : /\ t = IF IsRecent(n.tel, TelemetryMaxAge) THEN n.tel ELSE None
                          /\ t <= TelemetryMaxAge
    BY <2>1, NodeStoreAssumption DEF Ages, None, IsRecent
  <2> QED
    BY <1>2, <2>2 DEF MapNode
<1>3. ASSUME NEW i \in StoreNodes
      PROVE  /\ PruneMapNodes(nodes)[i] \in MapNode
             /\ PruneMapNodes(nodes)[i].pos <= PositionMaxAge
             /\ PruneMapNodes(nodes)[i].tel <= TelemetryMaxAge
             /\ IsRecent(nodes[i].pos, PositionMaxAge) => PruneMapNodes(nodes)[i].pos = nodes[i].pos
  <2>1. CASE IsRecent(nodes[i].pos, PositionMaxAge)
    <3>1. PruneMapNodes(nodes)[i]
             = [nodes[i] EXCEPT !.tel = IF IsRecent(@, TelemetryMaxAge) THEN @ ELSE None]
      BY <2>1 DEF PruneMapNodes
    <3>2. nodes[i] \in MapNode
      OBVIOUS
    <3> QED
      BY <1>2, <2>1, <3>1, <3>2 DEF IsRecent
  <2>2. CASE ~IsRecent(nodes[i].pos, PositionMaxAge)
    <3>1. PruneMapNodes(nodes)[i] = NotOnMap
      BY <2>2 DEF PruneMapNodes
    <3>2. None <= PositionMaxAge /\ None <= TelemetryMaxAge
      BY NodeStoreAssumption DEF None
    <3> QED
      BY <1>1, <2>2, <3>1, <3>2
  <2> QED
    BY <2>1, <2>2
<1>4. PruneMapNodes(nodes) \in [StoreNodes -> MapNode]
  BY <1>3 DEF PruneMapNodes
<1> QED
  BY <1>3, <1>4

LEMMA PruningTheList ==
    ASSUME NEW list \in [StoreNodes -> Ages], NEW id \in StoreNodes
    PROVE  /\ PruneSummaries(list) \in [StoreNodes -> Ages]
           /\ PruneSummaries(list)[id] <= PositionMaxAge
  BY NodeStoreAssumption DEF PruneSummaries, Ages, None, IsRecent

\* upsertNode leaves the ages as they are.
LEMMA UpsertNodeKeeps ==
    ASSUME NEW nodes \in [StoreNodes -> MapNode], NEW id \in StoreNodes, NEW other \in StoreNodes
    PROVE  /\ UpsertNode(nodes, id) \in [StoreNodes -> MapNode]
           /\ UpsertNode(nodes, id)[other].pos = nodes[other].pos
           /\ UpsertNode(nodes, id)[other].tel = nodes[other].tel
<1>1. PICK a \in MapNode : a = [nodes[id] EXCEPT !.onMap = TRUE]
  BY DEF MapNode
<1>2. a.pos = nodes[id].pos /\ a.tel = nodes[id].tel
  BY <1>1 DEF MapNode
<1>3. PICK b \in MapNode : b = [a EXCEPT !.named = TRUE]
  BY DEF MapNode
<1>4. b.pos = nodes[id].pos /\ b.tel = nodes[id].tel
  BY <1>2, <1>3 DEF MapNode
<1>5. UpsertNode(nodes, id) = [nodes EXCEPT ![id] = b]
  BY <1>1, <1>3 DEF UpsertNode
<1> QED
  BY <1>4, <1>5

\* upsertMapNodePosition: the position is new.
LEMMA UpsertPositionKeeps ==
    ASSUME NEW nodes \in [StoreNodes -> MapNode], NEW id \in StoreNodes, NEW other \in StoreNodes
    PROVE  /\ UpsertPosition(nodes, id) \in [StoreNodes -> MapNode]
           /\ UpsertPosition(nodes, id)[other].pos = IF other = id THEN 0 ELSE nodes[other].pos
           /\ UpsertPosition(nodes, id)[other].tel = nodes[other].tel
<1>1. PICK a \in MapNode : a = [nodes[id] EXCEPT !.onMap = TRUE]
  BY DEF MapNode
<1>2. a.tel = nodes[id].tel
  BY <1>1 DEF MapNode
<1>3. PICK new \in Ages : new = 0
  BY NodeStoreAssumption DEF Ages
<1>4. PICK b \in MapNode : b = [a EXCEPT !.pos = new]
  BY <1>3 DEF MapNode
<1>5. b.pos = 0 /\ b.tel = nodes[id].tel
  BY <1>2, <1>3, <1>4 DEF MapNode
<1>6. UpsertPosition(nodes, id) = [nodes EXCEPT ![id] = b]
  BY <1>1, <1>3, <1>4 DEF UpsertPosition
<1> QED
  BY <1>5, <1>6

\* upsertMapNodeTelemetry: the telemetry is new, of a node that is there.
LEMMA UpsertTelemetryKeeps ==
    ASSUME NEW nodes \in [StoreNodes -> MapNode], NEW id \in StoreNodes, NEW other \in StoreNodes
    PROVE  /\ UpsertTelemetry(nodes, id) \in [StoreNodes -> MapNode]
           /\ UpsertTelemetry(nodes, id)[other].pos = nodes[other].pos
           /\ UpsertTelemetry(nodes, id)[other].tel \in {0, nodes[other].tel}
<1>1. PICK new \in Ages : new = 0
  BY NodeStoreAssumption DEF Ages
<1>2. PICK b \in MapNode : b = [nodes[id] EXCEPT !.tel = new]
  BY <1>1 DEF MapNode
<1>3. b.pos = nodes[id].pos /\ b.tel = 0
  BY <1>1, <1>2 DEF MapNode
<1>4. UpsertTelemetry(nodes, id) \in {nodes, [nodes EXCEPT ![id] = b]}
  BY <1>1, <1>2 DEF UpsertTelemetry
<1> QED
  BY <1>3, <1>4

LEMMA StoreStarts == StoreInit => StoreInv
<1>1. SUFFICES ASSUME StoreInit PROVE StoreInv
  OBVIOUS
<1>2. None \in Ages /\ 0 \in Ages
  BY NodeStoreAssumption DEF None, Ages
<1>3. NotOnMap \in MapNode
  BY <1>2 DEF NotOnMap, MapNode
<1>4. {[pos |-> None, tel |-> None], [pos |-> 0, tel |-> 0]} \subseteq [pos : Ages, tel : Ages]
  BY <1>2
<1>5. reported \in [StoreNodes -> [pos : Ages, tel : Ages]]
  BY <1>1, <1>4 DEF StoreInit
<1>6. mapNodes \in [StoreNodes -> MapNode] /\ summaries \in [StoreNodes -> Ages]
  BY <1>1, <1>2, <1>3 DEF StoreInit
<1>7. snapshot = NotAsked /\ live = "loading" /\ pruneIn \in 0..PruneEvery
  BY <1>1, NodeStoreAssumption DEF StoreInit
<1> QED
  BY <1>5, <1>6, <1>7 DEF StoreInv

\* A tick: everything that is kept gets older alike.
LEMMA TicksKeep == StoreInv /\ TimePasses => StoreInv'
<1>1. SUFFICES ASSUME StoreInv, TimePasses PROVE StoreInv'
  OBVIOUS
<1>2. /\ reported' = [id \in StoreNodes |-> OlderNode(reported[id])]
      /\ mapNodes' = [id \in StoreNodes |-> OlderNode(mapNodes[id])]
      /\ summaries' = [id \in StoreNodes |-> Aged(summaries[id])]
      /\ live' = live /\ missed' = missed
      /\ live \in {"up", "down"} => pruneIn > 0
      /\ pruneIn' = IF live \in {"up", "down"} THEN pruneIn - 1 ELSE pruneIn
  BY <1>1 DEF TimePasses
<1>3. /\ PositionMaxAge \in Nat /\ PositionMaxAge < OldestAge /\ OldestAge \in Nat
      /\ TelemetryMaxAge \in Nat /\ TelemetryMaxAge < OldestAge /\ PruneEvery \in Nat
  BY NodeStoreAssumption
<1>4. ASSUME NEW id \in StoreNodes
      PROVE  /\ reported'[id] \in [pos : Ages, tel : Ages]
             /\ reported'[id].pos = Aged(reported[id].pos)
             /\ IsRecent(reported'[id].pos, PositionMaxAge) => IsRecent(reported[id].pos, PositionMaxAge)
  <2>1. reported[id] \in [pos : Ages, tel : Ages]
    BY <1>1, <1>4 DEF StoreInv
  <2>2. PICK p \in Ages, t \in Ages : p = Aged(reported[id].pos) /\ t = Aged(reported[id].tel)
    BY <1>3, <2>1, AgesGrow
  <2>3. reported'[id] = [reported[id] EXCEPT !.pos = p, !.tel = t]
    BY <1>2, <1>4, <2>2 DEF OlderNode
  <2>4. reported'[id] \in [pos : Ages, tel : Ages] /\ reported'[id].pos = p
    BY <2>1, <2>2, <2>3
  <2>5. IsRecent(p, PositionMaxAge) => IsRecent(reported[id].pos, PositionMaxAge)
    BY <1>3, <2>1, <2>2, AgesGrow
  <2> QED
    BY <2>2, <2>4, <2>5
<1>5. ASSUME NEW nodes \in [StoreNodes -> MapNode], ToldOf(nodes), NEW older,
             older = [id \in StoreNodes |-> OlderNode(nodes[id])]
      PROVE  \A id \in StoreNodes :
                id \notin missed' /\ IsRecent(reported'[id].pos, PositionMaxAge)
                   => older[id].pos = reported'[id].pos
  <2>1. \A id \in StoreNodes : older[id].pos = Aged(nodes[id].pos)
    BY <1>5, OlderIsTyped
  <2> QED
    BY <1>2, <1>4, <1>5, <2>1 DEF ToldOf
<1>6. /\ mapNodes' \in [StoreNodes -> MapNode] /\ summaries' \in [StoreNodes -> Ages]
      /\ reported' \in [StoreNodes -> [pos : Ages, tel : Ages]]
  <2>1. reported' \in [StoreNodes -> [pos : Ages, tel : Ages]]
    BY <1>2, <1>4
  <2>2. mapNodes' \in [StoreNodes -> MapNode]
    BY <1>1, <1>2, OlderIsTyped DEF StoreInv
  <2>3. summaries' \in [StoreNodes -> Ages]
    BY <1>1, <1>2, <1>3, AgesGrow DEF StoreInv
  <2> QED
    BY <2>1, <2>2, <2>3
<1>7. snapshot' # NotAsked => snapshot' \in [asked : BOOLEAN, nodes : [StoreNodes -> MapNode]]
                               /\ ToldOf(snapshot.nodes)'
  <2>1. SUFFICES ASSUME snapshot' # NotAsked
                 PROVE  snapshot' \in [asked : BOOLEAN, nodes : [StoreNodes -> MapNode]]
                        /\ ToldOf(snapshot.nodes)'
    OBVIOUS
  <2>2. /\ snapshot # NotAsked
        /\ snapshot' = [snapshot EXCEPT !.nodes = [id \in StoreNodes |-> OlderNode(@[id])]]
    BY <1>1, <2>1 DEF TimePasses
  <2>3. /\ snapshot \in [asked : BOOLEAN, nodes : [StoreNodes -> MapNode]] /\ ToldOf(snapshot.nodes)
    BY <1>1, <2>2 DEF StoreInv
  <2>4. PICK older \in [StoreNodes -> MapNode] :
           older = [id \in StoreNodes |-> OlderNode(snapshot.nodes[id])]
    BY <2>3, OlderIsTyped
  <2>5. snapshot' = [snapshot EXCEPT !.nodes = older]
    BY <2>2, <2>4
  <2>6. snapshot' \in [asked : BOOLEAN, nodes : [StoreNodes -> MapNode]] /\ snapshot'.nodes = older
    BY <2>3, <2>5
  <2> QED
    BY <1>5, <2>3, <2>4, <2>6 DEF ToldOf
<1>8. pruneIn' \in 0..PruneEvery
  BY <1>1, <1>2, <1>3 DEF StoreInv
<1>9. ASSUME live' \in {"up", "down"}
      PROVE  ToldOf(mapNodes)'
  BY <1>1, <1>2, <1>5, <1>9 DEF StoreInv, ToldOf
<1>10. ASSUME live' \in {"up", "down"}, pruneIn' > 0
       PROVE  Outdated(mapNodes, summaries, PruneEvery - pruneIn)'
  <2>1. /\ pruneIn > 0 /\ pruneIn' = pruneIn - 1 /\ pruneIn \in Nat
        /\ Outdated(mapNodes, summaries, PruneEvery - pruneIn)
    BY <1>1, <1>2, <1>3, <1>10 DEF StoreInv
  <2>2. ASSUME NEW id \in StoreNodes
        PROVE  /\ mapNodes'[id].pos <= PositionMaxAge + (PruneEvery - pruneIn')
               /\ mapNodes'[id].tel <= TelemetryMaxAge + (PruneEvery - pruneIn')
               /\ summaries'[id] <= PositionMaxAge + (PruneEvery - pruneIn')
    <3>1. /\ mapNodes[id] \in MapNode /\ summaries[id] \in Ages
          /\ mapNodes[id].pos \in Ages /\ mapNodes[id].tel \in Ages
      BY <1>1, <2>2 DEF StoreInv, MapNode
    <3>2. /\ mapNodes'[id].pos = Aged(mapNodes[id].pos) /\ mapNodes'[id].tel = Aged(mapNodes[id].tel)
          /\ summaries'[id] = Aged(summaries[id])
      BY <1>2, <2>2, <3>1, OlderIsTyped
    <3>3. /\ mapNodes[id].pos <= PositionMaxAge + (PruneEvery - pruneIn)
          /\ mapNodes[id].tel <= TelemetryMaxAge + (PruneEvery - pruneIn)
          /\ summaries[id] <= PositionMaxAge + (PruneEvery - pruneIn)
      BY <2>1, <2>2 DEF Outdated
    <3>4. ASSUME NEW since \in Ages, NEW most \in Nat, since <= most + (PruneEvery - pruneIn)
          PROVE  Aged(since) <= most + (PruneEvery - pruneIn')
      <4>1. Aged(since) <= since + 1 /\ Aged(since) \in Int /\ since \in Int
        BY <1>3, <3>4, AgesGrow
      <4> QED
        BY <1>3, <2>1, <3>4, <4>1
    <3> QED
      BY <1>3, <3>1, <3>2, <3>3, <3>4
  <2> QED
    BY <2>2 DEF Outdated
<1>11. live' # "loading" => snapshot' = NotAsked
  BY <1>1, <1>2 DEF StoreInv, TimePasses
<1> QED
  BY <1>6, <1>7, <1>8, <1>9, <1>10, <1>11 DEF StoreInv

LEMMA StoreGoesOn == StoreInv /\ [StoreNext]_storeVars => StoreInv'
<1>1. SUFFICES ASSUME StoreInv, [StoreNext]_storeVars PROVE StoreInv'
  OBVIOUS
<1>2. /\ reported \in [StoreNodes -> [pos : Ages, tel : Ages]]
      /\ mapNodes \in [StoreNodes -> MapNode] /\ summaries \in [StoreNodes -> Ages]
      /\ snapshot # NotAsked => snapshot \in [asked : BOOLEAN, nodes : [StoreNodes -> MapNode]]
                                /\ ToldOf(snapshot.nodes)
      /\ live # "loading" => snapshot = NotAsked
      /\ pruneIn \in 0..PruneEvery
  BY <1>1 DEF StoreInv
<1>3. /\ None \in Ages /\ 0 \in Ages /\ PositionMaxAge \in Nat /\ TelemetryMaxAge \in Nat
      /\ PruneEvery \in Nat /\ PruneEvery > 0 /\ pruneIn \in Nat
  BY <1>2, NodeStoreAssumption DEF None, Ages
<1>4. \A id \in StoreNodes : /\ mapNodes[id].pos \in Ages /\ mapNodes[id].tel \in Ages
                             /\ reported[id].pos \in Ages /\ reported[id].tel \in Ages
  BY <1>2 DEF MapNode
<1>5. CASE UNCHANGED storeVars
  BY <1>1, <1>5 DEF storeVars, StoreInv, ToldOf, Outdated
<1>6. ASSUME NEW id \in StoreNodes, ReportPosition(id)
      PROVE  StoreInv'
  <2>1. /\ reported' = [reported EXCEPT ![id].pos = 0]
        /\ UNCHANGED <<snapshot, live, summaries, pruneIn>>
        /\ mapNodes' = IF live = "up" THEN UpsertPosition(mapNodes, id) ELSE mapNodes
        /\ missed' = IF live = "up" THEN missed \ {id} ELSE missed \cup {id}
    BY <1>6 DEF ReportPosition
  <2>2. /\ reported' \in [StoreNodes -> [pos : Ages, tel : Ages]]
        /\ \A j \in StoreNodes : reported'[j].pos = IF j = id THEN 0 ELSE reported[j].pos
    <3>1. PICK new \in Ages : new = 0
      BY <1>3
    <3>2. PICK r \in [pos : Ages, tel : Ages] : r = [reported[id] EXCEPT !.pos = new]
      BY <1>2, <3>1
    <3>3. r.pos = 0
      BY <1>2, <3>1, <3>2
    <3>4. reported' = [reported EXCEPT ![id] = r]
      BY <2>1, <3>1, <3>2
    <3> QED
      BY <1>2, <3>2, <3>3, <3>4
  <2>3. /\ mapNodes' \in [StoreNodes -> MapNode]
        /\ \A j \in StoreNodes : /\ mapNodes'[j].pos \in {0, mapNodes[j].pos}
                                 /\ mapNodes'[j].tel = mapNodes[j].tel
                                 /\ live = "up" => mapNodes'[j].pos = IF j = id THEN 0 ELSE mapNodes[j].pos
                                 /\ live # "up" => mapNodes'[j].pos = mapNodes[j].pos
    BY <1>2, <2>1, UpsertPositionKeeps
  <2>4. ASSUME snapshot' # NotAsked
        PROVE  ToldOf(snapshot.nodes)'
    <3>1. ToldOf(snapshot.nodes) /\ snapshot \in [asked : BOOLEAN, nodes : [StoreNodes -> MapNode]]
      BY <1>2, <2>1, <2>4
    <3>2. CASE live # "up"
      BY <2>1, <2>2, <3>1, <3>2 DEF ToldOf
    <3>3. live # "up"
      BY <1>1, <2>1, <2>4 DEF StoreInv
    <3> QED
      BY <3>2, <3>3
  <2>5. ASSUME live' \in {"up", "down"}
        PROVE  ToldOf(mapNodes)'
    <3>1. ToldOf(mapNodes)
      BY <1>1, <2>1, <2>5 DEF StoreInv
    <3> QED
      BY <2>1, <2>2, <2>3, <3>1 DEF ToldOf
  <2>6. ASSUME live' \in {"up", "down"}, pruneIn' > 0
        PROVE  Outdated(mapNodes, summaries, PruneEvery - pruneIn)'
    <3>1. Outdated(mapNodes, summaries, PruneEvery - pruneIn) /\ PruneEvery - pruneIn >= 0
      BY <1>1, <1>2, <1>3, <2>1, <2>6 DEF StoreInv
    <3>2. 0 <= PositionMaxAge + (PruneEvery - pruneIn)
      BY <1>3, <3>1
    <3> QED
      BY <2>1, <2>3, <3>1, <3>2 DEF Outdated
  <2> QED
    BY <1>2, <2>1, <2>2, <2>3, <2>4, <2>5, <2>6 DEF StoreInv
<1>7. ASSUME NEW id \in StoreNodes, ReportTelemetry(id)
      PROVE  StoreInv'
  <2>1. /\ reported' = [reported EXCEPT ![id].tel = 0]
        /\ UNCHANGED <<snapshot, live, summaries, pruneIn, missed>>
        /\ mapNodes' = IF live = "up" THEN UpsertTelemetry(mapNodes, id) ELSE mapNodes
    BY <1>7 DEF ReportTelemetry
  <2>2. /\ reported' \in [StoreNodes -> [pos : Ages, tel : Ages]]
        /\ \A j \in StoreNodes : reported'[j].pos = reported[j].pos
    <3>1. PICK new \in Ages : new = 0
      BY <1>3
    <3>2. PICK r \in [pos : Ages, tel : Ages] : r = [reported[id] EXCEPT !.tel = new]
      BY <1>2, <3>1
    <3>3. r.pos = reported[id].pos
      BY <1>2, <3>1, <3>2
    <3>4. reported' = [reported EXCEPT ![id] = r]
      BY <2>1, <3>1, <3>2
    <3> QED
      BY <1>2, <3>2, <3>3, <3>4
  <2>3. /\ mapNodes' \in [StoreNodes -> MapNode]
        /\ \A j \in StoreNodes : /\ mapNodes'[j].pos = mapNodes[j].pos
                                 /\ mapNodes'[j].tel \in {0, mapNodes[j].tel}
    BY <1>2, <2>1, UpsertTelemetryKeeps
  <2>4. ASSUME live' \in {"up", "down"}, pruneIn' > 0
        PROVE  Outdated(mapNodes, summaries, PruneEvery - pruneIn)'
    <3>1. Outdated(mapNodes, summaries, PruneEvery - pruneIn) /\ PruneEvery - pruneIn >= 0
      BY <1>1, <1>2, <1>3, <2>1, <2>4 DEF StoreInv
    <3>2. 0 <= TelemetryMaxAge + (PruneEvery - pruneIn)
      BY <1>3, <3>1
    <3> QED
      BY <2>1, <2>3, <3>1, <3>2 DEF Outdated
  <2>5. live' \in {"up", "down"} => ToldOf(mapNodes)'
    BY <1>1, <2>1, <2>2, <2>3 DEF StoreInv, ToldOf
  <2>6. snapshot' # NotAsked => ToldOf(snapshot.nodes)'
    BY <1>2, <2>1, <2>2 DEF ToldOf
  <2> QED
    BY <1>2, <2>1, <2>2, <2>3, <2>4, <2>5, <2>6 DEF StoreInv
<1>8. ASSUME NEW id \in StoreNodes, ReportNode(id)
      PROVE  StoreInv'
  <2>1. /\ live = "up" /\ mapNodes' = UpsertNode(mapNodes, id)
        /\ UNCHANGED <<reported, snapshot, live, summaries, pruneIn, missed>>
    BY <1>8 DEF ReportNode
  <2>2. /\ mapNodes' \in [StoreNodes -> MapNode]
        /\ \A j \in StoreNodes : /\ mapNodes'[j].pos = mapNodes[j].pos
                                 /\ mapNodes'[j].tel = mapNodes[j].tel
    BY <1>2, <2>1, UpsertNodeKeeps
  <2>3. ToldOf(mapNodes)' /\ snapshot' = NotAsked
    BY <1>1, <2>1, <2>2 DEF StoreInv, ToldOf
  <2>4. pruneIn' > 0 => Outdated(mapNodes, summaries, PruneEvery - pruneIn)'
    BY <1>1, <2>1, <2>2 DEF StoreInv, Outdated
  <2> QED
    BY <1>2, <2>1, <2>2, <2>3, <2>4 DEF StoreInv
\* the server answers with what is recent, which nobody is missing then
<1>9. CASE ServeMapNodes
  <2>1. PICK nodes :
           /\ nodes = [id \in StoreNodes |->
                  IF IsRecent(reported[id].pos, PositionMaxAge)
                  THEN [onMap |-> TRUE, named |-> TRUE, pos |-> reported[id].pos,
                        tel |-> IF IsRecent(reported[id].tel, TelemetryMaxAge)
                                THEN reported[id].tel ELSE None]
                  ELSE NotOnMap]
           /\ snapshot' = [asked |-> TRUE, nodes |-> nodes]
           /\ live = "loading" /\ UNCHANGED <<reported, live, mapNodes, summaries, pruneIn>>
    BY <1>9 DEF ServeMapNodes
  <2>2. NotOnMap \in MapNode
    BY <1>3 DEF NotOnMap, MapNode
  <2>3. ASSUME NEW id \in StoreNodes
        PROVE  /\ nodes[id] \in MapNode
               /\ IsRecent(reported[id].pos, PositionMaxAge) => nodes[id].pos = reported[id].pos
    <3>1. PICK p \in Ages, t \in Ages :
             /\ p = reported[id].pos
             /\ t = IF IsRecent(reported[id].tel, TelemetryMaxAge) THEN reported[id].tel ELSE None
      BY <1>3, <1>4
    <3>2. nodes[id] = IF IsRecent(p, PositionMaxAge)
                      THEN [onMap |-> TRUE, named |-> TRUE, pos |-> p, tel |-> t] ELSE NotOnMap
      BY <2>1, <3>1
    <3>3. [onMap |-> TRUE, named |-> TRUE, pos |-> p, tel |-> t] \in MapNode
      BY <3>1 DEF MapNode
    <3> QED
      BY <2>2, <3>1, <3>2, <3>3
  <2>4. nodes \in [StoreNodes -> MapNode]
    BY <2>1, <2>3
  <2>5. snapshot' \in [asked : BOOLEAN, nodes : [StoreNodes -> MapNode]] /\ snapshot'.nodes = nodes
    BY <2>1, <2>4
  <2>6. ToldOf(snapshot.nodes)'
    BY <2>1, <2>3, <2>5 DEF ToldOf
  <2> QED
    BY <1>2, <2>1, <2>5, <2>6 DEF StoreInv
<1>10. ASSUME NEW meta \in BOOLEAN, FinishLoading(meta)
       PROVE  StoreInv'
  <2>1. /\ live = "loading" /\ live' = IF meta THEN "down" ELSE "off"
        /\ mapNodes' = IF snapshot = NotAsked THEN mapNodes
                       ELSE IF meta THEN PruneMapNodes(snapshot.nodes) ELSE snapshot.nodes
        /\ missed' = IF snapshot = NotAsked THEN StoreNodes ELSE missed
        /\ pruneIn' = IF meta THEN 0 ELSE pruneIn
        /\ snapshot' = NotAsked /\ UNCHANGED <<reported, summaries>>
    BY <1>10 DEF FinishLoading
  <2>2. pruneIn' \in 0..PruneEvery /\ (live' \in {"up", "down"} => pruneIn' = 0)
    BY <1>2, <1>3, <2>1
  <2>3. CASE snapshot = NotAsked
    BY <1>2, <2>1, <2>2, <2>3 DEF StoreInv, ToldOf
  <2>4. CASE snapshot # NotAsked
    <3>1. ToldOf(snapshot.nodes) /\ snapshot.nodes \in [StoreNodes -> MapNode]
      BY <1>2, <2>4
    <3>2. CASE ~meta
      BY <1>2, <2>1, <2>2, <2>4, <3>1, <3>2 DEF StoreInv
    <3>3. CASE meta
      <4>1. mapNodes' = PruneMapNodes(snapshot.nodes) /\ missed' = missed /\ live' = "down"
        BY <2>1, <2>4, <3>3
      <4>2. \A id \in StoreNodes : IsRecent(snapshot.nodes[id].pos, PositionMaxAge)
                                      => mapNodes'[id].pos = snapshot.nodes[id].pos
        BY <3>1, <4>1, PruningKeeps
      <4>3. mapNodes' \in [StoreNodes -> MapNode]
        <5>1. CASE StoreNodes = {}
          BY <4>1, <5>1 DEF PruneMapNodes
        <5>2. CASE StoreNodes # {}
          BY <3>1, <4>1, <5>2, PruningKeeps
        <5> QED
          BY <5>1, <5>2
      <4>4. ToldOf(mapNodes)'
        BY <2>1, <3>1, <4>1, <4>2 DEF ToldOf
      <4> QED
        BY <1>2, <2>1, <2>2, <3>3, <4>3, <4>4 DEF StoreInv
    <3> QED
      BY <3>2, <3>3
  <2> QED
    BY <2>3, <2>4
<1>11. CASE LoadSummaries
  <2>1. PICK answer \in [StoreNodes -> Ages] :
           /\ answer = [id \in StoreNodes |-> reported[id].pos]
           /\ summaries' = IF live \in {"up", "down"} THEN PruneSummaries(answer) ELSE answer
           /\ UNCHANGED <<reported, snapshot, live, mapNodes, pruneIn, missed>>
    BY <1>4, <1>11 DEF LoadSummaries
  <2>2. summaries' \in [StoreNodes -> Ages]
    <3>1. CASE StoreNodes = {}
      BY <2>1, <3>1 DEF PruneSummaries
    <3>2. CASE StoreNodes # {}
      BY <2>1, <3>2, PruningTheList
    <3> QED
      BY <3>1, <3>2
  <2>3. ASSUME live \in {"up", "down"}, pruneIn > 0
        PROVE  Outdated(mapNodes, summaries, PruneEvery - pruneIn)'
    <3>1. Outdated(mapNodes, summaries, PruneEvery - pruneIn) /\ PruneEvery - pruneIn \in Nat
      BY <1>1, <1>2, <1>3, <2>3 DEF StoreInv
    <3>2. \A id \in StoreNodes : summaries'[id] <= PositionMaxAge /\ summaries'[id] \in Int
      BY <2>1, <2>3, PruningTheList DEF Ages
    <3>3. \A id \in StoreNodes : summaries'[id] <= PositionMaxAge + (PruneEvery - pruneIn)
      BY <1>3, <3>1, <3>2
    <3> QED
      BY <2>1, <3>1, <3>3 DEF Outdated
  <2>4. /\ live' \in {"up", "down"} => ToldOf(mapNodes)'
        /\ snapshot' # NotAsked => ToldOf(snapshot.nodes)'
    BY <1>1, <1>2, <2>1 DEF StoreInv, ToldOf
  <2> QED
    BY <1>2, <2>1, <2>2, <2>3, <2>4 DEF StoreInv
<1>12. CASE Connect \/ Disconnect
  <2>1. /\ live \in {"up", "down"} /\ live' \in {"up", "down"}
        /\ UNCHANGED <<reported, snapshot, mapNodes, summaries, pruneIn, missed>>
    BY <1>12 DEF Connect, Disconnect
  <2>2. /\ ToldOf(mapNodes)' /\ snapshot' = NotAsked
        /\ pruneIn' > 0 => Outdated(mapNodes, summaries, PruneEvery - pruneIn)'
    BY <1>1, <2>1 DEF StoreInv, ToldOf, Outdated
  <2> QED
    BY <1>2, <2>1, <2>2 DEF StoreInv
<1>13. CASE ApplyRelevance
  <2>1. /\ mapNodes' = PruneMapNodes(mapNodes) /\ summaries' = PruneSummaries(summaries)
        /\ pruneIn' = PruneEvery /\ live \in {"up", "down"}
        /\ UNCHANGED <<reported, snapshot, live, missed>>
    BY <1>13 DEF ApplyRelevance
  <2>2. /\ mapNodes' \in [StoreNodes -> MapNode] /\ summaries' \in [StoreNodes -> Ages]
    <3>1. CASE StoreNodes = {}
      BY <1>2, <2>1, <3>1 DEF PruneMapNodes, PruneSummaries
    <3>2. CASE StoreNodes # {}
      BY <1>2, <2>1, <3>2, PruningKeeps, PruningTheList
    <3> QED
      BY <3>1, <3>2
  <2>3. /\ \A id \in StoreNodes : /\ mapNodes'[id].pos <= PositionMaxAge
                                  /\ mapNodes'[id].tel <= TelemetryMaxAge
                                  /\ summaries'[id] <= PositionMaxAge
                                  /\ IsRecent(mapNodes[id].pos, PositionMaxAge)
                                        => mapNodes'[id].pos = mapNodes[id].pos
    BY <1>2, <2>1, PruningKeeps, PruningTheList
  <2>4. ToldOf(mapNodes)'
    BY <1>1, <2>1, <2>3 DEF StoreInv, ToldOf
  <2>5. Outdated(mapNodes, summaries, PruneEvery - pruneIn)'
    BY <1>3, <2>1, <2>3 DEF Outdated
  <2>6. snapshot' # NotAsked => ToldOf(snapshot.nodes)'
    BY <1>2, <2>1 DEF ToldOf
  <2> QED
    BY <1>2, <1>3, <2>1, <2>2, <2>4, <2>5, <2>6 DEF StoreInv
<1>14. CASE TimePasses
  BY <1>1, <1>14, TicksKeep
<1> QED
  BY <1>1, <1>5, <1>6, <1>7, <1>8, <1>9, <1>10, <1>11, <1>12, <1>13, <1>14 DEF StoreNext

\* Whichever answer or event comes late or not at all, whenever the page opens the list, and
\* for any ages the server considers relevant.
THEOREM NodesAreCurrent == StoreSpec => []NodesCurrent
BY StoreStarts, StoreGoesOn, StoreTold, PTL DEF StoreSpec

----------------------------------------------------------------------------
(* The details of the selected node.  What is shown is of the node the     *)
(* effects last ran with, but for the details that came since: those make  *)
(* the effects due.  A node the server does not know is asked for as the   *)
(* selected one only, and its request is aborted with the selection.       *)

DetailsNodes == Listed \cup {NoId}
NodeRequests == [state : {"none", "sent", "aborted"}, owner : {"none", "details", "hover"},
                 selected : DetailsNodes]

DetailsInv ==
    /\ selectedNode \in DetailsNodes /\ hovered \in Known \cup {NoId}
    /\ detailsRequests \in [Listed -> NodeRequests]
    /\ \A id \in Listed \ Known : detailsRequests[id].state = "sent" =>
           detailsRequests[id].owner = "details" /\ id = seenState.selected
    /\ ~cacheChanged => details.id \in {NoId, seenState.selected}
    /\ detailsError \in {NoId, seenState.selected}
    /\ nodeLog \in [of : DetailsNodes, loading : BOOLEAN]
    /\ nodeLog.of \in {NoId, seenState.selected} \/ nodeLog.loading
    /\ logRequest \in {NoId, seenState.selected} /\ seenState.selected \in DetailsNodes
    /\ nodeLog.loading <=> logRequest # NoId
    /\ seenState.booted => bootstrapDone
    /\ ~seenState.booted => ~nodeLog.loading /\ nodeLog.of = NoId

LEMMA DetailsTold == DetailsInv => ShowsSelected
<1>1. SUFFICES ASSUME DetailsInv, DetailsQuiet PROVE ShowsSelected
  BY DEF ShowsSelected
<1>2. seenState.selected = selectedNode /\ ~cacheChanged
  BY <1>1 DEF DetailsQuiet, DetailsState
<1> QED
  BY <1>1, <1>2 DEF DetailsInv, ShowsSelected

LEMMA DetailsStart == DetailsInit => DetailsInv
<1>1. SUFFICES ASSUME DetailsInit PROVE DetailsInv
  OBVIOUS
<1>2. /\ selectedNode \in DetailsNodes /\ hovered = NoId /\ cacheChanged
      /\ ~bootstrapDone /\ detailsError = NoId /\ logRequest = NoId
  BY <1>1, DetailsAssumption DEF DetailsInit, DetailsNodes
<1>3. NoDetailsRequest \in NodeRequests /\ NoDetailsRequest.state = "none"
  BY DEF NoDetailsRequest, NodeRequests, DetailsNodes
<1>4. /\ detailsRequests \in [Listed -> NodeRequests]
      /\ \A id \in Listed : detailsRequests[id].state = "none"
  BY <1>1, <1>3 DEF DetailsInit
<1>5. nodeLog \in [of : DetailsNodes, loading : BOOLEAN] /\ nodeLog.of = NoId /\ ~nodeLog.loading
  BY <1>1 DEF DetailsInit, DetailsNodes
<1>6. seenState.selected = NoId /\ (seenState.booted <=> bootstrapDone)
  BY <1>1 DEF DetailsInit, DetailsState
<1> QED
  BY <1>2, <1>4, <1>5, <1>6 DEF DetailsInv, DetailsNodes

LEMMA RefreshIsTyped ==
    ASSUME NEW reqs \in [Listed -> NodeRequests], NEW id \in Listed, NEW owner \in {"details", "hover"},
           selectedNode \in DetailsNodes
    PROVE  /\ RefreshNodeDetails(reqs, id, owner) \in [Listed -> NodeRequests]
           /\ \A other \in Listed : other # id => RefreshNodeDetails(reqs, id, owner)[other] = reqs[other]
           /\ \/ RefreshNodeDetails(reqs, id, owner)[id] = reqs[id]
              \/ RefreshNodeDetails(reqs, id, owner)[id].owner = owner
<1>1. PICK new \in NodeRequests : new = [state |-> "sent", owner |-> owner, selected |-> selectedNode]
  BY DEF NodeRequests
<1>2. new.owner = owner
  BY <1>1
<1>3. RefreshNodeDetails(reqs, id, owner)
         = [reqs EXCEPT ![id] = IF reqs[id].state = "none" THEN new ELSE reqs[id]]
  BY <1>1 DEF RefreshNodeDetails
<1> QED
  BY <1>1, <1>2, <1>3

\* Cleaning up aborts what an effect that is due had asked for.
LEMMA AbortedIsTyped ==
    ASSUME detailsRequests \in [Listed -> NodeRequests]
    PROVE  /\ Aborted \in [Listed -> NodeRequests]
           /\ \A id \in Listed : Aborted[id].state = "sent" =>
                  /\ Aborted[id] = detailsRequests[id]
                  /\ detailsRequests[id].owner = "details" => ~DetailsDue
<1>1. ASSUME NEW id \in Listed
      PROVE  /\ Aborted[id] \in NodeRequests
             /\ Aborted[id].state = "sent" =>
                  /\ Aborted[id] = detailsRequests[id]
                  /\ detailsRequests[id].owner = "details" => ~DetailsDue
  <2>1. PICK r \in NodeRequests : r = detailsRequests[id]
    OBVIOUS
  <2>2. PICK over \in NodeRequests : over = [r EXCEPT !.state = "aborted"]
    BY DEF NodeRequests
  <2>3. over.state # "sent"
    BY <2>2 DEF NodeRequests
  <2>4. Aborted[id] = IF /\ detailsRequests[id].state = "sent"
                         /\ (detailsRequests[id].owner = "hover" => HoverDue)
                         /\ (detailsRequests[id].owner = "details" => DetailsDue)
                      THEN over ELSE detailsRequests[id]
    BY <2>1, <2>2 DEF Aborted
  <2> QED
    BY <2>1, <2>2, <2>3, <2>4
<1>2. Aborted \in [Listed -> NodeRequests]
  BY <1>1 DEF Aborted
<1> QED
  BY <1>1, <1>2

LEMMA DetailsEffectsKeep == DetailsInv /\ RunDetailsEffects => DetailsInv'
<1>1. SUFFICES ASSUME DetailsInv, RunDetailsEffects PROVE DetailsInv'
  OBVIOUS
<1>2. /\ selectedNode \in DetailsNodes /\ hovered \in Known \cup {NoId}
      /\ detailsRequests \in [Listed -> NodeRequests] /\ seenState.selected \in DetailsNodes
      /\ NoId \notin Listed /\ Known \subseteq Listed
  BY <1>1, DetailsAssumption DEF DetailsInv
<1>3. /\ seenState'.selected = selectedNode /\ (seenState'.booted <=> bootstrapDone)
      /\ cacheChanged' = (metaLoaded /\ ~seenState.meta)
      /\ UNCHANGED <<selectedNode, hovered, metaLoaded, bootstrapDone, cache>>
      /\ RunLogEffect
      /\ IF DetailsDue THEN details' = CachedDetails /\ detailsError' = NoId
         ELSE UNCHANGED <<details, detailsError>>
  BY <1>1 DEF RunDetailsEffects, DetailsState, inputs, shownDetails
\* the requests: the newest is for the selected node
<1>4. PICK asked, due, hover :
         /\ due = (DetailsDue /\ selectedNode # NoId /\ ~IsFresh(selectedNode))
         /\ hover = (HoverDue /\ hovered # NoId /\ ~IsFresh(hovered))
         /\ asked = IF due THEN RefreshNodeDetails(Aborted, selectedNode, "details") ELSE Aborted
         /\ detailsRequests' = IF hover THEN RefreshNodeDetails(asked, hovered, "hover") ELSE asked
  BY <1>1 DEF RunDetailsEffects
<1>5. /\ Aborted \in [Listed -> NodeRequests]
      /\ \A id \in Listed \ Known : Aborted[id].state = "sent" =>
             Aborted[id].owner = "details" /\ id = selectedNode
  <2>1. ~DetailsDue => seenState.selected = selectedNode
    BY DEF DetailsDue
  <2> QED
    BY <1>1, <1>2, <2>1, AbortedIsTyped DEF DetailsInv
<1>6. /\ asked \in [Listed -> NodeRequests]
      /\ \A id \in Listed \ Known : asked[id].state = "sent" =>
             asked[id].owner = "details" /\ id = selectedNode
  <2>1. CASE due
    <3>1. selectedNode \in Listed /\ asked = RefreshNodeDetails(Aborted, selectedNode, "details")
      BY <1>2, <1>4, <2>1 DEF DetailsNodes
    <3> QED
      BY <1>2, <1>5, <3>1, RefreshIsTyped
  <2>2. CASE ~due
    BY <1>4, <1>5, <2>2
  <2> QED
    BY <2>1, <2>2
<1>7. /\ detailsRequests' \in [Listed -> NodeRequests]
      /\ \A id \in Listed \ Known : detailsRequests'[id].state = "sent" =>
             detailsRequests'[id].owner = "details" /\ id = selectedNode
  <2>1. CASE hover
    <3>1. /\ hovered \in Known /\ hovered \in Listed
          /\ detailsRequests' = RefreshNodeDetails(asked, hovered, "hover")
      BY <1>2, <1>4, <2>1
    <3> QED
      BY <1>2, <1>6, <3>1, RefreshIsTyped
  <2>2. CASE ~hover
    BY <1>4, <1>6, <2>2
  <2> QED
    BY <2>1, <2>2
<1>8. /\ ~cacheChanged' => details'.id \in {NoId, selectedNode}
      /\ detailsError' \in {NoId, selectedNode}
  <2>1. CASE DetailsDue
    <3>1. CachedDetails.id \in {NoId, selectedNode}
      BY DEF CachedDetails, NoDetails
    <3> QED
      BY <1>3, <2>1, <3>1
  <2>2. CASE ~DetailsDue
    <3>1. seenState.selected = selectedNode /\ ~cacheChanged
      BY <2>2 DEF DetailsDue
    <3> QED
      BY <1>1, <1>3, <2>2, <3>1 DEF DetailsInv
  <2> QED
    BY <2>1, <2>2
<1>9. /\ nodeLog' \in [of : DetailsNodes, loading : BOOLEAN]
      /\ nodeLog'.of \in {NoId, selectedNode} \/ nodeLog'.loading
      /\ logRequest' \in {NoId, selectedNode}
      /\ nodeLog'.loading <=> logRequest' # NoId
      /\ ~bootstrapDone => ~nodeLog'.loading /\ nodeLog'.of = NoId
  <2>1. /\ nodeLog \in [of : DetailsNodes, loading : BOOLEAN]
        /\ nodeLog.of \in {NoId, seenState.selected} \/ nodeLog.loading
        /\ logRequest \in {NoId, seenState.selected}
        /\ nodeLog.loading <=> logRequest # NoId
        /\ seenState.booted => bootstrapDone
        /\ ~seenState.booted => ~nodeLog.loading /\ nodeLog.of = NoId
    BY <1>1 DEF DetailsInv
  <2>2. CASE ~LogDue
    <3>1. nodeLog' = nodeLog /\ logRequest' = logRequest
      BY <1>3, <2>2 DEF RunLogEffect, logVars
    <3>2. seenState.selected = selectedNode /\ (seenState.booted <=> bootstrapDone)
      BY <2>2 DEF LogDue
    <3> QED
      BY <2>1, <3>1, <3>2
  <2>3. CASE LogDue /\ selectedNode = NoId
    <3>1. nodeLog' = [of |-> NoId, loading |-> FALSE] /\ logRequest' = NoId
      BY <1>3, <2>3 DEF RunLogEffect
    <3>2. nodeLog' \in [of : DetailsNodes, loading : BOOLEAN] /\ nodeLog'.of = NoId /\ ~nodeLog'.loading
      BY <3>1 DEF DetailsNodes
    <3> QED
      BY <3>1, <3>2
  <2>4. CASE LogDue /\ selectedNode # NoId /\ ~bootstrapDone
    <3>1. nodeLog' = nodeLog /\ logRequest' = NoId
      BY <1>3, <2>4 DEF RunLogEffect
    <3> QED
      BY <2>1, <2>4, <3>1
  <2>5. CASE LogDue /\ selectedNode # NoId /\ bootstrapDone
    <3>1. nodeLog' = [nodeLog EXCEPT !.loading = TRUE] /\ logRequest' = selectedNode
      BY <1>3, <2>5 DEF RunLogEffect
    <3>2. nodeLog' \in [of : DetailsNodes, loading : BOOLEAN]
      BY <2>1, <3>1
    <3>3. nodeLog'.loading
      BY <2>1, <3>1
    <3> QED
      BY <2>5, <3>1, <3>2, <3>3
  <2> QED
    BY <2>2, <2>3, <2>4, <2>5
<1> QED
  BY <1>2, <1>3, <1>7, <1>8, <1>9 DEF DetailsInv

LEMMA DetailsGoOn == DetailsInv /\ [DetailsNext]_detailsVars => DetailsInv'
<1>1. SUFFICES ASSUME DetailsInv, [DetailsNext]_detailsVars PROVE DetailsInv'
  OBVIOUS
<1>2. /\ detailsRequests \in [Listed -> NodeRequests] /\ NoId \notin Listed
      /\ Known \subseteq Listed /\ Selectable \subseteq Listed /\ Hoverable \subseteq Known
  BY <1>1, DetailsAssumption DEF DetailsInv
<1>3. CASE UNCHANGED detailsVars
  BY <1>1, <1>3 DEF detailsVars, inputs, cacheVars, shownDetails, logVars, DetailsInv
<1>4. CASE RunDetailsEffects
  BY <1>1, <1>4, DetailsEffectsKeep
\* a request that is over is no more in the map
<1>5. ASSUME NEW id \in Listed, detailsRequests' = [detailsRequests EXCEPT ![id] = NoDetailsRequest]
      PROVE  /\ detailsRequests' \in [Listed -> NodeRequests]
             /\ \A other \in Listed : detailsRequests'[other].state = "sent" =>
                                         detailsRequests'[other] = detailsRequests[other]
  <2>1. NoDetailsRequest \in NodeRequests /\ NoDetailsRequest.state # "sent"
    BY DEF NoDetailsRequest, NodeRequests, DetailsNodes
  <2> QED
    BY <1>2, <1>5, <2>1
<1>6. ASSUME NEW id \in Listed, Reject(id) \/ Fail(id)
      PROVE  DetailsInv'
  <2>1. /\ detailsRequests' = [detailsRequests EXCEPT ![id] = NoDetailsRequest]
        /\ UNCHANGED <<selectedNode, hovered, metaLoaded, bootstrapDone, cache, cacheChanged, details,
                       detailsError, nodeLog, logRequest, seenState>>
    BY <1>6 DEF Reject, Fail, inputs, cacheVars, shownDetails, logVars
  <2> QED
    BY <1>1, <1>5, <2>1 DEF DetailsInv
<1>7. ASSUME NEW id \in Listed, Deliver(id)
      PROVE  DetailsInv'
  <2>1. /\ detailsRequests' = [detailsRequests EXCEPT ![id] = NoDetailsRequest] /\ cacheChanged'
        /\ detailsError' \in {NoId, detailsError}
        /\ UNCHANGED <<selectedNode, hovered, metaLoaded, bootstrapDone, nodeLog, logRequest, seenState>>
    BY <1>7 DEF Deliver, inputs, shownDetails, logVars
  <2> QED
    BY <1>1, <1>5, <2>1 DEF DetailsInv
<1>8. ASSUME NEW id \in Listed, NotFound(id)
      PROVE  DetailsInv'
  <2>1. /\ detailsRequests' = [detailsRequests EXCEPT ![id] = NoDetailsRequest]
        /\ id \in Listed \ Known /\ detailsRequests[id].state = "sent" /\ detailsError' = id
        /\ UNCHANGED <<selectedNode, hovered, metaLoaded, bootstrapDone, cache, cacheChanged, details,
                       nodeLog, logRequest, seenState>>
    BY <1>8 DEF NotFound, inputs, cacheVars, logVars
  <2>2. id = seenState.selected
    BY <1>1, <2>1 DEF DetailsInv
  <2> QED
    BY <1>1, <1>5, <2>1, <2>2 DEF DetailsInv
<1>9. CASE AnswerLog
  <2>1. /\ logRequest # NoId /\ logRequest' = NoId
        /\ nodeLog' \in {[of |-> logRequest, loading |-> FALSE], [of |-> NoId, loading |-> FALSE]}
        /\ UNCHANGED <<selectedNode, hovered, metaLoaded, bootstrapDone, cache, cacheChanged, details,
                       detailsError, detailsRequests, seenState>>
    BY <1>9 DEF AnswerLog, inputs, cacheVars, shownDetails
  <2>2. logRequest = seenState.selected /\ logRequest \in DetailsNodes /\ nodeLog.loading
    BY <1>1, <2>1 DEF DetailsInv
  <2>3. PICK of \in {NoId, seenState.selected} : nodeLog' = [of |-> of, loading |-> FALSE]
    BY <2>1, <2>2
  <2>4. /\ nodeLog' \in [of : DetailsNodes, loading : BOOLEAN]
        /\ nodeLog'.of \in {NoId, seenState.selected} /\ ~nodeLog'.loading
    BY <2>2, <2>3 DEF DetailsNodes
  <2>5. seenState.booted
    BY <1>1, <2>2 DEF DetailsInv
  <2> QED
    BY <1>1, <2>1, <2>4, <2>5 DEF DetailsInv
<1>10. ASSUME NEW id \in Selectable \cup {NoId}, SelectNode(id)
       PROVE  DetailsInv'
  <2>1. /\ selectedNode' = id /\ id \in DetailsNodes
        /\ UNCHANGED <<hovered, metaLoaded, bootstrapDone, cache, cacheChanged, details,
                       detailsError, detailsRequests, nodeLog, logRequest, seenState>>
    BY <1>2, <1>10 DEF SelectNode, RestOfDetails, shownDetails, logVars, DetailsNodes
  <2> QED
    BY <1>1, <2>1 DEF DetailsInv
<1>11. ASSUME NEW id \in Hoverable \cup {NoId}, HoverNode(id)
       PROVE  DetailsInv'
  <2>1. /\ hovered' = id /\ id \in Known \cup {NoId}
        /\ UNCHANGED <<selectedNode, metaLoaded, bootstrapDone, cache, cacheChanged, details,
                       detailsError, detailsRequests, nodeLog, logRequest, seenState>>
    BY <1>2, <1>11 DEF HoverNode, RestOfDetails, shownDetails, logVars
  <2> QED
    BY <1>1, <2>1 DEF DetailsInv
<1>12. CASE FinishBootstrap
  <2>1. /\ bootstrapDone'
        /\ UNCHANGED <<selectedNode, hovered, cache, cacheChanged, details,
                       detailsError, detailsRequests, nodeLog, logRequest, seenState>>
    BY <1>12 DEF FinishBootstrap, cacheVars, shownDetails, logVars
  <2> QED
    BY <1>1, <2>1 DEF DetailsInv
<1>13. CASE DetailsTick \/ Expire
  <2>1. /\ cacheChanged' \/ (cacheChanged' <=> cacheChanged)
        /\ UNCHANGED <<selectedNode, hovered, metaLoaded, bootstrapDone, details,
                       detailsError, detailsRequests, nodeLog, logRequest, seenState>>
    BY <1>13 DEF DetailsTick, Expire, RestOfDetails, inputs, shownDetails, logVars
  <2> QED
    BY <1>1, <2>1 DEF DetailsInv
<1> QED
  BY <1>1, <1>3, <1>4, <1>6, <1>7, <1>8, <1>9, <1>10, <1>11, <1>12, <1>13 DEF DetailsNext

\* Whatever is selected, pointed at, loaded, aborted, handed out again and gone from the
\* cache, for any neighbours and a cache of any size.
THEOREM DetailsAreOfTheSelected == DetailsSpec => []ShowsSelected
BY DetailsStart, DetailsGoOn, DetailsTold, PTL DEF DetailsSpec

----------------------------------------------------------------------------
(* The page of statistics.  A timer that runs was started with the answer  *)
(* that is shown, so what it has left and the age of the answer add up to  *)
(* no more than the delay there was; for the activity that delay ends with *)
(* the first of the buckets, or is a second long.                          *)

\* A set of numbers has a least one.
LEMMA LeastExists ==
    ASSUME NEW S \in SUBSET Nat, S # {}
    PROVE  Min(S) \in S /\ \A y \in S : Min(S) <= y
<1> DEFINE R == OpToRel(<, Nat)
<1>1. IsWellFoundedOn(R, Nat)
  BY NatLessThanWellFounded
<1>2. \E x \in S : \A y \in S : ~(<<y, x>> \in R)
  <2> HIDE DEF R
  <2> QED
    BY <1>1, WFMin
<1>3. PICK x \in S : \A y \in S : ~(<<y, x>> \in R)
  BY <1>2
<1>4. \A y \in S : <<y, x>> \in Nat \X Nat /\ <<y, x>>[1] = y /\ <<y, x>>[2] = x
  OBVIOUS
<1>5. \A y \in S : ~(y < x)
  BY <1>3, <1>4 DEF OpToRel
<1>6. \E m \in S : \A y \in S : m <= y
  BY <1>5
<1> QED
  BY <1>6 DEF Min

LEMMA LargerOfTwo ==
    ASSUME NEW a \in Int, NEW b \in Int
    PROVE  Max({a, b}) = IF a <= b THEN b ELSE a
<1>1. \E m \in {a, b} : \A y \in {a, b} : y <= m
  OBVIOUS
<1>2. Max({a, b}) \in {a, b} /\ a <= Max({a, b}) /\ b <= Max({a, b})
  BY <1>1 DEF Max
<1> QED
  BY <1>2

LEMMA SmallerOfTwo ==
    ASSUME NEW a \in Int, NEW b \in Int
    PROVE  Min({a, b}) = IF a <= b THEN a ELSE b
<1>1. \E m \in {a, b} : \A y \in {a, b} : m <= y
  OBVIOUS
<1>2. Min({a, b}) \in {a, b} /\ Min({a, b}) <= a /\ Min({a, b}) <= b
  BY <1>1 DEF Min
<1> QED
  BY <1>2

\* The bucket goes on, until it is complete.
LEMMA BucketBounds ==
    ASSUME NEW t \in Nat, NEW b \in Nat \ {0}
    PROVE  /\ t \div b \in Nat
           /\ SinceBoundary(t, b) \in 0..b - 1
           /\ t = (t \div b) * b + SinceBoundary(t, b)
BY DEF SinceBoundary

LEMMA OneQuotient ==
    ASSUME NEW b \in Nat \ {0}, NEW q \in Int, NEW p \in Int, NEW r \in 0..b - 1, NEW s \in 0..b - 1,
           q * b + r = p * b + s
    PROVE  q = p /\ r = s
<1>1. CASE q >= p + 1
  <2>1. q * b >= (p + 1) * b
    BY <1>1
  <2> QED
    BY <2>1
<1>2. CASE p >= q + 1
  <2>1. p * b >= (q + 1) * b
    BY <1>2
  <2> QED
    BY <2>1
<1> QED
  BY <1>1, <1>2

LEMMA BucketGoesOn ==
    ASSUME NEW t \in Nat, NEW b \in Nat \ {0}
    PROVE  SinceBoundary(t + 1, b) = IF SinceBoundary(t, b) + 1 = b THEN 0 ELSE SinceBoundary(t, b) + 1
<1>1. PICK q \in Nat, r \in 0..b - 1 : t = q * b + r /\ SinceBoundary(t, b) = r
  BY BucketBounds
<1>2. PICK p \in Nat, s \in 0..b - 1 : t + 1 = p * b + s /\ SinceBoundary(t + 1, b) = s
  <2>1. t + 1 \in Nat
    OBVIOUS
  <2> QED
    BY <2>1, BucketBounds
<1>3. CASE r + 1 = b
  <2>1. p * b + s = (q + 1) * b + 0 /\ 0 \in 0..b - 1 /\ q + 1 \in Int
    BY <1>1, <1>2, <1>3
  <2>2. s = 0
    BY <2>1, OneQuotient
  <2> QED
    BY <1>1, <1>2, <1>3, <2>2
<1>4. CASE r + 1 # b
  <2>1. p * b + s = q * b + (r + 1) /\ r + 1 \in 0..b - 1
    BY <1>1, <1>2, <1>4
  <2>2. s = r + 1
    BY <2>1, OneQuotient
  <2> QED
    BY <1>1, <1>2, <1>4, <2>2
<1> QED
  BY <1>3, <1>4
\* With the clock starting again at Cycle, too.
LEMMA BucketTicks ==
    ASSUME NEW t \in 0..Cycle - 1, NEW b \in Buckets
    PROVE  SinceBoundary(IF t + 1 = Cycle THEN 0 ELSE t + 1, b)
              = IF SinceBoundary(t, b) + 1 = b THEN 0 ELSE SinceBoundary(t, b) + 1
<1>1. b \in Nat \ {0} /\ t \in Nat /\ Cycle \in Nat
  BY StatsPageAssumption
<1>2. CASE t + 1 # Cycle
  BY <1>1, <1>2, BucketGoesOn
<1>3. CASE t + 1 = Cycle
  <2>1. SinceBoundary(t + 1, b) = 0
    BY <1>3, StatsPageAssumption DEF SinceBoundary
  <2>2. SinceBoundary(t, b) \in 0..b - 1
    BY <1>1, BucketBounds
  <2>3. SinceBoundary(t, b) + 1 = b
    BY <1>1, <2>1, <2>2, BucketGoesOn
  <2>4. 0 \in 0..b - 1 /\ 0 = 0 * b + 0 /\ 0 \in Nat
    BY <1>1
  <2>5. SinceBoundary(0, b) = 0
    BY <1>1, <2>4, BucketBounds, OneQuotient
  <2> QED
    BY <1>3, <2>3, <2>5
<1> QED
  BY <1>2, <1>3

LEMMA DelaysAre ==
    /\ \A f \in Feeds : FeedDelay(f) \in Nat
    /\ clock \in 0..Cycle - 1 =>
          /\ FeedDelay("activity") \in Nat
          /\ \A b \in Buckets :
                \/ FeedDelay("activity") <= BoundaryFloor
                \/ FeedDelay("activity") <= b - SinceBoundary(clock, b)
<1>1. /\ BoundaryFloor \in Nat /\ PollFloor \in Nat /\ DefaultTTL \in Nat /\ "activity" \notin Feeds
      /\ \A f \in Feeds : TTL[f] \in Nat
  BY StatsPageAssumption
<1>2. ASSUME NEW f \in Feeds PROVE FeedDelay(f) \in Nat
  BY <1>1, LargerOfTwo DEF FeedDelay, PollDelaySeconds
<1>3. ASSUME clock \in 0..Cycle - 1
      PROVE  /\ FeedDelay("activity") \in Nat
             /\ \A b \in Buckets :
                   \/ FeedDelay("activity") <= BoundaryFloor
                   \/ FeedDelay("activity") <= b - SinceBoundary(clock, b)
  <2>1. \A b \in Buckets : /\ b \in Nat \ {0} /\ SinceBoundary(clock, b) \in 0..b - 1
    <3>1. clock \in Nat /\ \A b \in Buckets : b \in Nat \ {0}
      BY <1>3, StatsPageAssumption
    <3> QED
      BY <3>1, BucketBounds
  <2>2. \A b \in Buckets :
           /\ NextBoundaryDelay(clock, b) \in Nat
           /\ NextBoundaryDelay(clock, b) \in {BoundaryFloor, b - SinceBoundary(clock, b)}
    BY <1>1, <2>1, LargerOfTwo DEF NextBoundaryDelay
  <2> DEFINE delays == {NextBoundaryDelay(clock, b) : b \in Buckets}
  <2>3. delays \in SUBSET Nat /\ delays # {}
    BY <2>2, StatsPageAssumption
  <2>4. Min(delays) \in delays /\ \A d \in delays : Min(delays) <= d
    BY <2>3, LeastExists
  <2>5. FeedDelay("activity") = Min(delays)
    BY DEF FeedDelay, NextRefreshDelay
  <2>6. FeedDelay("activity") \in Nat
    BY <2>3, <2>4, <2>5
  <2>7. ASSUME NEW b \in Buckets
        PROVE  \/ FeedDelay("activity") <= BoundaryFloor
               \/ FeedDelay("activity") <= b - SinceBoundary(clock, b)
    <3>1. FeedDelay("activity") <= NextBoundaryDelay(clock, b)
      BY <2>4, <2>5
    <3> QED
      BY <3>1, <2>2
  <2> QED
    BY <2>6, <2>7
<1> QED
  BY <1>2, <1>3

\* The activity came after the last bucket was complete and is asked for as the next one
\* is, or within a second from when one was.
InTime(since, left, p, b) ==
    \/ since <= p /\ (left <= BoundaryFloor \/ left <= b - p)
    \/ p + left <= BoundaryFloor

StatsInv ==
    /\ clock \in 0..Cycle - 1
    /\ requestsOut \in [AllFeeds -> Nat]
    /\ timers \in [AllFeeds -> Int] /\ \A f \in AllFeeds : timers[f] >= -1
    /\ age \in [AllFeeds -> Int] /\ \A f \in AllFeeds : age[f] >= -1
    /\ cacheAge \in [Feeds -> Int]
    /\ loadError = "none" /\ ~Awaited("activity") => timers["activity"] > 0
    /\ timers["activity"] # NoTimer => age["activity"] # NotShown
    /\ timers["activity"] > 0 =>
          \A b \in Buckets : InTime(age["activity"], timers["activity"], SinceBoundary(clock, b), b)
    /\ \A f \in Feeds : timers[f] > 0 /\ age[f] # NotShown => age[f] + timers[f] <= TTL[f] + FeedDelay(f)

LEMMA StatsTold == StatsInv => StatsCurrent
<1>1. SUFFICES ASSUME StatsInv PROVE StatsCurrent
  OBVIOUS
<1>2. "activity" \in AllFeeds /\ Feeds \subseteq AllFeeds /\ BoundaryFloor \in Nat /\ Cycle \in Nat
  BY StatsPageAssumption DEF AllFeeds
<1>3. \A b \in Buckets : b \in Nat /\ SinceBoundary(clock, b) \in 0..b - 1
  <2>1. clock \in 0..Cycle - 1
    BY <1>1 DEF StatsInv
  <2>2. clock \in Nat /\ Buckets \subseteq Nat \ {0}
    BY <1>2, <2>1, StatsPageAssumption
  <2> QED
    BY <2>2, BucketBounds
<1>4. ASSUME loadError = "none", ~Awaited("activity"), NEW b \in Buckets
      PROVE  /\ age["activity"] # NotShown
             /\ \/ age["activity"] <= SinceBoundary(clock, b)
                \/ SinceBoundary(clock, b) < BoundaryFloor
  BY <1>1, <1>2, <1>3, <1>4 DEF StatsInv, InTime, NoTimer
<1>5. ASSUME NEW f \in Feeds, timers[f] > 0, age[f] # NotShown
      PROVE  age[f] <= TTL[f] + FeedDelay(f)
  <2>1. TTL[f] \in Nat /\ FeedDelay(f) \in Nat /\ age[f] \in Int /\ timers[f] \in Int
    BY <1>1, <1>2, DelaysAre, StatsPageAssumption DEF StatsInv
  <2> QED
    BY <1>1, <1>5, <2>1 DEF StatsInv
<1>6. \E b \in Buckets : TRUE
  BY StatsPageAssumption
<1> QED
  BY <1>4, <1>5, <1>6 DEF StatsCurrent

LEMMA StatsStart == StatsPageInit => StatsInv
<1>1. SUFFICES ASSUME StatsPageInit PROVE StatsInv
  OBVIOUS
<1>2. "activity" \in AllFeeds /\ Feeds \subseteq AllFeeds /\ "activity" \notin Feeds /\ DefaultTTL \in Nat
  BY StatsPageAssumption DEF AllFeeds
<1>3. /\ requestsOut \in [AllFeeds -> Nat] /\ requestsOut["activity"] = 1
      /\ timers \in [AllFeeds -> Int] /\ timers["activity"] = NoTimer
      /\ \A f \in AllFeeds : timers[f] >= -1
      /\ age \in [AllFeeds -> Int] /\ \A f \in AllFeeds : age[f] = NotShown
      /\ cacheAge \in [Feeds -> Int]
  BY <1>1, <1>2 DEF StatsPageInit, OpenPage, NoTimer, NotShown
<1> QED
  BY <1>1, <1>2, <1>3 DEF StatsPageInit, StatsInv, Awaited, NoTimer, NotShown

LEMMA StatsGoOn == StatsInv /\ [StatsPageNext]_statsVars => StatsInv'
<1>1. SUFFICES ASSUME StatsInv, [StatsPageNext]_statsVars PROVE StatsInv'
  OBVIOUS
<1>2. "activity" \in AllFeeds /\ Feeds \subseteq AllFeeds /\ "activity" \notin Feeds /\ "none" \notin AllFeeds
  BY StatsPageAssumption DEF AllFeeds
<1>3. /\ DefaultTTL \in Nat /\ BoundaryFloor \in Nat /\ MaxAge \in Nat /\ Cycle \in Nat \ {0}
      /\ \A f \in Feeds : TTL[f] \in Nat /\ FeedDelay(f) \in Nat /\ FeedDelay(f)' = FeedDelay(f)
  BY <1>2, DelaysAre, StatsPageAssumption DEF FeedDelay
<1>4. \A b \in Buckets : b \in Nat \ {0} /\ SinceBoundary(clock, b) \in 0..b - 1
  <2>1. clock \in Nat /\ \A b \in Buckets : b \in Nat \ {0}
    BY <1>1, <1>3, StatsPageAssumption DEF StatsInv
  <2> QED
    BY <2>1, BucketBounds
<1>5. ASSUME NEW f \in AllFeeds, AnswerFeed(f) PROVE StatsInv'
  <2>1. PICK old \in Nat :
           /\ ShowAnswer(f, old) /\ requestsOut[f] > 0 /\ clock' = clock
           /\ cacheAge' \in [Feeds -> Int]
           /\ f = "activity" => old = 0
           /\ f # "activity" => old <= TTL[f]
    <3>1. CASE f = "activity"
      BY <1>1, <1>5, <3>1 DEF AnswerFeed, StatsInv
    <3>2. CASE f # "activity"
      <4>1. f \in Feeds
        BY <1>5, <3>2 DEF AllFeeds
      <4>2. PICK old \in Nat : /\ old <= TTL[f]
                               /\ old = IF cacheAge[f] \in 0..TTL[f] - 1 THEN cacheAge[f] ELSE 0
        <5>1. CASE cacheAge[f] \in 0..TTL[f] - 1
          BY <5>1, <4>1, <1>3
        <5>2. CASE cacheAge[f] \notin 0..TTL[f] - 1
          BY <5>2, <4>1, <1>3
        <5> QED
          BY <5>1, <5>2
      <4>3. ShowAnswer(f, old) /\ cacheAge' = [cacheAge EXCEPT ![f] = old]
        BY <1>5, <3>2, <4>2 DEF AnswerFeed
      <4>4. cacheAge' \in [Feeds -> Int]
        BY <1>1, <4>3, <4>1 DEF StatsInv
      <4> QED
        BY <1>5, <3>2, <4>2, <4>3, <4>4 DEF AnswerFeed
    <3> QED
      BY <3>1, <3>2
  <2>2. FeedDelay(f) \in Nat
    BY <1>1, <1>3, DelaysAre DEF AllFeeds, StatsInv
  <2>3. /\ requestsOut' \in [AllFeeds -> Nat]
        /\ \A g \in AllFeeds : g # f => requestsOut'[g] = requestsOut[g]
    BY <1>1, <2>1 DEF ShowAnswer, StatsInv
  <2>4. /\ timers' \in [AllFeeds -> Int] /\ timers'[f] = FeedDelay(f)
        /\ \A g \in AllFeeds : timers'[g] >= -1
        /\ \A g \in AllFeeds : g # f => timers'[g] = timers[g]
    BY <1>1, <2>1, <2>2 DEF ShowAnswer, StatsInv
  <2>5. /\ age' \in [AllFeeds -> Int] /\ age'[f] = old
        /\ \A g \in AllFeeds : age'[g] >= -1
        /\ \A g \in AllFeeds : g # f => age'[g] = age[g]
    BY <1>1, <2>1 DEF ShowAnswer, StatsInv
  <2>6. \A g \in Feeds : timers'[g] > 0 /\ age'[g] # NotShown =>
           age'[g] + timers'[g] <= TTL[g] + FeedDelay(g)'
    <3>1. ASSUME NEW g \in Feeds, timers'[g] > 0, age'[g] # NotShown
          PROVE  age'[g] + timers'[g] <= TTL[g] + FeedDelay(g)
      <4>1. CASE g = f
        <5>1. old <= TTL[g] /\ TTL[g] \in Nat /\ FeedDelay(g) \in Nat
          BY <1>2, <1>3, <2>1, <3>1, <4>1
        <5> QED
          BY <5>1, <2>4, <2>5, <4>1
      <4>2. CASE g # f
        BY <1>1, <1>2, <2>4, <2>5, <3>1, <4>2 DEF StatsInv
      <4> QED
        BY <4>1, <4>2
    <3> QED
      BY <3>1, <1>3
  <2>7. CASE f = "activity"
    <3>1. \A b \in Buckets : timers'["activity"] > 0 =>
             InTime(age'["activity"], timers'["activity"], SinceBoundary(clock, b), b)
      <4>1. ASSUME NEW b \in Buckets
            PROVE  InTime(0, FeedDelay("activity"), SinceBoundary(clock, b), b)
        BY <1>1, <1>4, DelaysAre DEF StatsInv, InTime
      <4> QED
        BY <2>1, <2>4, <2>5, <2>7, <4>1
    <3>2. ~Awaited("activity")' => timers'["activity"] > 0
      BY <1>2, <2>2, <2>4, <2>7 DEF Awaited
    <3>3. age'["activity"] # NotShown
      BY <2>1, <2>5, <2>7 DEF NotShown
    <3> QED
      BY <1>1, <2>1, <2>3, <2>4, <2>5, <2>6, <3>1, <3>2, <3>3 DEF StatsInv
  <2>8. CASE f # "activity"
    <3>1. /\ timers'["activity"] = timers["activity"] /\ age'["activity"] = age["activity"]
          /\ requestsOut'["activity"] = requestsOut["activity"] /\ loadError' = loadError
      BY <1>2, <2>1, <2>3, <2>4, <2>5, <2>8 DEF ShowAnswer
    <3> QED
      BY <1>1, <2>1, <2>3, <2>4, <2>5, <2>6, <3>1 DEF StatsInv, Awaited
  <2> QED
    BY <2>7, <2>8
<1>6. ASSUME NEW f \in AllFeeds, FailFeed(f) PROVE StatsInv'
  BY <1>1, <1>2, <1>6 DEF FailFeed, StatsInv, FeedDelay
<1>7. ASSUME NEW f \in AllFeeds, Refresh(f) PROVE StatsInv'
  <2>1. /\ timers' \in [AllFeeds -> Int] /\ timers'[f] = NoTimer
        /\ \A g \in AllFeeds : g # f => timers'[g] = timers[g]
        /\ requestsOut' \in [AllFeeds -> Nat] /\ requestsOut'[f] > 0
        /\ \A g \in AllFeeds : g # f => requestsOut'[g] = requestsOut[g]
        /\ \A g \in AllFeeds : timers'[g] >= -1
        /\ UNCHANGED <<clock, age, cacheAge, loadError>>
    BY <1>1, <1>7 DEF Refresh, StatsInv, NoTimer
  <2>2. timers'[f] = -1
    BY <2>1 DEF NoTimer
  <2>3. \A g \in Feeds : timers'[g] > 0 /\ age'[g] # NotShown =>
           age'[g] + timers'[g] <= TTL[g] + FeedDelay(g)'
    BY <1>1, <1>2, <1>3, <2>1, <2>2 DEF StatsInv
  <2> QED
    BY <1>1, <1>2, <2>1, <2>2, <2>3 DEF StatsInv, Awaited
<1>8. CASE RetryAll
  <2>1. /\ requestsOut' \in [AllFeeds -> Nat] /\ \A g \in AllFeeds : requestsOut'[g] > 0
        /\ UNCHANGED <<clock, timers, age, cacheAge>>
    BY <1>1, <1>8 DEF RetryAll, StatsInv
  <2> QED
    BY <1>1, <1>2, <2>1 DEF StatsInv, Awaited, FeedDelay
<1>9. CASE ReopenPage
  <2>1. /\ requestsOut' \in [AllFeeds -> Nat] /\ requestsOut'["activity"] = 1
        /\ timers' \in [AllFeeds -> Int] /\ timers'["activity"] = NoTimer
        /\ \A f \in AllFeeds : timers'[f] >= -1
        /\ age' \in [AllFeeds -> Int] /\ \A f \in AllFeeds : age'[f] = NotShown
        /\ UNCHANGED <<clock, cacheAge>>
    BY <1>2, <1>3, <1>9 DEF ReopenPage, NoTimer, NotShown
  <2> QED
    BY <1>1, <1>2, <2>1 DEF StatsInv, Awaited, NoTimer, NotShown
<1>10. CASE ClockTick
  <2>1. /\ clock' = IF clock + 1 = Cycle THEN 0 ELSE clock + 1
        /\ \A f \in AllFeeds : timers[f] # 0
        /\ UNCHANGED <<requestsOut, loadError>>
    BY <1>10 DEF ClockTick
  <2>2. clock' \in 0..Cycle - 1
    BY <1>1, <1>3, <2>1 DEF StatsInv
  <2>3. /\ timers' \in [AllFeeds -> Int]
        /\ \A f \in AllFeeds : timers[f] = -1 => timers'[f] = -1
        /\ \A f \in AllFeeds : timers[f] # -1 => timers[f] > 0 /\ timers'[f] = timers[f] - 1
    BY <1>1, <1>10, <2>1 DEF ClockTick, StatsInv, NoTimer
  <2>4. ASSUME NEW n \in Int, n >= -1
        PROVE  /\ Older(n) \in Int /\ Older(n) >= -1 /\ Older(n) <= n + 1
               /\ Older(n) = -1 <=> n = -1
    <3>1. Min({n + 1, MaxAge}) = IF n + 1 <= MaxAge THEN n + 1 ELSE MaxAge
      BY <1>3, SmallerOfTwo
    <3> QED
      BY <1>3, <2>4, <3>1 DEF Older
  <2>5. /\ age' \in [AllFeeds -> Int]
        /\ \A f \in AllFeeds : age'[f] = Older(age[f])
    BY <1>1, <1>10, <2>4 DEF ClockTick, StatsInv
  <2>6. \A f \in AllFeeds : /\ age[f] \in Int /\ age'[f] >= -1 /\ age'[f] <= age[f] + 1
                            /\ age'[f] = -1 <=> age[f] = -1
    BY <1>1, <2>4, <2>5 DEF StatsInv
  <2>7. cacheAge' \in [Feeds -> Int]
    <3>1. \A n \in Int : Older(n) \in Int
      BY <1>3, SmallerOfTwo DEF Older
    <3> QED
      BY <1>1, <1>10, <3>1 DEF ClockTick, StatsInv
  <2>8. \A f \in Feeds : timers'[f] > 0 /\ age'[f] # NotShown =>
           age'[f] + timers'[f] <= TTL[f] + FeedDelay(f)'
    <3>1. ASSUME NEW f \in Feeds, timers'[f] > 0, age'[f] # NotShown
          PROVE  age'[f] + timers'[f] <= TTL[f] + FeedDelay(f)
      <4>1. f \in AllFeeds /\ age[f] \in Int /\ age'[f] \in Int /\ timers[f] \in Int /\ timers'[f] \in Int
        BY <1>1, <1>2, <2>3, <2>5 DEF StatsInv
      <4>2. timers[f] > 0 /\ timers'[f] = timers[f] - 1 /\ age[f] # NotShown /\ age'[f] <= age[f] + 1
        BY <2>3, <2>6, <3>1, <4>1 DEF NotShown
      <4>3. age[f] + timers[f] <= TTL[f] + FeedDelay(f)
        BY <1>1, <4>2 DEF StatsInv
      <4> QED
        BY <1>3, <4>1, <4>2, <4>3
    <3> QED
      BY <3>1, <1>3
  <2>9. ASSUME timers'["activity"] > 0, NEW b \in Buckets
        PROVE  InTime(age'["activity"], timers'["activity"], SinceBoundary(clock', b), b)
    <3>1. /\ age["activity"] \in Int /\ age'["activity"] \in Int
          /\ timers["activity"] \in Int /\ timers'["activity"] \in Int
      BY <1>1, <1>2, <2>3, <2>5 DEF StatsInv
    <3>2. /\ timers["activity"] > 0 /\ timers'["activity"] = timers["activity"] - 1
          /\ age'["activity"] <= age["activity"] + 1
      BY <1>2, <2>3, <2>6, <2>9
    <3>3. InTime(age["activity"], timers["activity"], SinceBoundary(clock, b), b)
      BY <1>1, <3>2 DEF StatsInv
    <3>4. SinceBoundary(clock', b)
             = IF SinceBoundary(clock, b) + 1 = b THEN 0 ELSE SinceBoundary(clock, b) + 1
      BY <1>1, <2>1, BucketTicks DEF StatsInv
    <3> QED
      BY <1>3, <1>4, <2>9, <3>1, <3>2, <3>3, <3>4 DEF InTime
  <2>10. loadError' = "none" /\ ~Awaited("activity")' => timers'["activity"] > 0
    <3>1. timers["activity"] \in Int /\ timers'["activity"] \in Int /\ timers["activity"] >= -1
      BY <1>1, <1>2, <2>3 DEF StatsInv
    <3> QED
      BY <1>1, <1>2, <2>1, <2>3, <3>1 DEF StatsInv, Awaited
  <2>11. timers'["activity"] # NoTimer => age'["activity"] # NotShown
    BY <1>1, <1>2, <2>3, <2>6 DEF StatsInv, NoTimer, NotShown
  <2>12. \A f \in AllFeeds : timers'[f] >= -1
    BY <1>1, <2>3 DEF StatsInv
  <2> QED
    BY <1>1, <2>1, <2>2, <2>3, <2>5, <2>6, <2>7, <2>8, <2>9, <2>10, <2>11, <2>12 DEF StatsInv
<1>11. CASE UNCHANGED statsVars
  BY <1>1, <1>11 DEF StatsInv, Awaited, FeedDelay, statsVars
<1> QED
  BY <1>1, <1>5, <1>6, <1>7, <1>8, <1>9, <1>10, <1>11 DEF StatsPageNext

\* For any buckets and feeds, however the requests overlap and whichever fail.
THEOREM DataAreCurrent == StatsPageSpec => []StatsCurrent
<1> QED
  BY StatsTold, StatsStart, StatsGoOn, PTL DEF StatsPageSpec

----------------------------------------------------------------------------
(* The URL.  A fragment that is written from the state tells all that is   *)
(* asked of it, because reading it gives back what was written, up to the  *)
(* decimals of the view; and a state that is read from a fragment is what  *)
(* the fragment says.  What a handler leaves alone is told before it and   *)
(* after.                                                                  *)

\* What a fragment s says of the state a.
Tells(a, s, list, over) ==
    /\ a.page = s.page
    /\ a.eventID = s.log.eventID
    /\ s.page = "map" =>
          /\ a.selected = s.map.node
          /\ a.panel = IF s.map.panel = "none" THEN "open" ELSE s.map.panel
          /\ s.map.view = NoView \/ over.view \/ Rounded(a.mapView) = Rounded(s.map.view)
          /\ s.map.chat = NoChannel \/ over.chat \/ Canonical(list, a.channel) = Canonical(list, s.map.chat)
    /\ s.page = "nodes" => a.selected = s.nodes.node /\ Trimmed(a.nodesFilter) = Trimmed(s.nodes.q)
    /\ s.page = "log" => LogFragment(a).log = s.log

AppFields == {"page", "selected", "focus", "nodesFilter", "eventID", "panel", "filters",
              "channel", "routes", "mapView"}

\* The state the URL is made of.
AppRight(a) ==
    /\ DOMAIN a = AppFields
    /\ a.page \in FragmentPages
    /\ a.mapView \in MapViews
    /\ a.panel \in {"open", "collapsed"}
    /\ a.filters.eventKinds \subseteq Nat \ {0} /\ a.filters.hopRange \in HopRanges
    /\ a.eventID \in Nat /\ (a.page # "log" => a.eventID = 0)

\* What reading a fragment may give.
Said(s) ==
    /\ s.page \in FragmentPages
    /\ s.map.view \in MapViews \cup {NoView}
    /\ s.map.panel \in {"open", "collapsed", "none"}
    /\ s.log = [eventKinds |-> s.log.eventKinds, channel |-> s.log.channel, nodeID |-> s.log.nodeID,
                hopRange |-> s.log.hopRange, eventID |-> s.log.eventID]
    /\ s.log.eventKinds \subseteq Nat \ {0} /\ s.log.hopRange \in HopRanges
    /\ s.log.eventID \in Nat /\ (s.page # "log" => s.log.eventID = 0)

\* Hops are brought within their bounds and into order, once.
LEMMA HopsNormal ==
    ASSUME NEW min \in Int, NEW max \in Int
    PROVE  /\ NormalizeLogHopRange([min |-> min, max |-> max]) \in HopRanges
           /\ [min |-> min, max |-> max] \in HopRanges =>
                 NormalizeLogHopRange([min |-> min, max |-> max]) = [min |-> min, max |-> max]
<1>1. \A v \in Int : /\ ClampHopValue(v) \in LogHopsMin..LogHopsMax
                     /\ v \in LogHopsMin..LogHopsMax => ClampHopValue(v) = v
  BY DEF ClampHopValue, LogHopsMin, LogHopsMax
<1>2. [min |-> min, max |-> max].min = min /\ [min |-> min, max |-> max].max = max
  OBVIOUS
<1> QED
  BY <1>1, <1>2 DEF NormalizeLogHopRange, HopRanges, LogHopsMin, LogHopsMax

LEMMA SaysWhatItMay ==
    ASSUME NEW h, Numeric(h.params)
    PROVE  Said(ParseFragmentState(h))
<1> DEFINE s == ParseFragmentState(h)
           p == h.params
<1>0. NoNumber \notin Int /\ LogHopsMin \in Int /\ LogHopsMax \in Int
  BY NavigationAssumption DEF LogHopsMin, LogHopsMax
<1>1. s.page \in FragmentPages /\ s.page = ParsePage(h.path)
  BY DEF ParseFragmentState, ParsePage, FragmentPages
<1>2. ParseMapView(p) \in MapViews \cup {NoView}
  BY <1>0 DEF ParseMapView, MapViews, Numeric
<1>3. s.map.view \in MapViews \cup {NoView} /\ s.map.panel \in {"open", "collapsed", "none"}
  <2>1. s.map = NoMap \/ (/\ s.map.view = ParseMapView(p)
                          /\ s.map.panel = IF p.panel \in {"open", "collapsed"} THEN p.panel ELSE "none")
    BY DEF ParseFragmentState
  <2> QED
    BY <1>2, <2>1 DEF NoMap
<1>4. DefaultLogHopRange \in HopRanges
  BY DEF DefaultLogHopRange, HopRanges, LogHopsMin, LogHopsMax
<1>5. /\ ParseLog(p).eventKinds \subseteq Nat \ {0} /\ ParseLog(p).hopRange \in HopRanges
      /\ ParseLog(p).eventID \in Nat
  <2>1. {kind \in p.kinds : kind # NoNumber /\ kind > 0} \subseteq Nat \ {0}
    BY DEF Numeric
  <2>2. PICK min \in Int, max \in Int :
           /\ min = IF p.hopsMin = NoNumber THEN LogHopsMin ELSE p.hopsMin
           /\ max = IF p.hopsMax = NoNumber THEN LogHopsMax ELSE p.hopsMax
    BY <1>0 DEF Numeric
  <2>3. ParseLog(p).hopRange = NormalizeLogHopRange([min |-> min, max |-> max])
    BY <2>2 DEF ParseLog
  <2>4. ParseLog(p).eventID \in Nat
    BY DEF ParseLog, Numeric
  <2> QED
    BY <2>1, <2>3, <2>4, HopsNormal DEF ParseLog
<1>6. s.log = IF ParsePage(h.path) = "log" THEN ParseLog(p) ELSE NoLog
  BY DEF ParseFragmentState
<1>7. CASE ParsePage(h.path) = "log"
  <2>1. s.log = ParseLog(p)
    BY <1>6, <1>7
  <2>2. s.log = [eventKinds |-> s.log.eventKinds, channel |-> s.log.channel, nodeID |-> s.log.nodeID,
                 hopRange |-> s.log.hopRange, eventID |-> s.log.eventID]
    BY <2>1 DEF ParseLog
  <2> QED
    BY <1>1, <1>3, <1>5, <1>7, <2>1, <2>2 DEF Said
<1>8. CASE ParsePage(h.path) # "log"
  <2>1. s.log = NoLog
    BY <1>6, <1>8
  <2>2. s.log = [eventKinds |-> s.log.eventKinds, channel |-> s.log.channel, nodeID |-> s.log.nodeID,
                 hopRange |-> s.log.hopRange, eventID |-> s.log.eventID]
    BY <2>1 DEF NoLog
  <2>3. s.log.eventKinds = {} /\ s.log.hopRange \in HopRanges /\ s.log.eventID = 0
    BY <2>1, <1>4 DEF NoLog
  <2> QED
    BY <1>1, <1>3, <2>2, <2>3 DEF Said
<1> QED
  BY <1>7, <1>8

\* A decimal is rounded once.
LEMMA RoundedOnce ==
    ASSUME NEW v \in MapViews
    PROVE  /\ Rounded(v) \in MapViews /\ Rounded(Rounded(v)) = Rounded(v)
           /\ Rounded(v) = [lat |-> ToFixed(v.lat), lng |-> ToFixed(v.lng), zoom |-> ToFixed(v.zoom)]
           /\ v # NoView
<1>1. \A n \in Int : ToFixed(n) \in Int /\ ToFixed(ToFixed(n)) = ToFixed(n)
  BY DEF ToFixed
<1>2. \A w \in MapViews : w # NoView
  BY NavigationAssumption DEF MapViews, NoView
<1>3. \A w \in MapViews :
         /\ Rounded(w) = [lat |-> ToFixed(w.lat), lng |-> ToFixed(w.lng), zoom |-> ToFixed(w.zoom)]
         /\ Rounded(w) \in MapViews
  BY <1>1, <1>2 DEF Rounded, MapViews
<1>4. PICK w \in MapViews : w = Rounded(v)
  BY <1>3
<1>5. w.lat = ToFixed(v.lat) /\ w.lng = ToFixed(v.lng) /\ w.zoom = ToFixed(v.zoom)
  BY <1>3, <1>4
<1>6. v.lat \in Int /\ v.lng \in Int /\ v.zoom \in Int
  BY DEF MapViews
<1>7. Rounded(w) = [lat |-> w.lat, lng |-> w.lng, zoom |-> w.zoom]
  BY <1>1, <1>3, <1>5, <1>6
<1>8. Rounded(w) = w
  BY <1>3, <1>4, <1>5, <1>7
<1> QED
  BY <1>2, <1>3, <1>4, <1>8

\* The writing of a channel that the server has stays what it is.
LEMMA CanonicalOnce ==
    ASSUME NEW list \in Seq(DOMAIN Lower), NEW name
    PROVE  Canonical(list, Canonical(list, name)) = Canonical(list, name)
<1> DEFINE folded == {i \in DOMAIN list : Lower[list[i]] = Lower[name]}
<1>1. folded \in SUBSET Nat /\ DOMAIN list = 1..Len(list)
  OBVIOUS
<1>2. CASE Contains(list, name) \/ folded = {}
  <2>1. Canonical(list, name) = name
    BY <1>2 DEF Canonical
  <2> QED
    BY <2>1
<1>3. CASE ~(Contains(list, name) \/ folded = {})
  <2>1. Min(folded) \in folded
    BY <1>1, <1>3, LeastExists
  <2>2. Canonical(list, name) = list[Min(folded)]
    BY <1>3 DEF Canonical
  <2> HIDE DEF folded
  <2>3. PICK i \in 1..Len(list) : Canonical(list, name) = list[i]
    <3>1. Min(folded) \in 1..Len(list)
      BY <1>1, <2>1 DEF folded
    <3> QED
      BY <3>1, <2>2
  <2>4. Contains(list, Canonical(list, name))
    BY <2>3 DEF Contains
  <2> QED
    BY <2>4 DEF Canonical
<1> QED
  BY <1>2, <1>3

LEMMA CanonicalOfNone ==
    ASSUME NEW name
    PROVE  Canonical(<<>>, name) = name
  BY DEF Canonical

\* What the map's URL says once it is written.
LEMMA MapWritten ==
    ASSUME NEW a, AppRight(a), a.page = "map", NEW list, NEW over
    PROVE  /\ Numeric(SerializeFragmentState(MapFragment(a)).params)
           /\ Tells(a, ParseFragmentState(SerializeFragmentState(MapFragment(a))), list, over)
<1> DEFINE h == SerializeFragmentState(MapFragment(a))
           m == [view |-> a.mapView, node |-> a.selected, chat |-> a.channel, panel |-> a.panel]
           r == Rounded(a.mapView)
           s == ParseFragmentState(h)
<1>0. a.mapView \in MapViews /\ a.panel \in {"open", "collapsed"} /\ a.eventID = 0
  BY DEF AppRight
<1>1. r \in MapViews /\ Rounded(r) = r /\ r # NoView
  BY <1>0, RoundedOnce
<1>2. h = SerializeMap(m)
  <2>1. MapFragment(a).info = FALSE /\ MapFragment(a).source = NoSource
        /\ MapFragment(a).page = "map" /\ MapFragment(a).map = m
    BY DEF MapFragment, Fragment
  <2> QED
    BY <2>1 DEF SerializeFragmentState
<1>3. /\ h.path = "map" /\ h.source = NoSource
      /\ h.params = [NoParams EXCEPT !.lat = r.lat, !.lng = r.lng, !.z = r.zoom,
                                     !.node = a.selected, !.chat = a.channel, !.panel = a.panel]
  BY <1>2 DEF SerializeMap, At
<1>4. /\ h.params.lat = r.lat /\ h.params.lng = r.lng /\ h.params.z = r.zoom
      /\ h.params.node = a.selected /\ h.params.chat = a.channel /\ h.params.panel = a.panel
      /\ h.params.kinds = {} /\ h.params.hopsMin = NoNumber /\ h.params.hopsMax = NoNumber
      /\ h.params.event = NoNumber
  BY <1>3 DEF NoParams
<1>5. Numeric(h.params)
  <2>1. r.lat \in Int /\ r.lng \in Int /\ r.zoom \in Int
    BY <1>1 DEF MapViews
  <2> QED
    BY <2>1, <1>4 DEF Numeric
<1>6. /\ s.page = "map"
      /\ s.map = [view |-> ParseMapView(h.params), node |-> h.params.node, chat |-> h.params.chat,
                  panel |-> IF h.params.panel \in {"open", "collapsed"} THEN h.params.panel ELSE "none"]
      /\ s.log = NoLog
  BY <1>3 DEF ParseFragmentState, ParsePage, FragmentPages
<1>7. s.map.view = NoView \/ s.map.view = r
  <2>1. r = [lat |-> r.lat, lng |-> r.lng, zoom |-> r.zoom]
    BY <1>1 DEF MapViews
  <2>2. ParseMapView(h.params) = NoView \/ ParseMapView(h.params) = r
    BY <2>1, <1>4 DEF ParseMapView
  <2> QED
    BY <2>2, <1>6
<1>8. s.map.node = a.selected /\ s.map.chat = a.channel /\ s.map.panel = a.panel
  BY <1>0, <1>4, <1>6
<1>9. s.log.eventID = 0
  BY <1>6 DEF NoLog
<1>10. s.map.panel # "none"
  BY <1>8, <1>0
<1>11. s.map.view = NoView \/ Rounded(a.mapView) = Rounded(s.map.view)
  BY <1>7, <1>1
<1> HIDE DEF h, s
<1> QED
  BY <1>0, <1>5, <1>6, <1>8, <1>9, <1>10, <1>11 DEF Tells, h, s

LEMMA TrimmedOnce ==
    ASSUME NEW text
    PROVE  Trimmed(Trimmed(text)) = Trimmed(text)
  BY DEF Trimmed

\* What the URL of the list of nodes says once it is written.
LEMMA NodesWritten ==
    ASSUME NEW a, AppRight(a), a.page = "nodes", NEW list, NEW over
    PROVE  /\ Numeric(SerializeFragmentState(NodesFragment(a)).params)
           /\ Tells(a, ParseFragmentState(SerializeFragmentState(NodesFragment(a))), list, over)
<1> DEFINE h == SerializeFragmentState(NodesFragment(a))
           m == [node |-> a.selected, q |-> Trimmed(a.nodesFilter)]
           s == ParseFragmentState(h)
<1>0. a.eventID = 0
  BY DEF AppRight
<1>2. h = SerializeNodes(m)
  <2>1. NodesFragment(a).info = FALSE /\ NodesFragment(a).source = NoSource
        /\ NodesFragment(a).page = "nodes" /\ NodesFragment(a).nodes = m
    BY DEF NodesFragment, Fragment
  <2> QED
    BY <2>1 DEF SerializeFragmentState
<1>3. /\ h.path = "nodes" /\ h.source = NoSource
      /\ h.params = [NoParams EXCEPT !.node = a.selected, !.q = Trimmed(a.nodesFilter)]
  BY <1>2 DEF SerializeNodes, At
<1>4. /\ h.params.node = a.selected /\ h.params.q = Trimmed(a.nodesFilter)
      /\ {h.params.lat, h.params.lng, h.params.z, h.params.hopsMin, h.params.hopsMax,
          h.params.event} = {NoNumber}
      /\ h.params.kinds = {}
  BY <1>3 DEF NoParams
<1>5. Numeric(h.params)
  BY <1>4 DEF Numeric
<1>6. /\ s.page = "nodes"
      /\ s.nodes = [node |-> h.params.node, q |-> h.params.q]
      /\ s.log = NoLog
  BY <1>3 DEF ParseFragmentState, ParsePage, FragmentPages
<1>8. s.nodes.node = a.selected /\ s.nodes.q = Trimmed(a.nodesFilter)
  BY <1>4, <1>6
<1>9. s.log.eventID = 0
  BY <1>6 DEF NoLog
<1> HIDE DEF h, s
<1> QED
  BY <1>0, <1>5, <1>6, <1>8, <1>9, TrimmedOnce DEF Tells, h, s

\* What the log's URL says once it is written.
LEMMA LogWritten ==
    ASSUME NEW a, AppRight(a), a.page = "log", NEW list, NEW over
    PROVE  /\ Numeric(SerializeFragmentState(LogFragment(a)).params)
           /\ Tells(a, ParseFragmentState(SerializeFragmentState(LogFragment(a))), list, over)
<1> DEFINE h == SerializeFragmentState(LogFragment(a))
           f == a.filters
           m == [eventKinds |-> f.eventKinds, channel |-> f.channel, nodeID |-> f.nodeID,
                 hopRange |-> f.hopRange, eventID |-> a.eventID]
           hops == ~IsDefaultLogHopRange(f.hopRange)
           s == ParseFragmentState(h)
<1>0. NoNumber \notin Int /\ LogHopsMin \in Int /\ LogHopsMax \in Int
  BY NavigationAssumption DEF LogHopsMin, LogHopsMax
<1>1. f.eventKinds \subseteq Nat \ {0} /\ f.hopRange \in HopRanges /\ a.eventID \in Nat
  BY DEF AppRight
<1>2. h = SerializeLog(m)
  <2>1. LogFragment(a).info = FALSE /\ LogFragment(a).source = NoSource
        /\ LogFragment(a).page = "log" /\ LogFragment(a).log = m
    BY DEF LogFragment, Fragment
  <2> QED
    BY <2>1 DEF SerializeFragmentState
<1>3. /\ h.path = "log" /\ h.source = NoSource
      /\ h.params = [NoParams EXCEPT
            !.kinds = f.eventKinds, !.channel = f.channel, !.nodeID = f.nodeID,
            !.hopsMin = IF hops THEN f.hopRange.min ELSE NoNumber,
            !.hopsMax = IF hops THEN f.hopRange.max ELSE NoNumber,
            !.event = IF a.eventID = 0 THEN NoNumber ELSE a.eventID]
  BY <1>2 DEF SerializeLog, At
<1>4. /\ h.params.kinds = f.eventKinds /\ h.params.channel = f.channel
      /\ h.params.nodeID = f.nodeID
      /\ h.params.hopsMin = IF hops THEN f.hopRange.min ELSE NoNumber
      /\ h.params.hopsMax = IF hops THEN f.hopRange.max ELSE NoNumber
      /\ h.params.event = IF a.eventID = 0 THEN NoNumber ELSE a.eventID
      /\ {h.params.lat, h.params.lng, h.params.z} = {NoNumber}
  BY <1>3 DEF NoParams
<1>5. f.hopRange = [min |-> f.hopRange.min, max |-> f.hopRange.max]
      /\ f.hopRange.min \in Int /\ f.hopRange.max \in Int
  BY <1>1, <1>0 DEF HopRanges
<1>6. Numeric(h.params)
  BY <1>1, <1>4, <1>5 DEF Numeric
<1>7. s.page = "log" /\ s.log = ParseLog(h.params)
  BY <1>3 DEF ParseFragmentState, ParsePage, FragmentPages
<1>8. {kind \in h.params.kinds : kind # NoNumber /\ kind > 0} = f.eventKinds
  BY <1>0, <1>1, <1>4
<1>9. (IF h.params.event = NoNumber \/ h.params.event < 0 THEN 0 ELSE h.params.event) = a.eventID
  BY <1>0, <1>1, <1>4
<1>10. NormalizeLogHopRange(
          [min |-> IF h.params.hopsMin = NoNumber THEN LogHopsMin ELSE h.params.hopsMin,
           max |-> IF h.params.hopsMax = NoNumber THEN LogHopsMax ELSE h.params.hopsMax]) = f.hopRange
  <2>1. IF hops THEN f.hopRange.min # NoNumber /\ f.hopRange.max # NoNumber
        ELSE f.hopRange.min = LogHopsMin /\ f.hopRange.max = LogHopsMax
    BY <1>0, <1>5 DEF IsDefaultLogHopRange, DefaultLogHopRange
  <2>2. (IF h.params.hopsMin = NoNumber THEN LogHopsMin ELSE h.params.hopsMin) = f.hopRange.min
    BY <2>1, <1>4
  <2>3. (IF h.params.hopsMax = NoNumber THEN LogHopsMax ELSE h.params.hopsMax) = f.hopRange.max
    BY <2>1, <1>4
  <2> QED
    BY <2>2, <2>3, <1>1, <1>5, HopsNormal
<1>11. s.log = m
  BY <1>4, <1>7, <1>8, <1>9, <1>10 DEF ParseLog
<1>12. LogFragment(a).log = m
  BY DEF LogFragment, Fragment
<1>13. s.log.eventID = a.eventID
  BY <1>11
<1> HIDE DEF h, s
<1> QED
  BY <1>6, <1>7, <1>11, <1>12, <1>13 DEF Tells, h, s

\* What the URL of the statistics says once it is written.
LEMMA StatsWritten ==
    ASSUME NEW a, AppRight(a), a.page = "stats", NEW list, NEW over
    PROVE  /\ Numeric(SerializeFragmentState(Fragment("stats")).params)
           /\ Tells(a, ParseFragmentState(SerializeFragmentState(Fragment("stats"))), list, over)
<1> DEFINE h == SerializeFragmentState(Fragment("stats"))
           s == ParseFragmentState(h)
<1>0. a.eventID = 0
  BY DEF AppRight
<1>2. h = At("stats", NoParams)
  <2>1. Fragment("stats").info = FALSE /\ Fragment("stats").source = NoSource
        /\ Fragment("stats").page = "stats"
    BY DEF Fragment
  <2> QED
    BY <2>1 DEF SerializeFragmentState
<1>3. h.path = "stats" /\ h.params = NoParams
  BY <1>2 DEF At
<1>5. Numeric(h.params)
  BY <1>3 DEF Numeric, NoParams
<1>6. s.page = "stats" /\ s.log = NoLog
  BY <1>3 DEF ParseFragmentState, ParsePage, FragmentPages
<1>9. s.log.eventID = 0
  BY <1>6 DEF NoLog
<1> HIDE DEF h, s
<1> QED
  BY <1>0, <1>5, <1>6, <1>9 DEF Tells, h, s

\* A state that takes what a fragment says tells it.
LEMMA ApplyRight ==
    ASSUME NEW a, AppRight(a), NEW s, Said(s), NEW list, NEW over
    PROVE  /\ AppRight(ApplyFragmentState(a, s))
           /\ Tells(ApplyFragmentState(a, s), s, list, over)
<1> DEFINE b == [a EXCEPT !.page = s.page,
                          !.routes = [info |-> s.info, source |-> s.source],
                          !.eventID = IF s.page = "log" THEN s.log.eventID ELSE 0,
                          !.focus = IF s.page = "map" THEN s.map.node ELSE NoNode]
           c == ApplyFragmentState(a, s)
<1>1. /\ DOMAIN b = AppFields /\ b.page = s.page /\ b.eventID = s.log.eventID
      /\ b.mapView = a.mapView /\ b.selected = a.selected /\ b.channel = a.channel
      /\ b.panel = a.panel /\ b.nodesFilter = a.nodesFilter /\ b.filters = a.filters
  BY DEF AppRight, AppFields, Said
<1>2. s.page \in FragmentPages
  BY DEF Said
<1>3. b.page = s.page /\ b.eventID \in Nat /\ (b.page # "log" => b.eventID = 0)
  BY <1>1 DEF Said
<1>4. CASE s.page = "map"
  <2>1. c = [b EXCEPT !.mapView  = IF s.map.view # NoView THEN s.map.view ELSE @,
                      !.selected = s.map.node,
                      !.channel  = IF s.map.chat # NoChannel THEN s.map.chat ELSE @,
                      !.panel    = IF s.map.panel # "none" THEN s.map.panel ELSE "open"]
    BY <1>4 DEF ApplyFragmentState
  <2> HIDE DEF b, c
  <2>2. /\ DOMAIN c = AppFields /\ c.page = b.page /\ c.eventID = b.eventID
        /\ c.filters = b.filters /\ c.selected = s.map.node
        /\ c.mapView = IF s.map.view # NoView THEN s.map.view ELSE b.mapView
        /\ c.channel = IF s.map.chat # NoChannel THEN s.map.chat ELSE b.channel
        /\ c.panel = IF s.map.panel # "none" THEN s.map.panel ELSE "open"
    BY <1>1, <2>1 DEF AppFields
  <2>3. c.mapView \in MapViews
    BY <1>1, <2>2 DEF Said, AppRight
  <2>4. c.panel \in {"open", "collapsed"}
    BY <2>2 DEF Said
  <2>5. AppRight(c)
    BY <1>1, <1>2, <1>3, <2>2, <2>3, <2>4 DEF AppRight
  <2>6. s.map.view = NoView \/ Rounded(c.mapView) = Rounded(s.map.view)
    BY <2>2
  <2>7. s.map.chat = NoChannel \/ Canonical(list, c.channel) = Canonical(list, s.map.chat)
    BY <2>2
  <2>8. c.panel = IF s.map.panel = "none" THEN "open" ELSE s.map.panel
    BY <2>2
  <2>9. Tells(c, s, list, over)
    BY <1>1, <1>4, <2>2, <2>6, <2>7, <2>8 DEF Tells
  <2> QED
    BY <2>5, <2>9 DEF c
<1>5. CASE s.page = "nodes"
  <2>1. c = [b EXCEPT !.selected = s.nodes.node, !.nodesFilter = s.nodes.q]
    BY <1>5 DEF ApplyFragmentState
  <2> HIDE DEF b, c
  <2>2. /\ DOMAIN c = AppFields /\ c.page = b.page /\ c.eventID = b.eventID
        /\ c.filters = b.filters /\ c.selected = s.nodes.node /\ c.nodesFilter = s.nodes.q
        /\ c.mapView = b.mapView /\ c.panel = b.panel
    BY <1>1, <2>1 DEF AppFields
  <2>5. AppRight(c)
    BY <1>1, <1>2, <1>3, <2>2 DEF AppRight
  <2>9. Tells(c, s, list, over)
    BY <1>1, <1>5, <2>2 DEF Tells
  <2> QED
    BY <2>5, <2>9 DEF c
<1>6. CASE s.page = "log"
  <2>1. c = [b EXCEPT !.filters = [eventKinds |-> s.log.eventKinds, channel |-> s.log.channel,
                                   nodeID |-> s.log.nodeID, hopRange |-> s.log.hopRange]]
    BY <1>6 DEF ApplyFragmentState
  <2> HIDE DEF b, c
  <2>2. /\ DOMAIN c = AppFields /\ c.page = b.page /\ c.eventID = b.eventID
        /\ c.mapView = b.mapView /\ c.panel = b.panel
        /\ c.filters = [eventKinds |-> s.log.eventKinds, channel |-> s.log.channel,
                        nodeID |-> s.log.nodeID, hopRange |-> s.log.hopRange]
    BY <1>1, <2>1 DEF AppFields
  <2>3. /\ c.filters.eventKinds = s.log.eventKinds /\ c.filters.channel = s.log.channel
        /\ c.filters.nodeID = s.log.nodeID /\ c.filters.hopRange = s.log.hopRange
    BY <2>2
  <2>5. AppRight(c)
    BY <1>1, <1>2, <1>3, <2>2, <2>3 DEF AppRight, Said
  <2>6. LogFragment(c).log = [eventKinds |-> c.filters.eventKinds, channel |-> c.filters.channel,
                              nodeID |-> c.filters.nodeID, hopRange |-> c.filters.hopRange,
                              eventID |-> c.eventID]
    BY DEF LogFragment, Fragment
  <2>7. LogFragment(c).log = s.log
    BY <1>1, <2>2, <2>3, <2>6 DEF Said
  <2>9. Tells(c, s, list, over)
    BY <1>1, <1>6, <2>2, <2>7 DEF Tells
  <2> QED
    BY <2>5, <2>9 DEF c
<1>7. CASE s.page = "stats"
  <2>1. c = b
    BY <1>7 DEF ApplyFragmentState
  <2> HIDE DEF b, c
  <2>5. AppRight(c)
    BY <1>1, <1>2, <1>3, <2>1 DEF AppRight
  <2>9. Tells(c, s, list, over)
    BY <1>1, <1>7, <2>1 DEF Tells
  <2> QED
    BY <2>5, <2>9 DEF c
<1> QED
  BY <1>2, <1>4, <1>5, <1>6, <1>7 DEF FragmentPages

\* The history of the tab: its entries are read as numbers where they should be.
HistoryRight(addresses, place) ==
    /\ addresses \in Seq(Range(addresses)) /\ place \in 1..Len(addresses)
    /\ \A i \in 1..Len(addresses) : Numeric(addresses[i].params)

\* A new entry is where the tab is.
LEMMA Pushed ==
    ASSUME NEW next, HistoryRight(history, position), Numeric(next.params),
           history' = Append(SubSeq(history, 1, position), next), position' = position + 1
    PROVE  HistoryRight(history', position') /\ Hash' = next
<1> DEFINE T == Range(history) \cup {next}
           cut == SubSeq(history, 1, position)
<1>0. history \in Seq(T) /\ next \in T /\ position \in 1..Len(history) /\ Len(history) \in Nat
  BY DEF HistoryRight, Range
<1> HIDE DEF T
<1>1. /\ cut \in Seq(T) /\ Len(cut) = position
      /\ \A i \in 1..position : cut[i] = history[i]
  <2>1. 1 \in 1..(Len(history)+1) /\ position \in (1-1)..Len(history)
    BY <1>0
  <2> QED
    BY <1>0, <2>1, SubSeqProperties
<1> HIDE DEF cut
<1>2. history' = Append(cut, next)
  BY DEF cut
<1>3. /\ history' \in Seq(T) /\ Len(history') = position + 1
      /\ \A i \in 1..position : history'[i] = cut[i]
      /\ history'[position + 1] = next
  BY <1>0, <1>1, <1>2, AppendProperties
<1>4. history' \in Seq(Range(history'))
  BY <1>3, SeqOfRange
<1>5. \A i \in 1..Len(history') : Numeric(history'[i].params)
  <2> SUFFICES ASSUME NEW i \in 1..Len(history')
               PROVE  Numeric(history'[i].params)
    OBVIOUS
  <2>1. i \in 1..position \/ i = position + 1
    BY <1>0, <1>3
  <2>2. (history'[i] = history[i] /\ i \in 1..Len(history)) \/ history'[i] = next
    BY <1>0, <1>1, <1>3, <2>1
  <2> QED
    BY <2>2 DEF HistoryRight
<1>6. position' \in 1..Len(history') /\ history'[position'] = next
  BY <1>0, <1>3
<1> QED
  BY <1>4, <1>5, <1>6 DEF HistoryRight, Hash

\* What is written is where the tab is.
LEMMA Written ==
    ASSUME NEW state, NEW mode, HistoryRight(history, position),
           Numeric(SerializeFragmentState(state).params), WriteFragment(state, mode)
    PROVE  HistoryRight(history', position') /\ Hash' = SerializeFragmentState(state)
<1> DEFINE next == SerializeFragmentState(state)
           T == Range(history) \cup {next}
<1>0. history \in Seq(T) /\ next \in T /\ position \in 1..Len(history) /\ Len(history) \in Nat
  BY DEF HistoryRight, Range
<1>2. CASE next = Hash
  BY <1>2 DEF WriteFragment, HistoryRight, Hash
<1>3. CASE next # Hash /\ mode = "push"
  BY <1>3, Pushed DEF WriteFragment
<1>4. CASE next # Hash /\ mode # "push"
  <2> HIDE DEF T, next
  <2>1. history' = [history EXCEPT ![position] = next] /\ position' = position
    BY <1>4 DEF WriteFragment, next
  <2>2. /\ history' \in Seq(T) /\ Len(history') = Len(history)
        /\ \A i \in 1..Len(history) : history'[i] = IF i = position THEN next ELSE history[i]
    BY <1>0, <2>1, ExceptSeq
  <2> QED
    BY <1>0, <2>1, <2>2, SeqOfRange DEF HistoryRight, Hash, next
<1> QED
  BY <1>2, <1>3, <1>4

\* The fragment is the one of the state.
Fits(fragment, a) ==
    /\ a.page = "map" => fragment = MapFragment(a)
    /\ a.page = "nodes" => fragment = NodesFragment(a)
    /\ a.page = "log" => fragment = LogFragment(a)
    /\ a.page = "stats" => fragment = Fragment("stats")

LEMMA FitWritten ==
    ASSUME NEW a, AppRight(a), NEW fragment, Fits(fragment, a), NEW list, NEW over
    PROVE  /\ Numeric(SerializeFragmentState(fragment).params)
           /\ Tells(a, ParseFragmentState(SerializeFragmentState(fragment)), list, over)
<1>1. a.page \in FragmentPages
  BY DEF AppRight
<1>2. CASE a.page = "map"
  BY <1>2, MapWritten DEF Fits
<1>3. CASE a.page = "nodes"
  BY <1>3, NodesWritten DEF Fits
<1>4. CASE a.page = "log"
  BY <1>4, LogWritten DEF Fits
<1>5. CASE a.page = "stats"
  BY <1>5, StatsWritten DEF Fits
<1> QED
  BY <1>1, <1>2, <1>3, <1>4, <1>5 DEF FragmentPages

Saved == savedView \in MapViews \cup {NoView}
Told == late \/ Tells(app, ParseFragmentState(Hash), channels, forced)

NavInv ==
    /\ plan \in Plans
    /\ AppRight(app)
    /\ leaving = NotLeaving \/ (AppRight(leaving) /\ leaving.page = "map")
    /\ Saved
    /\ HistoryRight(history, position)
    /\ channels \in Seq(DOMAIN Lower)
    /\ ~booted => channels = <<>> /\ ~forced.chat /\ ~forced.view
    /\ Told

\* What every handler keeps.
LEMMA HandleKeeps ==
    ASSUME NavInv, NEW a, AppRight(a), NEW fragment, Fits(fragment, a), NEW mode,
           Handle(a, fragment, mode), Saved'
    PROVE  NavInv'
<1>1. /\ app' = a /\ WriteFragment(fragment, mode)
      /\ leaving' = IF app.page = "map" /\ a.page # "map" THEN app ELSE NotLeaving
      /\ forced' = [chat |-> FALSE, view |-> FALSE]
      /\ channels' = channels /\ plan' = plan /\ booted' = booted
  BY DEF Handle
<1>2. /\ Numeric(SerializeFragmentState(fragment).params)
      /\ Tells(a, ParseFragmentState(SerializeFragmentState(fragment)), channels', forced')
  BY FitWritten
<1>3. HistoryRight(history', position') /\ Hash' = SerializeFragmentState(fragment)
  BY <1>1, <1>2, Written DEF NavInv
<1>4. Tells(app', ParseFragmentState(Hash'), channels', forced')
  BY <1>1, <1>2, <1>3
<1>5. leaving' = NotLeaving \/ (AppRight(leaving') /\ leaving'.page = "map")
  BY <1>1 DEF NavInv
<1>6. ~forced'.chat /\ ~forced'.view
  BY <1>1
<1> QED
  BY <1>1, <1>3, <1>4, <1>5, <1>6 DEF NavInv, Told, Saved

LEMMA BootstrapKeeps ==
    ASSUME NavInv, NEW boot \in Boots, Bootstrap(boot)
    PROVE  NavInv'
<1> DEFINE chosen == IF Preferred(boot) = NoChannel THEN app.channel
                     ELSE Canonical(boot.channels, Preferred(boot))
           view == IF boot.meta /\ initial.view = NoView /\ savedView = NoView
                   THEN DefaultView ELSE app.mapView
           s == ParseFragmentState(Hash)
<1>1. /\ ~booted /\ booted' = TRUE /\ channels' = boot.channels
      /\ app' = [app EXCEPT !.channel = chosen, !.mapView = view]
      /\ forced' = [chat |-> Canonical(boot.channels, app.channel) # chosen,
                    view |-> app.mapView # view]
      /\ UNCHANGED <<savedView, history, position, leaving, late, plan>>
  BY DEF Bootstrap
<1> HIDE DEF chosen, view, s
<1>2. view \in MapViews
  BY NavigationAssumption DEF view, NavInv, AppRight
<1>3. /\ DOMAIN app' = AppFields /\ app'.channel = chosen /\ app'.mapView = view
      /\ app'.page = app.page /\ app'.eventID = app.eventID /\ app'.selected = app.selected
      /\ app'.panel = app.panel /\ app'.nodesFilter = app.nodesFilter
      /\ app'.filters = app.filters
  BY <1>1 DEF NavInv, AppRight, AppFields
<1>4. AppRight(app')
  BY <1>2, <1>3 DEF NavInv, AppRight
<1>5. /\ forced'.chat <=> Canonical(boot.channels, app.channel) # chosen
      /\ forced'.view <=> app.mapView # view
  BY <1>1
<1>6. boot.channels \in Seq(DOMAIN Lower)
  BY NavigationAssumption
<1>7. chosen = app.channel \/ Canonical(boot.channels, chosen) = chosen
  BY <1>6, CanonicalOnce DEF chosen
<1>8. Hash' = Hash
  BY <1>1 DEF Hash
<1>9. ASSUME ~late
      PROVE  Tells(app', s, boot.channels, forced')
  <2>1. Tells(app, s, channels, forced) /\ ~forced.chat /\ ~forced.view /\ channels = <<>>
    BY <1>1, <1>9 DEF NavInv, Told, s
  <2>2. ASSUME s.page = "map"
        PROVE  /\ s.map.view = NoView \/ forced'.view \/ Rounded(app'.mapView) = Rounded(s.map.view)
               /\ \/ s.map.chat = NoChannel \/ forced'.chat
                  \/ Canonical(boot.channels, app'.channel) = Canonical(boot.channels, s.map.chat)
    <3>1. s.map.view = NoView \/ Rounded(app.mapView) = Rounded(s.map.view)
      BY <2>1, <2>2 DEF Tells
    <3>2. s.map.chat = NoChannel \/ app.channel = s.map.chat
      BY <2>1, <2>2, CanonicalOfNone DEF Tells
    <3>3. forced'.chat \/ Canonical(boot.channels, app'.channel) = Canonical(boot.channels, app.channel)
      BY <1>3, <1>5, <1>7
    <3> QED
      BY <1>3, <1>5, <3>1, <3>2, <3>3
  <2>3. /\ s.page = "map" => /\ app'.selected = s.map.node
                             /\ app'.panel = IF s.map.panel = "none" THEN "open" ELSE s.map.panel
        /\ s.page = "nodes" => app'.selected = s.nodes.node
                               /\ Trimmed(app'.nodesFilter) = Trimmed(s.nodes.q)
        /\ s.page = "log" => LogFragment(app').log = s.log
        /\ app'.page = s.page /\ app'.eventID = s.log.eventID
    <3>1. LogFragment(app').log = LogFragment(app).log
      BY <1>3 DEF LogFragment, Fragment
    <3> QED
      BY <2>1, <1>3, <3>1 DEF Tells
  <2> QED
    BY <2>2, <2>3 DEF Tells
<1>10. Told'
  BY <1>1, <1>8, <1>9 DEF Told, s
<1> QED
  BY <1>1, <1>4, <1>6, <1>10 DEF NavInv, Saved, HistoryRight

LEMMA CanonicalChannelKeeps ==
    ASSUME NavInv, CanonicalChannel
    PROVE  NavInv'
<1>1. /\ app' = [app EXCEPT !.channel = Canonical(channels, @)]
      /\ IF app.page = "map" THEN WriteFragment(MapFragment(app'), "replace")
         ELSE UNCHANGED <<history, position>>
      /\ forced' = IF app.page = "map" THEN [chat |-> FALSE, view |-> FALSE] ELSE forced
      /\ channels # <<>>
      /\ UNCHANGED <<booted, channels, savedView, initial, leaving, late, plan>>
  BY DEF CanonicalChannel, Unsettled
<1>2. booted
  BY <1>1 DEF NavInv
<1>3. /\ DOMAIN app' = AppFields /\ app'.mapView = app.mapView
      /\ app'.page = app.page /\ app'.eventID = app.eventID /\ app'.selected = app.selected
      /\ app'.panel = app.panel /\ app'.nodesFilter = app.nodesFilter
      /\ app'.filters = app.filters
  BY <1>1 DEF NavInv, AppRight, AppFields
<1>4. AppRight(app')
  BY <1>3 DEF NavInv, AppRight
<1>5. CASE app.page = "map"
  <2>1. WriteFragment(MapFragment(app'), "replace")
    BY <1>1, <1>5
  <2>2. /\ Numeric(SerializeFragmentState(MapFragment(app')).params)
        /\ Tells(app', ParseFragmentState(SerializeFragmentState(MapFragment(app'))), channels', forced')
    BY <1>3, <1>4, <1>5, MapWritten
  <2>3. HistoryRight(history', position') /\ Hash' = SerializeFragmentState(MapFragment(app'))
    BY <2>1, <2>2, Written DEF NavInv
  <2>4. Tells(app', ParseFragmentState(Hash'), channels', forced')
    BY <2>2, <2>3
  <2> QED
    BY <1>1, <1>2, <1>4, <2>3, <2>4 DEF NavInv, Told, Saved
<1>6. CASE app.page # "map"
  <2>1. history' = history /\ position' = position /\ forced' = forced
    BY <1>1, <1>6
  <2>2. Hash' = Hash
    BY <2>1 DEF Hash
  <2>3. LogFragment(app').log = LogFragment(app).log
    BY <1>3 DEF LogFragment, Fragment
  <2>4. Told'
    <3>1. ASSUME Tells(app, ParseFragmentState(Hash), channels, forced)
          PROVE  Tells(app', ParseFragmentState(Hash), channels', forced')
      <4> DEFINE s == ParseFragmentState(Hash)
      <4> HIDE DEF s
      <4>1. Tells(app, s, channels, forced)
        BY <3>1 DEF s
      <4>2. s.page # "map"
        BY <4>1, <1>6 DEF Tells
      <4>3. Tells(app', s, channels', forced')
        BY <4>1, <4>2, <1>3, <2>3 DEF Tells
      <4> QED
        BY <4>3 DEF s
    <3> QED
      BY <1>1, <2>2, <3>1 DEF Told, NavInv
  <2> QED
    BY <1>1, <1>2, <1>4, <2>1, <2>4 DEF NavInv, Saved, HistoryRight
<1> QED
  BY <1>5, <1>6

LEMMA UnmountKeeps ==
    ASSUME NavInv, Unmount
    PROVE  NavInv'
<1>1. /\ leaving # NotLeaving /\ leaving' = NotLeaving
      /\ booted' = booted /\ channels' = channels /\ forced' = forced /\ plan' = plan
  BY DEF Unmount
<1>2. CASE UNCHANGED <<app, savedView, history, position, late>>
  <2>1. Told'
    BY <1>1, <1>2 DEF NavInv, Told, Hash
  <2> QED
    BY <1>1, <1>2, <2>1 DEF NavInv, Saved, HistoryRight
<1>3. ASSUME NEW view \in plan.views,
             app' = [app EXCEPT !.mapView = view], savedView' = view,
             WriteFragment(MapFragment([leaving EXCEPT !.mapView = view]), "replace"),
             late' = TRUE
      PROVE  NavInv'
  <2>0. view \in MapViews
    BY NavigationAssumption DEF NavInv
  <2>1. PICK a : a = [leaving EXCEPT !.mapView = view]
    OBVIOUS
  <2>2. AppRight(leaving) /\ leaving.page = "map"
    BY <1>1 DEF NavInv
  <2>3. /\ DOMAIN a = AppFields /\ a.mapView = view
        /\ a.page = leaving.page /\ a.eventID = leaving.eventID
        /\ a.panel = leaving.panel /\ a.filters = leaving.filters
    BY <2>1, <2>2 DEF AppRight, AppFields
  <2>4. AppRight(a) /\ a.page = "map"
    BY <2>0, <2>2, <2>3 DEF AppRight
  <2>5. Numeric(SerializeFragmentState(MapFragment(a)).params)
    BY <2>4, MapWritten
  <2>6. HistoryRight(history', position')
    BY <1>3, <2>1, <2>5, Written DEF NavInv
  <2>7. /\ DOMAIN app' = AppFields /\ app'.mapView = view
        /\ app'.page = app.page /\ app'.eventID = app.eventID
        /\ app'.panel = app.panel /\ app'.filters = app.filters
    BY <1>3 DEF NavInv, AppRight, AppFields
  <2>8. AppRight(app')
    BY <2>0, <2>7 DEF NavInv, AppRight
  <2> QED
    BY <1>1, <1>3, <2>0, <2>6, <2>8 DEF NavInv, Told, Saved
<1> QED
  BY <1>2, <1>3 DEF Unmount

\* What a change of the address keeps.
LEMMA URLChangeKeeps ==
    ASSUME NavInv, HandleURLChange, HistoryRight(history', position'), Numeric(Hash'.params)
    PROVE  NavInv'
<1>1. /\ app' = ApplyFragmentState(app, ParseFragmentState(Hash')) /\ late' = FALSE
      /\ leaving' = IF app.page = "map" /\ app'.page # "map" THEN app ELSE NotLeaving
      /\ forced' = [chat |-> FALSE, view |-> FALSE]
      /\ booted' = booted /\ channels' = channels /\ savedView' = savedView /\ plan' = plan
  BY DEF HandleURLChange
<1>2. Said(ParseFragmentState(Hash'))
  BY SaysWhatItMay
<1>3. /\ AppRight(app') /\ Tells(app', ParseFragmentState(Hash'), channels', forced')
  BY <1>1, <1>2, ApplyRight DEF NavInv
<1>4. leaving' = NotLeaving \/ (AppRight(leaving') /\ leaving'.page = "map")
  BY <1>1 DEF NavInv
<1>5. ~forced'.chat /\ ~forced'.view
  BY <1>1
<1> QED
  BY <1>1, <1>3, <1>4, <1>5 DEF NavInv, Told, Saved

\* What is loaded is what the address says.
LEMMA LoadedRight ==
    ASSUME NEW hash, Numeric(hash.params), NEW view \in MapViews \cup {NoView}, NEW channel,
           NEW list, NEW over
    PROVE  /\ AppRight(LoadedApp(hash, view, channel))
           /\ Tells(LoadedApp(hash, view, channel), ParseFragmentState(hash), list, over)
<1> DEFINE s == ParseFragmentState(hash)
           seenView == IF s.map.view # NoView THEN s.map.view
                    ELSE IF view # NoView THEN view ELSE FallbackView
           a == [page |-> "map", selected |-> NoNode, focus |-> NoNode, nodesFilter |-> NoText,
                 eventID |-> 0, panel |-> "open", filters |-> NoFilters, channel |-> channel,
                 routes |-> [info |-> FALSE, source |-> NoSource], mapView |-> seenView]
<1>1. LoadedApp(hash, view, channel) = ApplyFragmentState(a, s)
  BY DEF LoadedApp
<1>2. Said(s)
  BY SaysWhatItMay
<1> HIDE DEF s, seenView
<1>3. seenView \in MapViews
  BY <1>2, NavigationAssumption DEF seenView, Said
<1>4. DefaultLogHopRange \in HopRanges
  BY DEF DefaultLogHopRange, HopRanges, LogHopsMin, LogHopsMax
<1>5. NoFilters.eventKinds = {} /\ NoFilters.hopRange = DefaultLogHopRange
  BY DEF NoFilters
<1>6. /\ DOMAIN a = AppFields /\ a.page = "map" /\ a.mapView = seenView /\ a.panel = "open"
      /\ a.filters = NoFilters /\ a.eventID = 0
  BY DEF AppFields
<1> HIDE DEF a
<1>7. AppRight(a)
  BY <1>3, <1>4, <1>5, <1>6 DEF AppRight, FragmentPages
<1> QED
  BY <1>1, <1>2, <1>7, ApplyRight DEF s

\* The handlers.
LEMMA HandlersKeep ==
    ASSUME NavInv
    PROVE  /\ \A page \in FragmentPages : NavigateToPage(page) => NavInv'
           /\ \A view \in plan.views : OnMapViewChange(view) => NavInv'
           /\ \A id \in plan.nodes \cup {NoNode} : SelectMapNode(id) => NavInv'
           /\ \A panel \in plan.panels : ChangeChatPanel(panel) => NavInv'
           /\ \A channel \in plan.channels : ChangeChatChannel(channel) => NavInv'
           /\ OnFocusNodeHandled => NavInv'
           /\ \A id \in plan.nodes :
                 (OpenNodeDetails(id) \/ OpenNodeOnMap(id) \/ OpenNodeLog(id)
                     \/ SelectNodeOnNodesPage(id)) => NavInv'
           /\ \A text \in plan.texts : ChangeNodesFilter(text) => NavInv'
           /\ \A filters \in plan.filters : ChangeLogFilters(filters) => NavInv'
           /\ \A id \in plan.events : SelectLogEvent(id) => NavInv'
           /\ CloseLogEvent => NavInv'
<1>0. AppRight(app) /\ plan \in Plans
  BY DEF NavInv
<1>a. Keep => Saved'
  BY DEF NavInv, Saved, Keep
<1>1. ASSUME NEW view \in plan.views, OnMapViewChange(view)
      PROVE  NavInv'
  <2>1. PICK a : a = [app EXCEPT !.mapView = view]
    OBVIOUS
  <2>2. Handle(a, MapFragment(a), "replace") /\ app.page = "map"
    BY <1>1, <2>1 DEF OnMapViewChange
  <2>3. /\ DOMAIN a = AppFields /\ a.page = app.page /\ a.mapView = view /\ a.panel = app.panel
        /\ a.filters = app.filters /\ a.eventID = app.eventID
    BY <1>0, <2>1 DEF AppRight, AppFields
  <2>5. AppRight(a)
    BY <1>0, <2>2, <2>3, NavigationAssumption DEF AppRight, FragmentPages
  <2>6. Fits(MapFragment(a), a)
    BY <2>2, <2>3 DEF Fits
  <2>7. Saved'
    BY <1>1, NavigationAssumption, <1>0 DEF Saved, OnMapViewChange
  <2> QED
    BY <2>2, <2>5, <2>6, <2>7, HandleKeeps
<1>2. ASSUME NEW id \in plan.nodes \cup {NoNode}, SelectMapNode(id)
      PROVE  NavInv'
  <2>1. PICK a : a = [app EXCEPT !.selected = id]
    OBVIOUS
  <2>2. Handle(a, MapFragment(a), IF id # NoNode THEN "push" ELSE "replace") /\ app.page = "map"
    BY <1>2, <2>1 DEF SelectMapNode
  <2>3. /\ DOMAIN a = AppFields /\ a.page = app.page /\ a.mapView = app.mapView /\ a.panel = app.panel
        /\ a.filters = app.filters /\ a.eventID = app.eventID
    BY <1>0, <2>1 DEF AppRight, AppFields
  <2>5. AppRight(a)
    BY <1>0, <2>2, <2>3 DEF AppRight, FragmentPages
  <2>6. Fits(MapFragment(a), a)
    BY <2>2, <2>3 DEF Fits
  <2>7. Saved'
    BY <1>2, <1>a DEF SelectMapNode
  <2> QED
    BY <2>2, <2>5, <2>6, <2>7, HandleKeeps
<1>3. ASSUME NEW panel \in plan.panels, ChangeChatPanel(panel)
      PROVE  NavInv'
  <2>1. PICK a : a = [app EXCEPT !.panel = panel]
    OBVIOUS
  <2>2. Handle(a, MapFragment(a), "replace") /\ app.page = "map"
    BY <1>3, <2>1 DEF ChangeChatPanel
  <2>3. /\ DOMAIN a = AppFields /\ a.page = app.page /\ a.mapView = app.mapView /\ a.panel = panel
        /\ a.filters = app.filters /\ a.eventID = app.eventID
    BY <1>0, <2>1 DEF AppRight, AppFields
  <2>5. AppRight(a)
    BY <1>0, <2>2, <2>3, NavigationAssumption DEF AppRight, FragmentPages
  <2>6. Fits(MapFragment(a), a)
    BY <2>2, <2>3 DEF Fits
  <2>7. Saved'
    BY <1>3, <1>a DEF ChangeChatPanel
  <2> QED
    BY <2>2, <2>5, <2>6, <2>7, HandleKeeps
<1>4. ASSUME NEW channel \in plan.channels, ChangeChatChannel(channel)
      PROVE  NavInv'
  <2>1. PICK a : a = [app EXCEPT !.channel = channel]
    OBVIOUS
  <2>2. Handle(a, MapFragment(a), "replace") /\ app.page = "map"
    BY <1>4, <2>1 DEF ChangeChatChannel
  <2>3. /\ DOMAIN a = AppFields /\ a.page = app.page /\ a.mapView = app.mapView /\ a.panel = app.panel
        /\ a.filters = app.filters /\ a.eventID = app.eventID
    BY <1>0, <2>1 DEF AppRight, AppFields
  <2>5. AppRight(a)
    BY <1>0, <2>2, <2>3 DEF AppRight, FragmentPages
  <2>6. Fits(MapFragment(a), a)
    BY <2>2, <2>3 DEF Fits
  <2>7. Saved'
    BY <1>4, <1>a DEF ChangeChatChannel
  <2> QED
    BY <2>2, <2>5, <2>6, <2>7, HandleKeeps
<1>5. ASSUME NEW id \in plan.nodes, OpenNodeDetails(id)
      PROVE  NavInv'
  <2>1. PICK a : a = [app EXCEPT !.page = "nodes", !.focus = NoNode, !.eventID = 0, !.selected = id]
    OBVIOUS
  <2>2. Handle(a, NodesFragment(a), "push") /\ TRUE
    BY <1>5, <2>1 DEF OpenNodeDetails
  <2>3. /\ DOMAIN a = AppFields /\ a.page = "nodes" /\ a.mapView = app.mapView /\ a.panel = app.panel
        /\ a.filters = app.filters /\ a.eventID = 0
    BY <1>0, <2>1 DEF AppRight, AppFields
  <2>5. AppRight(a)
    BY <1>0, <2>2, <2>3 DEF AppRight, FragmentPages
  <2>6. Fits(NodesFragment(a), a)
    BY <2>2, <2>3 DEF Fits
  <2>7. Saved'
    BY <1>5, <1>a DEF OpenNodeDetails
  <2> QED
    BY <2>2, <2>5, <2>6, <2>7, HandleKeeps
<1>6. ASSUME NEW id \in plan.nodes, OpenNodeOnMap(id)
      PROVE  NavInv'
  <2>1. PICK a : a = [app EXCEPT !.page = "map", !.selected = id, !.focus = id]
    OBVIOUS
  <2>2. Handle(a, MapFragment(a), "push") /\ app.page = "nodes"
    BY <1>6, <2>1 DEF OpenNodeOnMap
  <2>3. /\ DOMAIN a = AppFields /\ a.page = "map" /\ a.mapView = app.mapView /\ a.panel = app.panel
        /\ a.filters = app.filters /\ a.eventID = app.eventID
    BY <1>0, <2>1 DEF AppRight, AppFields
  <2>5. AppRight(a)
    BY <1>0, <2>2, <2>3 DEF AppRight, FragmentPages
  <2>6. Fits(MapFragment(a), a)
    BY <2>2, <2>3 DEF Fits
  <2>7. Saved'
    BY <1>6, <1>a DEF OpenNodeOnMap
  <2> QED
    BY <2>2, <2>5, <2>6, <2>7, HandleKeeps
<1>7. ASSUME NEW id \in plan.nodes, OpenNodeLog(id)
      PROVE  NavInv'
  <2>1. PICK a : a = [app EXCEPT !.page = "log", !.selected = id, !.focus = NoNode, !.eventID = 0,
                            !.filters = [NoFilters EXCEPT !.nodeID = id]]
    OBVIOUS
  <2>2. Handle(a, LogFragment(a), "push") /\ app.page = "nodes"
    BY <1>7, <2>1 DEF OpenNodeLog
  <2>3. /\ DOMAIN a = AppFields /\ a.page = "log" /\ a.mapView = app.mapView /\ a.panel = app.panel
        /\ a.filters = [NoFilters EXCEPT !.nodeID = id] /\ a.eventID = 0
    BY <1>0, <2>1 DEF AppRight, AppFields
  <2>4. a.filters.eventKinds = {} /\ a.filters.hopRange \in HopRanges
    BY <2>3 DEF NoFilters, DefaultLogHopRange, HopRanges, LogHopsMin, LogHopsMax
  <2>5. AppRight(a)
    BY <1>0, <2>2, <2>3, <2>4 DEF AppRight, FragmentPages
  <2>6. Fits(LogFragment(a), a)
    BY <2>2, <2>3 DEF Fits
  <2>7. Saved'
    BY <1>7, <1>a DEF OpenNodeLog
  <2> QED
    BY <2>2, <2>5, <2>6, <2>7, HandleKeeps
<1>8. ASSUME NEW id \in plan.nodes, SelectNodeOnNodesPage(id)
      PROVE  NavInv'
  <2>1. PICK a : a = [app EXCEPT !.selected = id]
    OBVIOUS
  <2>2. Handle(a, NodesFragment(a), "push") /\ app.page = "nodes"
    BY <1>8, <2>1 DEF SelectNodeOnNodesPage
  <2>3. /\ DOMAIN a = AppFields /\ a.page = app.page /\ a.mapView = app.mapView /\ a.panel = app.panel
        /\ a.filters = app.filters /\ a.eventID = app.eventID
    BY <1>0, <2>1 DEF AppRight, AppFields
  <2>5. AppRight(a)
    BY <1>0, <2>2, <2>3 DEF AppRight, FragmentPages
  <2>6. Fits(NodesFragment(a), a)
    BY <2>2, <2>3 DEF Fits
  <2>7. Saved'
    BY <1>8, <1>a DEF SelectNodeOnNodesPage
  <2> QED
    BY <2>2, <2>5, <2>6, <2>7, HandleKeeps
<1>9. ASSUME NEW text \in plan.texts, ChangeNodesFilter(text)
      PROVE  NavInv'
  <2>1. PICK a : a = [app EXCEPT !.nodesFilter = text]
    OBVIOUS
  <2>2. Handle(a, NodesFragment(a), "replace") /\ app.page = "nodes"
    BY <1>9, <2>1 DEF ChangeNodesFilter
  <2>3. /\ DOMAIN a = AppFields /\ a.page = app.page /\ a.mapView = app.mapView /\ a.panel = app.panel
        /\ a.filters = app.filters /\ a.eventID = app.eventID
    BY <1>0, <2>1 DEF AppRight, AppFields
  <2>5. AppRight(a)
    BY <1>0, <2>2, <2>3 DEF AppRight, FragmentPages
  <2>6. Fits(NodesFragment(a), a)
    BY <2>2, <2>3 DEF Fits
  <2>7. Saved'
    BY <1>9, <1>a DEF ChangeNodesFilter
  <2> QED
    BY <2>2, <2>5, <2>6, <2>7, HandleKeeps
<1>10. ASSUME NEW filters \in plan.filters, ChangeLogFilters(filters)
      PROVE  NavInv'
  <2>1. PICK a : a = [app EXCEPT !.filters = filters, !.eventID = 0]
    OBVIOUS
  <2>2. Handle(a, LogFragment(a), "replace") /\ app.page = "log"
    BY <1>10, <2>1 DEF ChangeLogFilters
  <2>3. /\ DOMAIN a = AppFields /\ a.page = app.page /\ a.mapView = app.mapView /\ a.panel = app.panel
        /\ a.filters = filters /\ a.eventID = 0
    BY <1>0, <2>1 DEF AppRight, AppFields
  <2>4. filters.eventKinds \subseteq Nat \ {0} /\ filters.hopRange \in HopRanges
    BY <1>0, NavigationAssumption
  <2>5. AppRight(a)
    BY <1>0, <2>2, <2>3, <2>4 DEF AppRight, FragmentPages
  <2>6. Fits(LogFragment(a), a)
    BY <2>2, <2>3 DEF Fits
  <2>7. Saved'
    BY <1>10, <1>a DEF ChangeLogFilters
  <2> QED
    BY <2>2, <2>5, <2>6, <2>7, HandleKeeps
<1>11. ASSUME NEW id \in plan.events, SelectLogEvent(id)
      PROVE  NavInv'
  <2>1. PICK a : a = [app EXCEPT !.eventID = id]
    OBVIOUS
  <2>2. Handle(a, LogFragment(a), "push") /\ app.page = "log"
    BY <1>11, <2>1 DEF SelectLogEvent
  <2>3. /\ DOMAIN a = AppFields /\ a.page = app.page /\ a.mapView = app.mapView /\ a.panel = app.panel
        /\ a.filters = app.filters /\ a.eventID = id
    BY <1>0, <2>1 DEF AppRight, AppFields
  <2>4. id \in Nat
    BY <1>0, NavigationAssumption
  <2>5. AppRight(a)
    BY <1>0, <2>2, <2>3, <2>4 DEF AppRight, FragmentPages
  <2>6. Fits(LogFragment(a), a)
    BY <2>2, <2>3 DEF Fits
  <2>7. Saved'
    BY <1>11, <1>a DEF SelectLogEvent
  <2> QED
    BY <2>2, <2>5, <2>6, <2>7, HandleKeeps
<1>12. ASSUME CloseLogEvent
      PROVE  NavInv'
  <2>1. PICK a : a = [app EXCEPT !.eventID = 0]
    OBVIOUS
  <2>2. Handle(a, LogFragment(a), "replace") /\ app.page = "log"
    BY <1>12, <2>1 DEF CloseLogEvent
  <2>3. /\ DOMAIN a = AppFields /\ a.page = app.page /\ a.mapView = app.mapView /\ a.panel = app.panel
        /\ a.filters = app.filters /\ a.eventID = 0
    BY <1>0, <2>1 DEF AppRight, AppFields
  <2>5. AppRight(a)
    BY <1>0, <2>2, <2>3 DEF AppRight, FragmentPages
  <2>6. Fits(LogFragment(a), a)
    BY <2>2, <2>3 DEF Fits
  <2>7. Saved'
    BY <1>12, <1>a DEF CloseLogEvent
  <2> QED
    BY <2>2, <2>5, <2>6, <2>7, HandleKeeps
<1>13. ASSUME NEW page \in FragmentPages, NavigateToPage(page)
       PROVE  NavInv'
  <2>1. PICK a : a = [app EXCEPT !.page = page, !.focus = IF page = "map" THEN @ ELSE NoNode,
                                 !.eventID = IF page = "log" THEN @ ELSE 0]
    OBVIOUS
  <2>2. Handle(a, CurrentFragmentState(app, page), "push")
    BY <1>13, <2>1 DEF NavigateToPage
  <2>3. /\ DOMAIN a = AppFields /\ a.page = page /\ a.mapView = app.mapView
        /\ a.panel = app.panel /\ a.filters = app.filters
        /\ a.eventID = IF page = "log" THEN app.eventID ELSE 0
        /\ a.selected = app.selected /\ a.channel = app.channel
        /\ a.nodesFilter = app.nodesFilter
    BY <1>0, <2>1 DEF AppRight, AppFields
  <2>4. AppRight(a)
    BY <1>0, <2>3 DEF AppRight
  <2>5. Fits(CurrentFragmentState(app, page), a)
    <3>1. page = "map" => CurrentFragmentState(app, page) = MapFragment(a)
      BY <2>3 DEF CurrentFragmentState, MapFragment
    <3>2. page = "nodes" => CurrentFragmentState(app, page) = NodesFragment(a)
      BY <2>3 DEF CurrentFragmentState, NodesFragment
    <3>3. page = "log" => CurrentFragmentState(app, page) = LogFragment(a)
      <4>1. PICK b : b = [app EXCEPT !.eventID = IF app.page = "log" THEN @ ELSE 0]
        OBVIOUS
      <4>2. b.eventID = app.eventID /\ b.filters = app.filters
        BY <1>0, <4>1 DEF AppRight, AppFields
      <4>3. page = "log" => CurrentFragmentState(app, page) = LogFragment(b)
        BY <4>1 DEF CurrentFragmentState
      <4> QED
        BY <2>3, <4>2, <4>3 DEF LogFragment
    <3>4. page = "stats" => CurrentFragmentState(app, page) = Fragment("stats")
      BY DEF CurrentFragmentState
    <3> QED
      BY <2>3, <3>1, <3>2, <3>3, <3>4 DEF Fits
  <2>6. Saved'
    BY <1>13, <1>a DEF NavigateToPage
  <2> QED
    BY <2>2, <2>4, <2>5, <2>6, HandleKeeps
<1>14. ASSUME OnFocusNodeHandled
       PROVE  NavInv'
  <2>1. /\ app' = [app EXCEPT !.focus = NoNode]
        /\ UNCHANGED <<booted, channels, savedView, history, position, leaving, late, forced, plan>>
    BY <1>14 DEF OnFocusNodeHandled
  <2>2. /\ DOMAIN app' = AppFields /\ app'.mapView = app.mapView
        /\ app'.page = app.page /\ app'.eventID = app.eventID /\ app'.selected = app.selected
        /\ app'.panel = app.panel /\ app'.nodesFilter = app.nodesFilter
        /\ app'.filters = app.filters /\ app'.channel = app.channel
    BY <1>0, <2>1 DEF AppRight, AppFields
  <2>3. AppRight(app')
    BY <1>0, <2>2 DEF AppRight
  <2>4. LogFragment(app').log = LogFragment(app).log
    BY <2>2 DEF LogFragment, Fragment
  <2>5. Hash' = Hash
    BY <2>1 DEF Hash
  <2>6. Told'
    <3> DEFINE s == ParseFragmentState(Hash)
    <3> HIDE DEF s
    <3>1. Tells(app, s, channels, forced) => Tells(app', s, channels, forced)
      BY <2>2, <2>4 DEF Tells
    <3> QED
      BY <2>1, <2>5, <3>1 DEF NavInv, Told, s
  <2> QED
    BY <2>1, <2>3, <2>6 DEF NavInv, Saved, HistoryRight
<1> QED
  BY <1>1, <1>2, <1>3, <1>4, <1>5, <1>6, <1>7, <1>8, <1>9, <1>10, <1>11, <1>12, <1>13, <1>14

LEMMA NavStarts == NavInit => NavInv
<1> SUFFICES ASSUME NavInit
             PROVE  NavInv
  OBVIOUS
<1>1. PICK chosen \in Plans : \E hash \in chosen.addresses, view \in chosen.saved,
                                 channel \in chosen.stored :
         /\ plan = chosen
         /\ history = <<hash>> /\ position = 1
         /\ app = LoadedApp(hash, view, channel)
         /\ savedView = view /\ channels = <<>> /\ leaving = NotLeaving
         /\ forced = [chat |-> FALSE, view |-> FALSE]
  BY DEF NavInit
<1>2. PICK hash \in chosen.addresses, view \in chosen.saved, channel \in chosen.stored :
         /\ plan = chosen
         /\ history = <<hash>> /\ position = 1
         /\ app = LoadedApp(hash, view, channel)
         /\ savedView = view /\ channels = <<>> /\ leaving = NotLeaving
         /\ forced = [chat |-> FALSE, view |-> FALSE]
  BY <1>1
<1>3. Numeric(hash.params) /\ view \in MapViews \cup {NoView}
  BY NavigationAssumption
<1>4. Hash = hash /\ Len(history) = 1 /\ history[1] = hash /\ Range(history) = {hash}
  BY <1>2 DEF Hash, Range
<1>5. HistoryRight(history, position)
  BY <1>2, <1>3, <1>4 DEF HistoryRight
<1>6. AppRight(app) /\ Tells(app, ParseFragmentState(Hash), channels, forced)
  BY <1>2, <1>3, <1>4, LoadedRight
<1>7. ~forced.chat /\ ~forced.view
  BY <1>2
<1>8. channels \in Seq(DOMAIN Lower)
  BY <1>2
<1> QED
  BY <1>2, <1>3, <1>5, <1>6, <1>7, <1>8 DEF NavInv, Saved, Told

LEMMA NavSteps == NavInv /\ [NavNext]_navVars => NavInv'
<1> SUFFICES ASSUME NavInv, [NavNext]_navVars
             PROVE  NavInv'
  OBVIOUS
<1>1. ASSUME NEW k \in 1..MaxHistory, GoTo(k)
      PROVE  NavInv'
  <2>1. k \in DOMAIN history /\ position' = k /\ history' = history /\ HandleURLChange
    BY <1>1 DEF GoTo
  <2>2. DOMAIN history = 1..Len(history)
    BY DEF NavInv, HistoryRight
  <2>3. HistoryRight(history', position') /\ Numeric(Hash'.params)
    BY <2>1, <2>2 DEF NavInv, HistoryRight, Hash
  <2> QED
    BY <2>1, <2>3, URLChangeKeeps
<1>2. ASSUME NEW hash \in plan.addresses, EditAddress(hash)
      PROVE  NavInv'
  <2>1. /\ history' = Append(SubSeq(history, 1, position), hash) /\ position' = position + 1
        /\ HandleURLChange
    BY <1>2 DEF EditAddress
  <2>2. Numeric(hash.params)
    BY NavigationAssumption DEF NavInv
  <2>3. HistoryRight(history', position') /\ Hash' = hash
    BY <2>1, <2>2, Pushed DEF NavInv
  <2> QED
    BY <2>1, <2>2, <2>3, URLChangeKeeps
<1>3. ASSUME Reload
      PROVE  NavInv'
  <2>1. /\ app' = LoadedApp(Hash, savedView, app.channel)
        /\ channels' = <<>> /\ forced' = [chat |-> FALSE, view |-> FALSE]
        /\ UNCHANGED <<savedView, history, position, leaving, plan>>
    BY <1>3 DEF Reload
  <2>2. Numeric(Hash.params) /\ savedView \in MapViews \cup {NoView}
    BY DEF NavInv, HistoryRight, Hash, Saved
  <2>3. AppRight(app') /\ Tells(app', ParseFragmentState(Hash), channels', forced')
    BY <2>1, <2>2, LoadedRight
  <2>4. Hash' = Hash
    BY <2>1 DEF Hash
  <2>5. ~forced'.chat /\ ~forced'.view /\ channels' \in Seq(DOMAIN Lower)
    BY <2>1
  <2> QED
    BY <2>1, <2>3, <2>4, <2>5 DEF NavInv, Saved, Told, HistoryRight
<1>4. CASE UNCHANGED navVars
  <2>1. UNCHANGED <<app, booted, channels, savedView, history, position, leaving, late, forced, plan>>
    BY <1>4 DEF navVars
  <2>2. Told'
    BY <2>1 DEF NavInv, Told, Hash
  <2> QED
    BY <2>1, <2>2 DEF NavInv, Saved, HistoryRight
<1> QED
  BY <1>1, <1>2, <1>3, <1>4, BootstrapKeeps, CanonicalChannelKeeps, UnmountKeeps, HandlersKeep
     DEF NavNext

\* What the page shows is what its address says, in every state of the application, whatever
\* the channels, the plans and what is typed into the address bar: App.tsx writes each change
\* into the URL and reads it back as it changes.
THEOREM UrlSaysWhatIsShown == NavSpec => []UrlAgrees
<1>1. NavInv => UrlAgrees
  BY DEF NavInv, Told, Tells, UrlAgrees
<1> QED
  BY <1>1, NavStarts, NavSteps, PTL DEF NavSpec

----------------------------------------------------------------------------
(* The notices.  The effects run only for what changed, so what holds when *)
(* they have run is an invariant of what they last ran with: each part     *)
(* below is claimed as long as the fields its effect looks at are those    *)
(* the effect has seen.                                                    *)

ServerFits ==
    /\ DOMAIN server = {"info", "hash", "sources", "releases", "latest"}
    /\ server.hash # NoHash
    /\ {NoRoute, Information} \cap ToSet(server.sources) = {}
    /\ server.sources \in Seq(ToSet(server.sources))
    /\ \A source \in ToSet(server.sources) : server.releases[source] \in Seq(Nat)
    /\ metaHash = OtherHash => server.hash = OtherHash
    /\ ~Meta => seenNotices.meta = NoHash /\ seenNotices.panel = NoRoute

\* The cookies are what the page goes by, from when the effect that reads them has run.
JarKept ==
    /\ DOMAIN jar = {"info", "updates"}
    /\ infoDismissedHash = jar.info
    /\ Meta /\ seenNotices.meta = metaHash => updatesDismissedAt = jar.updates

InfoKept ==
    /\ {infoRequested, infoLoading, infoError} \subseteq BOOLEAN
    /\ infoRequested => infoLoading
    /\ ~Meta => infoContent = NoHash
    /\ infoContent = metaHash => ~infoLoading
    /\ (/\ seenNotices.tab = appModalActiveTab /\ (seenNotices.open <=> appModalOpen)
        /\ seenNotices.content = infoContent /\ seenNotices.meta = metaHash
        /\ appModalOpen /\ appModalActiveTab = Information /\ Info /\ infoContent # metaHash)
          => /\ infoLoading <=> infoRequested
             /\ infoLoading \/ infoError \/ server.hash # metaHash

\* A source whose request was given up stays marked as loading, but is asked for again.
PanelKept ==
    /\ bySource \cap panelLoading = {}
    /\ panelRequest # NoRoute => panelRequest \in panelLoading
    /\ (/\ ShownPanel # NoRoute
        /\ seenNotices.panel = ShownPanel /\ (seenNotices.cached <=> ShownPanel \in bySource))
          => /\ ShownPanel \in panelLoading <=> panelRequest = ShownPanel
             /\ ShownPanel \in bySource \cup panelLoading \cup panelError

OwedKept ==
    /\ owed \in {NoRoute, route}
    /\ seenNotices.route = route /\ seenNotices.meta = metaHash /\ Info /\ owed = Information
          => appModalOpen /\ appModalActiveTab = Information
    /\ seenNotices.route = route /\ owed \in ToSet(server.sources)
          => (appModalOpen /\ appModalActiveTab = owed) \/ (Info /\ infoDismissedHash # metaHash)

SeenTyped == {appModalOpen, seenNotices.open, seenNotices.cached} \subseteq BOOLEAN

NoticesInv == SeenTyped /\ ServerFits /\ JarKept /\ InfoKept /\ PanelKept /\ OwedKept

\* What an effect compares.
LEMMA ChangedMeans ==
    ASSUME SeenTyped
    PROVE  /\ Changed("dismissed") <=> seenNotices.dismissed # infoDismissedHash
           /\ Changed("meta") <=> seenNotices.meta # metaHash
           /\ Changed("route") <=> seenNotices.route # route
           /\ Changed("open") <=> ~(seenNotices.open <=> appModalOpen)
           /\ Changed("tab") <=> seenNotices.tab # appModalActiveTab
           /\ Changed("content") <=> seenNotices.content # infoContent
           /\ Changed("panel") <=> seenNotices.panel # ShownPanel
           /\ Changed("cached") <=> ~(seenNotices.cached <=> ShownPanel \in bySource)
<1>1. PICK c \in BOOLEAN : c <=> ShownPanel \in bySource
  OBVIOUS
<1>2. (ShownPanel \in bySource) = c
  BY <1>1
<1> QED
  BY <1>1, <1>2 DEF Changed, NoticeState, SeenTyped

\* Effects that have run, and what they have run with.
LEMMA Remembered ==
    ASSUME seenNotices' = NoticeState
    PROVE  /\ seenNotices'.dismissed = infoDismissedHash /\ seenNotices'.meta = metaHash
           /\ seenNotices'.route = route /\ seenNotices'.open = appModalOpen
           /\ seenNotices'.tab = appModalActiveTab /\ seenNotices'.content = infoContent
           /\ seenNotices'.panel = ShownPanel
           /\ seenNotices'.cached \in BOOLEAN /\ (seenNotices'.cached <=> ShownPanel \in bySource)
<1>1. PICK c \in BOOLEAN : c <=> ShownPanel \in bySource
  OBVIOUS
<1>2. (ShownPanel \in bySource) = c
  BY <1>1
<1> QED
  BY <1>1, <1>2 DEF NoticeState

LEMMA QuietMeans ==
    ASSUME NoticesQuiet
    PROVE  /\ seenNotices.dismissed = infoDismissedHash /\ seenNotices.meta = metaHash
           /\ seenNotices.route = route /\ seenNotices.open = appModalOpen
           /\ seenNotices.tab = appModalActiveTab /\ seenNotices.content = infoContent
           /\ seenNotices.panel = ShownPanel
           /\ (seenNotices.cached <=> ShownPanel \in bySource)
<1>1. PICK c \in BOOLEAN : c <=> ShownPanel \in bySource
  OBVIOUS
<1>2. (ShownPanel \in bySource) = c
  BY <1>1
<1> QED
  BY <1>1, <1>2 DEF NoticesQuiet, NoticeState

\* The panel that is shown depends on the tabs and the one that is active.
LEMMA PanelStays ==
    ASSUME UNCHANGED <<metaHash, appModalOpen, appModalActiveTab>>,
           server'.sources = server.sources /\ server'.info = server.info
    PROVE  ShownPanel' = ShownPanel /\ Sources' = Sources /\ Tabs' = Tabs
<1>1. /\ Info' = Info /\ Meta' = Meta
      /\ server'.sources = server.sources
  BY DEF Info, Meta
<1>2. Sources' = Sources /\ Tabs' = Tabs
  BY <1>1 DEF Sources, Tabs
<1>3. ShownTab' = ShownTab
  BY <1>2 DEF ShownTab
<1> QED
  BY <1>2, <1>3 DEF ShownPanel

LEMMA NoPanelWithoutMeta ==
    ASSUME ~Meta, ServerFits
    PROVE  ShownPanel = NoRoute
BY DEF ShownPanel, Sources

LEMMA ServerStep == NoticesInv /\ NoticesNext => ServerFits'
<1> SUFFICES ASSUME NoticesInv, NoticesNext PROVE ServerFits'
  OBVIOUS
<1>1. CASE ChangeSiteInfo
  <2>1. PICK s : s = server'
    OBVIOUS
  <2>2. /\ DOMAIN s = DOMAIN server /\ s.sources = server.sources /\ s.releases = server.releases
        /\ s.hash = OtherHash
    BY <1>1, <2>1 DEF ChangeSiteInfo, NoticesInv, ServerFits
  <2> QED
    BY <1>1, <2>1, <2>2, NoticesAssumption DEF ChangeSiteInfo, NoticesInv, ServerFits, Meta
<1>2. CASE RunNoticeEffects
  BY <1>2, Remembered, NoPanelWithoutMeta DEF RunNoticeEffects, NoticesInv, ServerFits, Meta
<1>3. CASE ReloadNotices
  <2>1. PICK r : r = NoticeState'
    OBVIOUS
  <2>2. r.meta = NoHash /\ r.panel = ShownPanel' /\ DOMAIN r = DOMAIN NoticeState'
    BY <1>3, <2>1 DEF ReloadNotices, NoticeState
  <2>3. ShownPanel' = NoRoute
    BY <1>3 DEF ReloadNotices, ShownPanel, Sources, Meta
  <2>4. seenNotices' = [r EXCEPT !.route = NoRoute]
    BY <1>3, <2>1 DEF ReloadNotices
  <2>5. "meta" \in DOMAIN r /\ "panel" \in DOMAIN r
    BY <2>1 DEF NoticeState
  <2>6. seenNotices'.meta = NoHash /\ seenNotices'.panel = NoRoute
    BY <2>2, <2>3, <2>4, <2>5
  <2> QED
    BY <1>3, <2>6, NoticesAssumption DEF ReloadNotices, NoticesInv, ServerFits, Meta
<1>4. CASE LoadMeta
  BY <1>4, NoticesAssumption DEF LoadMeta, NoticesInv, ServerFits, Meta
<1>5. CASE AnswerInfo \/ FailInfo \/ AnswerUpdates \/ FailUpdates
  BY <1>5 DEF AnswerInfo, FailInfo, AnswerUpdates, FailUpdates, NoticesInv, ServerFits, Meta
<1>6. CASE ByUser
  BY <1>6 DEF ByUser, NoticesInv, ServerFits, Meta
<1> QED
  BY <1>1, <1>2, <1>3, <1>4, <1>5, <1>6
     DEF NoticesNext, OpenInfoModal, CloseAppModal, DismissInfo, FollowAddress, SelectTab, DismissUpdates

LEMMA Reloaded ==
    ASSUME ReloadNotices
    PROVE  /\ seenNotices'.meta = NoHash /\ seenNotices'.route = NoRoute
           /\ seenNotices'.open = FALSE /\ seenNotices'.tab = Information
           /\ seenNotices'.content = NoHash /\ ShownPanel' = NoRoute
           /\ seenNotices'.cached \in BOOLEAN
<1>1. PICK c \in BOOLEAN : c <=> (ShownPanel \in bySource)'
  OBVIOUS
<1>2. (ShownPanel \in bySource)' = c
  BY <1>1
<1>3. PICK r : r = NoticeState'
  OBVIOUS
<1>4. /\ r = [dismissed |-> infoDismissedHash', meta |-> metaHash', route |-> route',
              open |-> appModalOpen', tab |-> appModalActiveTab', content |-> infoContent',
              panel |-> ShownPanel', cached |-> c]
      /\ seenNotices' = [r EXCEPT !.route = NoRoute]
  BY <1>2, <1>3 DEF ReloadNotices, NoticeState
<1>5. ShownPanel' = NoRoute
  BY DEF ReloadNotices, ShownPanel, Sources, Meta
<1> QED
  BY <1>4, <1>5 DEF ReloadNotices

\* The steps by what they may change.
ServerAnswers == AnswerInfo \/ FailInfo \/ AnswerUpdates \/ FailUpdates

LEMMA NoticeSteps ==
    ASSUME NoticesNext
    PROVE  \/ RunNoticeEffects \/ LoadMeta \/ ServerAnswers \/ ChangeSiteInfo \/ ReloadNotices
           \/ /\ ByUser
              /\ \/ UNCHANGED dismissedVars
                 \/ DismissInfo
                 \/ \E source \in ToSet(server.sources) : DismissUpdates(source)
BY DEF NoticesNext, OpenInfoModal, CloseAppModal, DismissInfo, FollowAddress, SelectTab,
       DismissUpdates, ServerAnswers

LEMMA JarStep == NoticesInv /\ NoticesNext => JarKept'
<1> SUFFICES ASSUME NoticesInv, NoticesNext PROVE JarKept'
  OBVIOUS
<1>1. CASE RunNoticeEffects
  <2>1. Changed("meta") <=> seenNotices.meta # metaHash
    BY ChangedMeans DEF NoticesInv
  <2>2. UNCHANGED <<metaHash, jar, infoDismissedHash>>
    BY <1>1 DEF RunNoticeEffects
  <2>3. Meta => updatesDismissedAt' = jar.updates
    BY <1>1, <2>1 DEF RunNoticeEffects, DismissedEffect, NoticesInv, JarKept
  <2> QED
    BY <2>2, <2>3 DEF NoticesInv, JarKept, Meta
<1>2. CASE LoadMeta
  BY <1>2, NoticesAssumption DEF LoadMeta, NoticesInv, JarKept, ServerFits, Meta, dismissedVars
<1>3. CASE ServerAnswers \/ ChangeSiteInfo
  BY <1>3 DEF ServerAnswers, AnswerInfo, FailInfo, AnswerUpdates, FailUpdates, ChangeSiteInfo,
              NoticesInv, JarKept, Meta, dismissedVars
<1>4. CASE ReloadNotices
  BY <1>4 DEF ReloadNotices, NoticesInv, JarKept, Meta
<1>5. CASE ByUser /\ UNCHANGED dismissedVars
  BY <1>5 DEF ByUser, NoticesInv, JarKept, Meta, dismissedVars
<1>6. CASE DismissInfo
  <2>1. PICK j : j = jar'
    OBVIOUS
  <2>2. DOMAIN j = DOMAIN jar /\ j.info = metaHash /\ j.updates = jar.updates
    BY <1>6, <2>1 DEF DismissInfo, NoticesInv, JarKept
  <2> QED
    BY <1>6, <2>1, <2>2 DEF DismissInfo, ByUser, NoticesInv, JarKept, Meta
<1>7. ASSUME NEW source \in ToSet(server.sources), DismissUpdates(source) PROVE JarKept'
  <2>1. PICK j : j = jar'
    OBVIOUS
  <2>2. PICK u : u = updatesDismissedAt'
    OBVIOUS
  <2>3. PICK at : /\ u = [updatesDismissedAt EXCEPT ![source] = at]
                  /\ j = [jar EXCEPT !.updates[source] = at]
    BY <1>7, <2>1, <2>2 DEF DismissUpdates
  <2>4. DOMAIN j = DOMAIN jar /\ j.info = jar.info /\ j.updates = [jar.updates EXCEPT ![source] = at]
    BY <2>3 DEF NoticesInv, JarKept
  <2>5. seenNotices.meta = metaHash
    BY <1>7, QuietMeans DEF DismissUpdates, ByUser
  <2> QED
    BY <1>7, <2>1, <2>2, <2>3, <2>4, <2>5 DEF DismissUpdates, ByUser, NoticesInv, JarKept, Meta
<1> QED
  BY <1>1, <1>2, <1>3, <1>4, <1>5, <1>6, <1>7, NoticeSteps

LEMMA InfoStep == NoticesInv /\ NoticesNext => InfoKept'
<1> SUFFICES ASSUME NoticesInv, NoticesNext PROVE InfoKept'
  OBVIOUS
<1>0. InfoKept /\ ServerFits /\ SeenTyped
  BY DEF NoticesInv
<1>1. CASE RunNoticeEffects
  <2>1. /\ UNCHANGED <<metaHash, server>> /\ Info' = Info /\ Meta' = Meta
    BY <1>1 DEF RunNoticeEffects, Info, Meta
  <2>2. /\ seenNotices'.tab = appModalActiveTab /\ (seenNotices'.open <=> appModalOpen)
        /\ seenNotices'.content = infoContent /\ seenNotices'.meta = metaHash
    BY <1>1, Remembered DEF RunNoticeEffects
  <2>3. CASE UNCHANGED infoVars /\ ~Changed("tab") /\ ~Changed("open") /\ ~Changed("content") /\ ~Changed("meta")
    <3>1. /\ seenNotices.tab = appModalActiveTab /\ (seenNotices.open <=> appModalOpen)
          /\ seenNotices.content = infoContent /\ seenNotices.meta = metaHash
      BY <1>0, <2>3, ChangedMeans
    <3> QED
      BY <1>0, <2>1, <2>2, <2>3, <3>1 DEF InfoKept, infoVars
  <2>4. CASE ~(UNCHANGED infoVars /\ ~Changed("tab") /\ ~Changed("open") /\ ~Changed("content") /\ ~Changed("meta"))
    <3>1. PICK wanted \in BOOLEAN :
             wanted <=> appModalOpen /\ appModalActiveTab = Information /\ Info /\ infoContent # metaHash
      OBVIOUS
    <3>2. /\ infoRequested' \in BOOLEAN /\ infoLoading' \in BOOLEAN /\ infoError' \in BOOLEAN
          /\ infoRequested' <=> wanted
          /\ infoLoading' <=> (infoLoading \/ wanted)
          /\ UNCHANGED infoContent
      BY <1>1, <2>4, <3>1 DEF RunNoticeEffects, InfoEffect
    <3> QED
      BY <1>0, <2>1, <2>2, <3>1, <3>2 DEF InfoKept
  <2> QED
    BY <2>3, <2>4
<1>2. CASE LoadMeta
  BY <1>0, <1>2 DEF LoadMeta, InfoKept, ServerFits, Meta, Info, infoVars, modalVars
<1>3. CASE AnswerInfo
  BY <1>0, <1>3 DEF AnswerInfo, InfoKept, ServerFits, Meta, Info, infoVars, modalVars
<1>4. CASE FailInfo
  BY <1>0, <1>4 DEF FailInfo, InfoKept, ServerFits, Meta, Info, infoVars, modalVars
<1>5. CASE AnswerUpdates \/ FailUpdates
  BY <1>0, <1>5 DEF AnswerUpdates, FailUpdates, InfoKept, Meta, Info, infoVars, modalVars
<1>6. CASE ChangeSiteInfo
  <2>1. PICK s : s = server'
    OBVIOUS
  <2>2. s.info = server.info /\ s.hash = OtherHash /\ server.hash # OtherHash
    BY <1>0, <1>6, <2>1 DEF ChangeSiteInfo, ServerFits
  <2>3. s.hash # metaHash
    BY <1>0, <2>2 DEF ServerFits
  <2> QED
    BY <1>0, <1>6, <2>1, <2>2, <2>3 DEF ChangeSiteInfo, InfoKept, Meta, Info, infoVars, modalVars
<1>7. CASE ReloadNotices
  BY <1>7 DEF ReloadNotices, InfoKept, Meta, Info
<1>8. CASE ByUser
  BY <1>0, <1>8, QuietMeans DEF ByUser, InfoKept, Meta, Info, infoVars
<1> QED
  BY <1>1, <1>2, <1>3, <1>4, <1>5, <1>6, <1>7, <1>8, NoticeSteps DEF ServerAnswers

LEMMA PanelStep == NoticesInv /\ NoticesNext => PanelKept'
<1> SUFFICES ASSUME NoticesInv, NoticesNext PROVE PanelKept'
  OBVIOUS
<1>0. PanelKept /\ ServerFits /\ SeenTyped
  BY DEF NoticesInv
<1>1. CASE RunNoticeEffects
  <2>1. /\ seenNotices'.panel = ShownPanel
        /\ seenNotices'.cached \in BOOLEAN /\ (seenNotices'.cached <=> ShownPanel \in bySource)
    BY <1>1, Remembered DEF RunNoticeEffects
  <2>2. UNCHANGED bySource
    BY <1>1 DEF RunNoticeEffects, PanelEffect, panelVars
  <2>3. CASE ~Changed("panel") /\ ~Changed("cached")
    <3>1. seenNotices.panel = ShownPanel /\ (seenNotices.cached <=> ShownPanel \in bySource)
      BY <1>0, <2>3, ChangedMeans
    <3>2. UNCHANGED panelVars
      BY <1>1, <2>3 DEF RunNoticeEffects, PanelEffect
    <3> QED
      BY <1>0, <2>1, <3>1, <3>2 DEF PanelKept, panelVars
  <2>4. CASE Changed("panel") \/ Changed("cached")
    <3>1. CASE ShownPanel = NoRoute \/ ShownPanel \in bySource
      <4>1. panelRequest' = NoRoute /\ UNCHANGED <<panelLoading, panelError>>
        BY <1>1, <2>4, <3>1 DEF RunNoticeEffects, PanelEffect
      <4> QED
        BY <1>0, <2>1, <2>2, <3>1, <4>1 DEF PanelKept
    <3>2. CASE ~(ShownPanel = NoRoute \/ ShownPanel \in bySource)
      <4>1. /\ panelRequest' = ShownPanel
            /\ panelLoading' = panelLoading \cup {ShownPanel}
        BY <1>1, <2>4, <3>2 DEF RunNoticeEffects, PanelEffect
      <4> QED
        BY <1>0, <2>1, <2>2, <3>2, <4>1 DEF PanelKept
    <3> QED
      BY <3>1, <3>2
  <2> QED
    BY <2>3, <2>4
<1>2. CASE LoadMeta
  <2>1. seenNotices'.panel = NoRoute
    BY <1>0, <1>2 DEF LoadMeta, ServerFits
  <2> QED
    BY <1>0, <1>2, <2>1 DEF LoadMeta, PanelKept, panelVars
<1>3. CASE AnswerInfo \/ FailInfo
  <2>1. ShownPanel' = ShownPanel
    BY <1>3, PanelStays DEF AnswerInfo, FailInfo, modalVars
  <2> QED
    BY <1>0, <1>3, <2>1 DEF AnswerInfo, FailInfo, PanelKept, panelVars
<1>4. CASE AnswerUpdates
  <2>1. ShownPanel' = ShownPanel
    BY <1>4, PanelStays DEF AnswerUpdates, modalVars
  <2> QED
    BY <1>0, <1>4, <2>1 DEF AnswerUpdates, PanelKept
<1>5. CASE FailUpdates
  <2>1. ShownPanel' = ShownPanel
    BY <1>5, PanelStays DEF FailUpdates, modalVars
  <2> QED
    BY <1>0, <1>5, <2>1 DEF FailUpdates, PanelKept
<1>6. CASE ChangeSiteInfo
  <2>1. PICK s : s = server'
    OBVIOUS
  <2>2. s.info = server.info /\ s.sources = server.sources
    BY <1>0, <1>6, <2>1 DEF ChangeSiteInfo, ServerFits
  <2>3. ShownPanel' = ShownPanel
    BY <1>6, <2>1, <2>2, PanelStays DEF ChangeSiteInfo, modalVars
  <2> QED
    BY <1>0, <1>6, <2>3 DEF ChangeSiteInfo, PanelKept, panelVars
<1>7. CASE ReloadNotices
  BY <1>7, Reloaded DEF ReloadNotices, PanelKept
<1>8. CASE ByUser
  <2>1. seenNotices.panel = ShownPanel /\ (seenNotices.cached <=> ShownPanel \in bySource)
    BY <1>8, QuietMeans DEF ByUser
  <2> QED
    BY <1>0, <1>8, <2>1 DEF ByUser, PanelKept, panelVars
<1> QED
  BY <1>1, <1>2, <1>3, <1>4, <1>5, <1>6, <1>7, <1>8, NoticeSteps DEF ServerAnswers

LEMMA OwedStep == NoticesInv /\ NoticesNext => OwedKept'
<1> SUFFICES ASSUME NoticesInv, NoticesNext PROVE OwedKept'
  OBVIOUS
<1>0. OwedKept /\ ServerFits /\ SeenTyped
  BY DEF NoticesInv
<1>1. CASE RunNoticeEffects
  <2>1. UNCHANGED <<server, metaHash, infoDismissedHash, route, owed>> /\ Info' = Info
    BY <1>1 DEF RunNoticeEffects, Info, Meta
  <2>2. PICK unread \in BOOLEAN :
           unread <=> /\ Changed("dismissed") \/ Changed("meta")
                      /\ Info /\ infoDismissedHash # metaHash
    OBVIOUS
  <2>3. PICK asked \in BOOLEAN :
           asked <=> (Changed("route") \/ Changed("meta")) /\ Info /\ route = Information
    OBVIOUS
  <2>4. PICK source \in BOOLEAN : source <=> Changed("route") /\ route \notin {NoRoute, Information}
    OBVIOUS
  <2>5. /\ appModalOpen' <=> (appModalOpen \/ unread \/ asked \/ source)
        /\ source => appModalActiveTab' = route
        /\ ~source /\ (unread \/ asked) => appModalActiveTab' = Information
        /\ ~source /\ ~unread /\ ~asked => appModalActiveTab' = appModalActiveTab
    <3>1. OpeningEffects
      BY <1>1 DEF RunNoticeEffects
    <3> QED
      BY <2>2, <2>3, <2>4, <3>1 DEF OpeningEffects
  <2>6. /\ Changed("meta") <=> seenNotices.meta # metaHash
        /\ Changed("route") <=> seenNotices.route # route
    BY <1>0, ChangedMeans
  <2>7. seenNotices'.route = route /\ seenNotices'.meta = metaHash
    BY <1>1, Remembered DEF RunNoticeEffects
  <2>8. ASSUME Info, owed = Information PROVE appModalOpen' /\ appModalActiveTab' = Information
    <3>1. route = Information /\ ~source
      BY <1>0, <2>4, <2>8 DEF OwedKept, NoRoute, Information
    <3>2. CASE asked
      BY <2>5, <3>1, <3>2
    <3>3. CASE ~asked
      BY <1>0, <2>3, <2>5, <2>6, <2>8, <3>1, <3>3 DEF OwedKept
    <3> QED
      BY <3>2, <3>3
  <2>9. ASSUME owed \in ToSet(server.sources)
        PROVE  (appModalOpen' /\ appModalActiveTab' = owed) \/ (Info /\ infoDismissedHash # metaHash)
    <3>1. owed = route /\ route \notin {NoRoute, Information}
      BY <1>0, <2>9 DEF OwedKept, ServerFits
    <3>2. CASE source
      BY <2>5, <3>1, <3>2
    <3>3. CASE ~source
      BY <1>0, <2>2, <2>3, <2>4, <2>5, <2>6, <2>9, <3>1, <3>3 DEF OwedKept
    <3> QED
      BY <3>2, <3>3
  <2> QED
    BY <1>0, <2>1, <2>8, <2>9 DEF OwedKept
<1>2. CASE LoadMeta
  <2>1. seenNotices'.meta # metaHash' /\ ~Info /\ UNCHANGED server
    BY <1>0, <1>2 DEF LoadMeta, ServerFits, Meta, Info
  <2> QED
    BY <1>0, <1>2, <2>1 DEF LoadMeta, OwedKept, modalVars, dismissedVars
<1>3. CASE ServerAnswers
  BY <1>0, <1>3 DEF ServerAnswers, AnswerInfo, FailInfo, AnswerUpdates, FailUpdates, OwedKept,
     Info, Meta, modalVars, dismissedVars
<1>6. CASE ChangeSiteInfo
  <2>1. PICK s : s = server'
    OBVIOUS
  <2>2. s.info = server.info /\ s.sources = server.sources
    BY <1>0, <1>6, <2>1 DEF ChangeSiteInfo, ServerFits
  <2> QED
    BY <1>0, <1>6, <2>1, <2>2 DEF ChangeSiteInfo, OwedKept, Info, Meta, modalVars, dismissedVars
<1>7. CASE ReloadNotices
  <2>1. seenNotices'.route = NoRoute /\ owed' = route' /\ ~Info' /\ UNCHANGED server
    BY <1>7, Reloaded DEF ReloadNotices, Info, Meta
  <2>2. owed' = NoRoute => owed' \notin ToSet(server.sources)
    BY <1>0 DEF ServerFits
  <2> QED
    BY <2>1, <2>2 DEF OwedKept
<1>8. CASE ByUser
  <2>1. seenNotices'.route = route /\ UNCHANGED <<server, metaHash>> /\ Info' = Info
    BY <1>8, QuietMeans DEF ByUser, Info, Meta
  <2>2. NoRoute # Information /\ NoRoute \notin ToSet(server.sources) /\ Information \notin ToSet(server.sources)
    BY <1>0 DEF ServerFits, NoRoute, Information
  <2>3. CASE owed' = NoRoute
    BY <2>1, <2>2, <2>3 DEF OwedKept
  <2>4. CASE OpenInfoModal
    BY <2>1, <2>2, <2>4 DEF OpenInfoModal, OwedKept
  <2>5. ASSUME NEW asked, FollowAddress(asked), owed' # NoRoute PROVE OwedKept'
    BY <2>1, <2>5 DEF FollowAddress, OwedKept
  <2>6. CASE CloseAppModal \/ DismissInfo
    BY <2>3, <2>6 DEF CloseAppModal, DismissInfo
  <2>7. ASSUME NEW id, SelectTab(id) PROVE OwedKept'
    BY <2>3, <2>7 DEF SelectTab
  <2>8. ASSUME NEW source, DismissUpdates(source) PROVE OwedKept'
    BY <2>3, <2>8 DEF DismissUpdates
  <2> QED
    BY <1>1, <1>2, <1>3, <1>6, <1>7, <2>3, <2>4, <2>5, <2>6, <2>7, <2>8 DEF NoticesNext, ServerAnswers
<1> QED
  BY <1>1, <1>2, <1>3, <1>6, <1>7, <1>8, NoticeSteps

LEMMA SeenStep == NoticesInv /\ NoticesNext => SeenTyped'
<1> SUFFICES ASSUME NoticesInv, NoticesNext PROVE SeenTyped'
  OBVIOUS
<1>1. CASE RunNoticeEffects
  <2>1. seenNotices'.open = appModalOpen /\ seenNotices'.cached \in BOOLEAN
    BY <1>1, Remembered DEF RunNoticeEffects
  <2>2. appModalOpen' \in BOOLEAN
    BY <1>1 DEF RunNoticeEffects, OpeningEffects
  <2> QED
    BY <2>1, <2>2 DEF NoticesInv, SeenTyped
<1>2. CASE LoadMeta \/ ServerAnswers \/ ChangeSiteInfo
  BY <1>2 DEF LoadMeta, ServerAnswers, AnswerInfo, FailInfo, AnswerUpdates, FailUpdates, ChangeSiteInfo,
              NoticesInv, SeenTyped, modalVars
<1>3. CASE ReloadNotices
  BY <1>3, Reloaded DEF ReloadNotices, SeenTyped
<1>4. CASE ByUser
  <2>1. appModalOpen' \in {appModalOpen, TRUE, FALSE}
    BY <1>1, <1>2, <1>3, <1>4
       DEF NoticesNext, OpenInfoModal, CloseAppModal, DismissInfo, FollowAddress, SelectTab,
           DismissUpdates, modalVars, ServerAnswers, LoadMeta, ServerAnswers, AnswerInfo, FailInfo,
           AnswerUpdates, FailUpdates, ChangeSiteInfo, NoticesInv, SeenTyped
  <2> QED
    BY <1>4, <2>1 DEF ByUser, NoticesInv, SeenTyped
<1> QED
  BY <1>1, <1>2, <1>3, <1>4, NoticeSteps

LEMMA NoticesStart == NoticesInit => NoticesInv
<1> SUFFICES ASSUME NoticesInit PROVE NoticesInv
  OBVIOUS
<1>1. ~Meta /\ ShownPanel = NoRoute /\ bySource = {} /\ ShownPanel \notin bySource
  BY DEF NoticesInit, Meta, ShownPanel, Sources
<1>2. PICK r : r = NoticeState
  OBVIOUS
<1>3. /\ r.meta = NoHash /\ r.panel = NoRoute /\ r.open = FALSE /\ r.tab = Information
      /\ r.content = NoHash
      /\ DOMAIN r = {"dismissed", "meta", "route", "open", "tab", "content", "panel", "cached"}
  BY <1>1, <1>2 DEF NoticesInit, NoticeState
<1>4. r.cached \in BOOLEAN
  <2>1. PICK c \in BOOLEAN : c <=> ShownPanel \in bySource
    OBVIOUS
  <2>2. (ShownPanel \in bySource) = c
    BY <2>1
  <2> QED
    BY <1>2, <2>2 DEF NoticeState
<1>5. seenNotices = [r EXCEPT !.route = NoRoute]
  BY <1>2 DEF NoticesInit
<1>6. /\ seenNotices.meta = NoHash /\ seenNotices.panel = NoRoute /\ seenNotices.route = NoRoute
      /\ seenNotices.open = FALSE /\ seenNotices.cached \in BOOLEAN
  BY <1>3, <1>4, <1>5
<1>7. SeenTyped
  BY <1>6 DEF SeenTyped, NoticesInit
<1>8. ServerFits
  BY <1>6, NoticesAssumption DEF ServerFits, NoticesInit
<1>9. JarKept
  BY <1>1, NoticesAssumption DEF JarKept, NoticesInit
<1>10. InfoKept
  BY DEF InfoKept, NoticesInit
<1>11. PanelKept
  BY <1>1 DEF PanelKept, NoticesInit
<1>12. OwedKept
  <2>1. NoRoute \notin ToSet(server.sources) /\ NoRoute # Information
    BY <1>8 DEF ServerFits, NoRoute, Information
  <2> QED
    BY <1>1, <1>6, <2>1 DEF OwedKept, NoticesInit, Info
<1> QED
  BY <1>7, <1>8, <1>9, <1>10, <1>11, <1>12 DEF NoticesInv

LEMMA ImageIsFinite ==
    ASSUME NEW S, IsFiniteSet(S), NEW f
    PROVE  IsFiniteSet({f[x] : x \in S})
<1>1. PICK T : T = {f[x] : x \in S}
  OBVIOUS
<1>2. PICK g : g = [x \in S |-> f[x]]
  OBVIOUS
<1>3. g \in [S -> T] /\ \A t \in T : \E x \in S : g[x] = t
  BY <1>1, <1>2
<1>4. g \in Surjection(S, T)
  BY <1>3 DEF Surjection
<1>5. IsFiniteSet(T)
  BY <1>4, FS_Surjection
<1> QED
  BY <1>1, <1>5

\* The sum over the sources is not 0 if one of them has an unread release.
LEMMA UnreadIsCounted == ServerFits => (UpdatesUnread > 0 <=> \E s \in Sources : HasUnread(s))
<1> SUFFICES ASSUME ServerFits PROVE UpdatesUnread > 0 <=> \E s \in Sources : HasUnread(s)
  OBVIOUS
<1>1. PICK of : of = [source \in Sources |-> {source} \X NewerReleases(source)]
  OBVIOUS
<1>2. PICK parts : parts = {of[source] : source \in Sources}
  OBVIOUS
<1>3. parts = {{source} \X NewerReleases(source) : source \in Sources}
  BY <1>1, <1>2
<1>4. IsFiniteSet(Sources)
  <2>1. IsFiniteSet(ToSet(server.sources))
    <3>1. PICK n \in Nat : DOMAIN server.sources = 1..n
      BY LenProperties DEF ServerFits
    <3>2. IsFiniteSet(1..n)
      BY FS_Interval
    <3>3. IsFiniteSet({server.sources[i] : i \in 1..n})
      BY <3>2, ImageIsFinite
    <3> QED
      BY <3>1, <3>3 DEF ToSet
  <2> QED
    BY <2>1, FS_EmptySet DEF Sources
<1>5. \A source \in Sources : IsFiniteSet(of[source])
  <2>1. TAKE source \in Sources
  <2>2. server.releases[source] \in Seq(Nat)
    BY DEF Sources, ServerFits
  <2>3. PICK n \in Nat : DOMAIN server.releases[source] = 1..n
    BY <2>2, LenProperties
  <2>4. IsFiniteSet(1..n)
    BY FS_Interval
  <2>5. NewerReleases(source) \subseteq 1..n
    BY <2>3 DEF NewerReleases
  <2>6. IsFiniteSet(NewerReleases(source))
    BY <2>4, <2>5, FS_Subset
  <2>7. IsFiniteSet({source})
    BY FS_Singleton
  <2>8. IsFiniteSet({source} \X NewerReleases(source))
    BY <2>6, <2>7, FS_Product
  <2> QED
    BY <1>1, <2>8
<1>6. IsFiniteSet(UNION parts)
  <2>1. IsFiniteSet(parts)
    BY <1>2, <1>4, ImageIsFinite
  <2>2. \A part \in parts : IsFiniteSet(part)
    BY <1>2, <1>5
  <2> QED
    BY <2>1, <2>2, FS_UNION
<1>7. Cardinality(UNION parts) \in Nat /\ (Cardinality(UNION parts) = 0 <=> UNION parts = {})
  BY <1>6, FS_CardinalityType, FS_EmptySet
<1>8. UNION parts # {} <=> \E s \in Sources : NewerReleases(s) # {}
  <2>1. ASSUME NEW s \in Sources, NewerReleases(s) # {} PROVE UNION parts # {}
    <3>1. PICK i \in NewerReleases(s) : TRUE
      BY <2>1
    <3>2. <<s, i>> \in of[s] /\ of[s] \in parts
      BY <1>1, <1>2, <3>1
    <3> QED
      BY <3>2
  <2>2. ASSUME NEW part \in parts, NEW u \in part PROVE \E s \in Sources : NewerReleases(s) # {}
    BY <1>3, <2>2
  <2> QED
    BY <2>1, <2>2
<1>9. \A s \in Sources : NewerReleases(s) # {} <=> HasUnread(s)
  BY DEF NewerReleases, HasUnread
<1>10. UpdatesUnread = Cardinality(UNION parts)
  BY <1>3 DEF UpdatesUnread
<1> QED
  BY <1>7, <1>8, <1>9, <1>10

LEMMA TabsTyped ==
    ASSUME ServerFits
    PROVE  Tabs \in Seq(ToSet(server.sources) \cup {Information})
<1>1. PICK S : S = ToSet(server.sources) \cup {Information}
  OBVIOUS
<1>2. <<Information>> \in Seq(S) /\ <<>> \in Seq(S)
  BY <1>1, EmptySeq
<1>3. server.sources \in Seq(S)
  BY <1>1 DEF ServerFits
<1>4. \A a, b \in Seq(S) : a \o b \in Seq(S)
  BY ConcatProperties
<1> QED
  BY <1>1, <1>2, <1>3, <1>4 DEF Tabs

LEMMA TabsAre ==
    ASSUME ServerFits, NEW x, Contains(Tabs, x)
    PROVE  (Info /\ x = Information) \/ x \in Sources
<1>1. PICK S : S = ToSet(server.sources) \cup {Information}
  OBVIOUS
<1>2. PICK a : a = IF Info THEN <<Information>> ELSE <<>>
  OBVIOUS
<1>3. PICK b : b = IF Meta THEN server.sources ELSE <<>>
  OBVIOUS
<1>4. a \in Seq(S) /\ Len(a) \in Nat /\ \A i \in 1..Len(a) : Info /\ a[i] = Information
  <2>1. CASE Info
    BY <1>1, <1>2, <2>1
  <2>2. CASE ~Info
    <3>1. a = <<>> /\ Len(<<>>) = 0 /\ <<>> \in Seq(S)
      BY <1>2, <2>2, EmptySeq
    <3> QED
      BY <3>1
  <2> QED
    BY <2>1, <2>2
<1>5. b \in Seq(S) /\ Len(b) \in Nat /\ \A i \in 1..Len(b) : b[i] \in Sources
  <2>1. <<>> \in Seq(S) /\ Len(<<>>) = 0
    BY EmptySeq
  <2>2. server.sources \in Seq(S) /\ Len(server.sources) \in Nat /\ DOMAIN server.sources = 1..Len(server.sources)
    <3>1. server.sources \in Seq(ToSet(server.sources)) /\ ToSet(server.sources) \subseteq S
      BY <1>1 DEF ServerFits
    <3> QED
      BY <3>1, LenProperties
  <2>3. Meta => \A i \in 1..Len(server.sources) : server.sources[i] \in Sources
    BY <2>2 DEF Sources, ToSet
  <2> QED
    BY <1>3, <2>1, <2>2, <2>3
<1>6. Tabs = a \o b
  BY <1>2, <1>3 DEF Tabs
<1>7. PICK i \in 1..Len(Tabs) : Tabs[i] = x
  BY DEF Contains
<1>8. /\ Len(Tabs) = Len(a) + Len(b)
      /\ Tabs[i] = IF i <= Len(a) THEN a[i] ELSE b[i - Len(a)]
  <2>1. /\ Len(a \o b) = Len(a) + Len(b)
        /\ \A k \in 1..Len(a) + Len(b) : (a \o b)[k] = IF k <= Len(a) THEN a[k] ELSE b[k - Len(a)]
    BY <1>4, <1>5, ConcatProperties
  <2> QED
    BY <1>6, <1>7, <2>1
<1> QED
  BY <1>4, <1>5, <1>7, <1>8

LEMMA NoticesTold == NoticesInv => NoticesAgree
<1> SUFFICES ASSUME NoticesInv, NoticesQuiet PROVE NoticesAgree
  BY DEF NoticesAgree
<1>0. ServerFits /\ JarKept /\ InfoKept /\ PanelKept /\ OwedKept
  BY DEF NoticesInv
<1>1. ShownTab = Information /\ appModalActiveTab = Information =>
        /\ infoLoading <=> infoRequested
        /\ infoContent = metaHash \/ infoLoading \/ infoError \/ server.hash # metaHash
  <2>1. HAVE ShownTab = Information /\ appModalActiveTab = Information
  <2>2. appModalOpen /\ Tabs # <<>>
    BY <2>1 DEF ShownTab, NoRoute, Information
  <2>3. Info
    <3>1. CASE Contains(Tabs, Information)
      BY <1>0, <3>1, TabsAre DEF ServerFits, Sources
    <3>2. CASE ~Contains(Tabs, Information)
      <4>1. Head(Tabs) = Information
        BY <2>1, <2>2, <3>2 DEF ShownTab
      <4>2. Tabs \in Seq(ToSet(server.sources) \cup {Information})
        BY <1>0, TabsTyped
      <4>3. Len(Tabs) \in Nat \ {0} /\ Head(Tabs) = Tabs[1]
        BY <2>2, <4>2, EmptySeq
      <4> QED
        BY <3>2, <4>1, <4>3 DEF Contains
    <3> QED
      BY <3>1, <3>2
  <2>4. seenNotices.open <=> appModalOpen
    BY QuietMeans
  <2> QED
    BY <1>0, <2>1, <2>2, <2>3, <2>4, QuietMeans DEF InfoKept
<1>2. ShownPanel # NoRoute =>
        /\ ShownPanel \in panelLoading <=> panelRequest = ShownPanel
        /\ ShownPanel \in bySource \cup panelLoading \cup panelError
  BY <1>0, QuietMeans DEF PanelKept
<1>3. infoDismissedHash = jar.info /\ (Meta => updatesDismissedAt = jar.updates)
  BY <1>0, QuietMeans DEF JarKept
<1>4. UpdatesUnread > 0 <=> \E s \in Sources : HasUnread(s)
  BY <1>0, UnreadIsCounted
<1>5. Meta /\ Contains(Tabs, owed) => ShownTab = owed \/ (Info /\ infoDismissedHash # metaHash)
  <2>1. HAVE Meta /\ Contains(Tabs, owed)
  <2>2. (Info /\ owed = Information) \/ owed \in ToSet(server.sources)
    BY <1>0, <2>1, TabsAre DEF Sources
  <2>3. (appModalOpen /\ appModalActiveTab = owed) \/ (Info /\ infoDismissedHash # metaHash)
    BY <1>0, <2>2, QuietMeans DEF OwedKept
  <2>4. Tabs # <<>>
    <3>1. PICK i \in 1..Len(Tabs) : Tabs[i] = owed
      BY <2>1 DEF Contains
    <3>2. Len(<<>>) = 0
      BY EmptySeq
    <3> QED
      BY <3>1, <3>2
  <2> QED
    BY <2>1, <2>3, <2>4 DEF ShownTab
<1> QED
  BY <1>1, <1>2, <1>3, <1>4, <1>5 DEF NoticesAgree

\* When the effects have run, what is shown of the information and the updates is there,
\* awaited or failed, what was dismissed is what the cookies say, the badge counts what the
\* dots show, and what an address asked for is shown.
THEOREM NoticesAreConsistent == NoticesSpec => []NoticesAgree
<1>1. NoticesInv /\ [NoticesNext]_noticeVars => NoticesInv'
  <2>1. CASE NoticesNext
    BY <2>1, ServerStep, JarStep, InfoStep, PanelStep, OwedStep, SeenStep DEF NoticesInv
  <2>2. CASE UNCHANGED noticeVars
    <3>1. ShownPanel' = ShownPanel
      BY <2>2, PanelStays DEF noticeVars, modalVars
    <3> QED
      BY <2>2, <3>1 DEF noticeVars, modalVars, dismissedVars, infoVars, panelVars, NoticesInv, SeenTyped,
                 ServerFits, JarKept, InfoKept, PanelKept, OwedKept, Info, Meta
  <2> QED
    BY <2>1, <2>2
<1> QED
  BY <1>1, NoticesStart, NoticesTold, PTL DEF NoticesSpec

----------------------------------------------------------------------------
(* The chat.  Two answers race: that of the newest messages and that of    *)
(* older ones.  While older ones are asked for, the request is for what    *)
(* follows the last row that is shown, or is marked stale; so what it      *)
(* brings either continues the list or marks it mixed.  A page is the      *)
(* newest rows of its channel and no other, and all of them when it is not *)
(* full; so a list that is not mixed goes down, has every row of its       *)
(* channel down to its last one, and all of them once no more is offered.  *)

ChatTyped ==
    /\ chatTable \in Seq(RowChannels)
    /\ chatMessages \in Seq(1..Len(chatTable))
    /\ chatChannel \in ChatChannels
    /\ {effectChannel, loadedFor, chatRequest, unloaded} \subseteq ChatChannels \cup {NoChat}
    /\ {chatHasMore, mixed, turnedBack, cutOff} \subseteq BOOLEAN
    /\ moreRequest \in [channel : ChatChannels \cup {NoChat}, before : Nat, stale : BOOLEAN]

NoneTwice == \A i, j \in DOMAIN chatMessages : i # j => chatMessages[i] # chatMessages[j]

ChannelOwed ==
    /\ chatRequest # NoChat => chatRequest = effectChannel
    /\ effectChannel = chatChannel =>
          loadedFor = chatChannel \/ unloaded = chatChannel \/ chatRequest = chatChannel

Descends(list) == \A i, j \in DOMAIN list : i < j => list[i] > list[j]

IsShown(id) == \E k \in DOMAIN chatMessages : chatMessages[k] = id

ListIsWhole == loadedFor # NoChat /\ ~mixed =>
    /\ Descends(chatMessages)
    /\ chatMessages # <<>> =>
          \A i \in DOMAIN chatTable :
              ListedIn(loadedFor, i) /\ i >= Last(chatMessages) => IsShown(i)

EndIsReached ==
    loadedFor # NoChat /\ loadedFor = effectChannel
    /\ ~mixed /\ ~turnedBack /\ ~cutOff /\ ~chatHasMore =>
        \A i \in DOMAIN chatTable : ListedIn(loadedFor, i) => IsShown(i)

MoreContinues ==
    moreRequest # NoMore =>
        /\ moreRequest.before \in 1..Len(chatTable)
        /\ ~moreRequest.stale =>
               /\ moreRequest.channel = loadedFor
               /\ chatMessages # <<>> /\ moreRequest.before = Last(chatMessages)

ChatInv == /\ ChatTyped /\ NoneTwice /\ ChannelOwed
           /\ ListIsWhole /\ EndIsReached /\ MoreContinues

LEMMA LastIn ==
    ASSUME NEW S, NEW list \in Seq(S), list # <<>>
    PROVE  /\ Len(list) \in Nat \ {0} /\ DOMAIN list = 1..Len(list)
           /\ Last(list) = list[Len(list)] /\ Last(list) \in S
BY EmptySeq, LenProperties, ElementOfSeq DEF Last

LEMMA ChatTold == ChatInv => ChatShowsChannel
<1>1. SUFFICES ASSUME ChatInv PROVE ChatShowsChannel
  OBVIOUS
<1>2. NoChat \notin ChatChannels
  BY ChatAssumption
<1>3. AtRest => loadedFor = chatChannel \/ unloaded = chatChannel
  BY <1>1, <1>2 DEF ChatInv, ChatTyped, ChannelOwed, AtRest
<1>4. /\ chatTable \in Seq(RowChannels) /\ chatMessages \in Seq(1..Len(chatTable))
      /\ chatChannel # NoChat
  BY <1>1, <1>2 DEF ChatInv, ChatTyped
<1>5. \A i : IsShown(i) => i \in ShownIDs
  BY DEF IsShown, ShownIDs, ToSet
<1>6. AtRest /\ loadedFor = chatChannel /\ ~mixed /\ chatMessages # <<>> =>
         \A i \in Oldest..Len(chatTable) : ListedIn(chatChannel, i) => i \in ShownIDs
  <2>1. SUFFICES ASSUME loadedFor = chatChannel, ~mixed, chatMessages # <<>>,
                        NEW i \in Oldest..Len(chatTable), ListedIn(chatChannel, i)
                 PROVE  IsShown(i)
    BY <1>5
  <2>2. Last(chatMessages) \in 1..Len(chatTable)
    BY <1>4, <2>1, LastIn
  <2>3. i \in DOMAIN chatTable /\ i >= Last(chatMessages)
    BY <1>4, <2>2 DEF Oldest
  <2> QED
    BY <1>1, <1>4, <2>1, <2>3 DEF ChatInv, ListIsWhole
<1>7. AtRest /\ loadedFor = chatChannel /\ ~mixed /\ ~turnedBack /\ ~cutOff /\ ~chatHasMore =>
         \A i \in DOMAIN chatTable :
             ListedIn(chatChannel, i) /\ i \notin ShownIDs => i > Oldest
  BY <1>1, <1>4, <1>5 DEF ChatInv, EndIsReached, AtRest
<1> QED
  BY <1>1, <1>3, <1>6, <1>7 DEF ChatInv, NoneTwice, ChatShowsChannel

LEMMA NewestFirstIs ==
    ASSUME NEW ids \in SUBSET Nat, IsFiniteSet(ids), NEW list \in NewestFirst(ids)
    PROVE  /\ list \in Seq(ids) /\ Descends(list)
           /\ \A id \in ids : \E k \in DOMAIN list : list[k] = id
           /\ list = <<>> <=> ids = {}
<1>1. Cardinality(ids) \in Nat
  BY FS_CardinalityType
<1>2. /\ list \in [1..Cardinality(ids) -> ids] /\ ToSet(list) = ids
      /\ \A i, j \in DOMAIN list : i < j => list[i] > list[j]
  BY Zenon DEF NewestFirst
<1>3. list \in Seq(ids)
  BY <1>1, <1>2
<1>4. \A id \in ids : \E k \in DOMAIN list : list[k] = id
  BY <1>2 DEF ToSet
<1>5. list = <<>> => ids = {}
  BY <1>2, <1>3, <1>4, EmptySeq
<1>6. ids = {} => list = <<>>
  BY <1>3, LastIn
<1> QED
  BY <1>2, <1>3, <1>4, <1>5, <1>6 DEF Descends

RowsOf(channel, ids) == {i \in ids : ListedIn(channel, i)}

LEMMA PageIsNewest ==
    ASSUME NEW n \in Nat, NEW channel
    PROVE  LET page == ChatPage(channel, 1..n)
           IN  /\ page \subseteq RowsOf(channel, 1..n) /\ IsFiniteSet(page)
               /\ \A id \in page : \A j \in RowsOf(channel, 1..n) : j > id => j \in page
               /\ Cardinality(page) < PageSize => page = RowsOf(channel, 1..n)
<1> DEFINE rows == RowsOf(channel, 1..n)
           newer(i) == {j \in rows : i < j}
           page == ChatPage(channel, 1..n)
<1>1. page = {i \in rows : Cardinality(newer(i)) < PageSize}
  BY DEF ChatPage, RowsOf
<1>2. /\ rows \subseteq 1..n /\ IsFiniteSet(rows)
  <2>1. rows \subseteq 1..n
    BY DEF RowsOf
  <2>2. IsFiniteSet(1..n)
    BY FS_Interval
  <2> QED
    BY <2>1, <2>2, FS_Subset
<1>3. page \subseteq rows /\ IsFiniteSet(page)
  <2>1. page \subseteq rows
    BY <1>1
  <2> QED
    BY <1>2, <2>1, FS_Subset
<1>4. PageSize \in Nat
  BY ChatAssumption
<1>5. ASSUME NEW s, NEW t, s \subseteq t, t \subseteq rows
      PROVE  /\ Cardinality(s) \in Nat /\ Cardinality(t) \in Nat
             /\ Cardinality(s) <= Cardinality(t)
  <2>1. IsFiniteSet(t)
    BY <1>2, <1>5, FS_Subset
  <2> QED
    BY <2>1, <1>5, FS_Subset, FS_CardinalityType
<1>6. ASSUME NEW id \in page, NEW j \in rows, j > id PROVE j \in page
  <2>1. newer(j) \subseteq newer(id) /\ newer(id) \subseteq rows
    BY <1>2, <1>3, <1>6
  <2>2. /\ Cardinality(newer(j)) \in Nat /\ Cardinality(newer(id)) \in Nat
        /\ Cardinality(newer(j)) <= Cardinality(newer(id))
    BY <1>5, <2>1
  <2>3. Cardinality(newer(id)) < PageSize
    BY <1>1
  <2> HIDE DEF newer
  <2>4. Cardinality(newer(j)) < PageSize
    BY <1>4, <2>2, <2>3
  <2> QED
    BY <1>1, <2>4
<1>7. ASSUME Cardinality(page) < PageSize, NEW r \in rows, r \notin page PROVE FALSE
  <2> DEFINE left == {m \in Nat : n - m \in rows /\ n - m \notin page}
  <2>1. n - r \in left
    BY <1>2, <1>7
  <2>2. PICK m \in left : \A y \in left : m <= y
    BY <2>1, LeastExists
  <2>3. PICK top : top = n - m /\ top \in rows /\ top \notin page /\ top \in Int
    BY <2>2
  <2>4. \A j \in rows : j > top => j \in page
    <3>1. SUFFICES ASSUME NEW j \in rows, j > top, j \notin page PROVE FALSE
      OBVIOUS
    <3>2. j \in Nat /\ j <= n
      BY <1>2
    <3>3. n - j \in Nat /\ n - (n - j) = j
      BY <3>2
    <3>4. n - j \in left
      BY <3>1, <3>3
    <3>5. m <= n - j
      BY <2>2, <3>4
    <3> QED
      BY <2>2, <2>3, <3>1, <3>2, <3>5
  <2>5. newer(top) \subseteq page /\ page \subseteq rows
    BY <2>4, <1>3
  <2>6. /\ Cardinality(newer(top)) \in Nat /\ Cardinality(page) \in Nat
        /\ Cardinality(newer(top)) <= Cardinality(page)
    BY <1>5, <2>5
  <2> HIDE DEF newer
  <2>7. Cardinality(newer(top)) < PageSize
    BY <1>4, <1>7, <2>6
  <2> QED
    BY <1>1, <2>3, <2>7
<1>8. Cardinality(page) < PageSize => page = rows
  BY <1>3, <1>7
<1> QED
  BY <1>3, <1>6, <1>8

LEMMA PushIs ==
    ASSUME NEW n \in Nat, NEW list \in Seq(1..n)
    PROVE  LET pushed == Push(list, n + 1)
           IN  /\ pushed \in Seq(1..(n + 1)) /\ pushed # <<>> /\ pushed[1] = n + 1
               /\ Len(pushed) = (IF Len(list) < Capacity THEN Len(list) + 1 ELSE Capacity)
               /\ \A k \in DOMAIN pushed : k > 1 => k - 1 \in DOMAIN list /\ pushed[k] = list[k - 1]
<1> DEFINE all == <<n + 1>> \o list
<1>1. Capacity \in Nat \ {0} /\ Len(list) \in Nat
  BY ChatAssumption, LenProperties
<1>2. list \in Seq(1..(n + 1))
  BY SeqMonotonic
<1>3. /\ all \in Seq(1..(n + 1)) /\ Len(all) = Len(list) + 1 /\ all[1] = n + 1
      /\ \A k \in 2..Len(all) : k - 1 \in DOMAIN list /\ all[k] = list[k - 1]
  BY <1>1, <1>2
<1> HIDE DEF all
<1>4. PICK m : m = Min({Len(all), Capacity})
  OBVIOUS
<1>5. m = IF Len(list) < Capacity THEN Len(list) + 1 ELSE Capacity
  <2>1. /\ Len(all) \in Nat /\ {Len(all), Capacity} \subseteq Nat
    BY <1>1, <1>3
  <2>2. m \in {Len(all), Capacity} /\ \A y \in {Len(all), Capacity} : m <= y
    BY <1>4, <2>1, LeastExists
  <2> QED
    BY <1>1, <1>3, <2>1, <2>2
<1>6. m \in 1..Len(all)
  BY <1>1, <1>3, <1>5
<1>7. PICK pushed : pushed = SubSeq(all, 1, m)
  OBVIOUS
<1>8. /\ pushed \in Seq(1..(n + 1)) /\ Len(pushed) = m
      /\ \A k \in 1..m : pushed[k] = all[k]
  <2>1. ASSUME NEW i \in 1..m PROVE all[i] \in 1..(n + 1)
    <3>1. i \in 1..Len(all)
      BY <1>1, <1>3, <1>6
    <3> QED
      BY <1>3, <3>1, ElementOfSeq
  <2>2. m \in Nat /\ m >= 1
    BY <1>1, <1>3, <1>6
  <2> QED
    BY <1>7, <2>1, <2>2, SubSeqProperties
<1>9. pushed = Push(list, n + 1)
  BY <1>4, <1>7 DEF Push, all
<1>10. DOMAIN pushed = 1..m /\ m \in Nat /\ m >= 1 /\ m <= Len(all) /\ Len(all) \in Nat
  BY <1>1, <1>3, <1>6, <1>8
<1>11. pushed # <<>> /\ pushed[1] = n + 1
  BY <1>3, <1>8, <1>10, EmptySeq
<1>12. \A k \in DOMAIN pushed : k > 1 => k - 1 \in DOMAIN list /\ pushed[k] = list[k - 1]
  BY <1>3, <1>8, <1>10
<1> HIDE DEF all
<1> QED
  BY <1>5, <1>8, <1>9, <1>11, <1>12

LEMMA ChatStarts == ChatInit => ChatInv
<1>1. SUFFICES ASSUME ChatInit PROVE ChatInv
  OBVIOUS
<1>2. /\ chatTable \in Seq(RowChannels) /\ chatChannel \in ChatChannels /\ effectChannel = NoChat
      /\ chatMessages = <<>> /\ loadedFor = NoChat /\ chatRequest = NoChat /\ unloaded = NoChat
      /\ ~chatHasMore /\ ~mixed /\ ~turnedBack /\ ~cutOff
      /\ {chatHasMore, mixed, turnedBack, cutOff} \subseteq BOOLEAN
      /\ moreRequest = NoMore
  BY <1>1, ChatAssumption, Zenon DEF ChatInit
<1>3. chatMessages \in Seq(1..Len(chatTable)) /\ DOMAIN chatMessages = {}
  BY <1>2, EmptySeq
<1>4. moreRequest \in [channel : ChatChannels \cup {NoChat}, before : Nat, stale : BOOLEAN]
  BY <1>2 DEF NoMore
<1>5. ChatTyped
  BY <1>2, <1>3, <1>4 DEF ChatTyped
<1>6. NoChat \notin ChatChannels
  BY ChatAssumption
<1> QED
  BY <1>2, <1>3, <1>5, <1>6
     DEF ChatInv, NoneTwice, ChannelOwed, ListIsWhole, EndIsReached, MoreContinues

LEMMA AnswerKeeps == ChatInv /\ AnswerChat => ChatInv'
<1>1. SUFFICES ASSUME ChatInv, AnswerChat PROVE ChatInv'
  OBVIOUS
<1>2. ChatTyped /\ ChannelOwed /\ MoreContinues
  BY <1>1 DEF ChatInv
<1>3. PICK c : c = chatRequest
  OBVIOUS
<1>4. c \in ChatChannels /\ c = effectChannel /\ c # NoChat
  BY <1>1, <1>2, <1>3 DEF AnswerChat, ChatTyped, ChannelOwed
<1>5. PICK n : n = Len(chatTable)
  OBVIOUS
<1>6. n \in Nat /\ chatTable \in Seq(RowChannels) /\ DOMAIN chatTable = 1..n
  BY <1>2, <1>5, LenProperties DEF ChatTyped
<1>7. PICK page : page = ChatPage(c, 1..n)
  OBVIOUS
<1>8. /\ page \subseteq RowsOf(c, 1..n) /\ IsFiniteSet(page)
      /\ \A id \in page : \A j \in RowsOf(c, 1..n) : j > id => j \in page
      /\ Cardinality(page) < PageSize => page = RowsOf(c, 1..n)
  BY <1>6, <1>7, PageIsNewest
<1>9. /\ chatMessages' \in NewestFirst(page)
      /\ chatHasMore' = (Cardinality(page) >= PageSize)
      /\ loadedFor' = c /\ chatRequest' = NoChat
      /\ unloaded' = IF unloaded = c THEN NoChat ELSE unloaded
      /\ mixed' = FALSE /\ turnedBack' = FALSE /\ cutOff' = FALSE
      /\ moreRequest' = IF moreRequest = NoMore THEN NoMore ELSE [moreRequest EXCEPT !.stale = TRUE]
      /\ chatTable' = chatTable /\ chatChannel' = chatChannel /\ effectChannel' = effectChannel
  BY <1>1, <1>3, <1>6, <1>7 DEF AnswerChat
<1>23. chatHasMore' \in BOOLEAN /\ (chatHasMore' <=> Cardinality(page) >= PageSize)
  <2>1. PICK more \in BOOLEAN : more <=> Cardinality(page) >= PageSize
    OBVIOUS
  <2>2. (Cardinality(page) >= PageSize) = more
    BY <2>1
  <2>3. chatHasMore' = more
    BY <1>9, <2>2, Zenon
  <2> QED
    BY <2>1, <2>3
<1>10. PICK list : list = chatMessages'
  OBVIOUS
<1>11. /\ page \in SUBSET Nat /\ page \subseteq 1..n
       /\ \A id \in page : ListedIn(c, id)
  BY <1>6, <1>8 DEF RowsOf
<1>12. /\ list \in Seq(page) /\ Descends(list)
       /\ \A id \in page : \E k \in DOMAIN list : list[k] = id
       /\ list = <<>> <=> page = {}
  BY <1>8, <1>9, <1>10, <1>11, NewestFirstIs
<1>13. list \in Seq(1..n)
  BY <1>11, <1>12, SeqMonotonic
<1>14. PICK more : more = moreRequest'
  OBVIOUS
<1>15. /\ more \in [channel : ChatChannels \cup {NoChat}, before : Nat, stale : BOOLEAN]
       /\ more # NoMore => moreRequest # NoMore /\ more.before = moreRequest.before /\ more.stale
  BY <1>2, <1>9, <1>14 DEF ChatTyped, NoMore
<1>16. ChatTyped'
  <2>1. {effectChannel', loadedFor', chatRequest', unloaded'} \subseteq ChatChannels \cup {NoChat}
    BY <1>2, <1>4, <1>9 DEF ChatTyped
  <2>2. {chatHasMore', mixed', turnedBack', cutOff'} \subseteq BOOLEAN
    BY <1>9, <1>23
  <2>3. /\ chatTable' \in Seq(RowChannels) /\ chatMessages' \in Seq(1..Len(chatTable'))
        /\ chatChannel' \in ChatChannels
    BY <1>2, <1>5, <1>9, <1>10, <1>13 DEF ChatTyped
  <2> QED
    BY <1>14, <1>15, <2>1, <2>2, <2>3 DEF ChatTyped
<1>17. \A i, j \in DOMAIN list : list[i] \in Nat /\ list[j] \in Nat
  <2>1. DOMAIN list = 1..Len(list)
    BY <1>13, LenProperties
  <2>2. \A i \in DOMAIN list : list[i] \in 1..n
    BY <1>13, <2>1, ElementOfSeq
  <2> QED
    BY <1>6, <2>2
<1>18. NoneTwice'
  <2>1. ASSUME NEW i \in DOMAIN list, NEW j \in DOMAIN list, i # j PROVE list[i] # list[j]
    <3>1. i < j \/ j < i
      BY <1>13, <2>1
    <3> QED
      BY <1>12, <1>17, <3>1 DEF Descends
  <2> QED
    BY <1>10, <2>1 DEF NoneTwice
<1>19. ChannelOwed'
  BY <1>4, <1>9 DEF ChannelOwed
<1>20. ListIsWhole'
  <2>1. ASSUME list # <<>>, NEW i \in 1..n, ListedIn(c, i), i >= Last(list)
        PROVE  \E k \in DOMAIN list : list[k] = i
    <3>1. Last(list) \in page /\ Last(list) \in Nat
      BY <1>11, <1>12, <2>1, LastIn
    <3>2. i = Last(list) \/ i > Last(list)
      BY <1>6, <2>1, <3>1
    <3>3. i \in RowsOf(c, 1..n)
      BY <2>1 DEF RowsOf
    <3>4. i \in page
      BY <1>8, <3>1, <3>2, <3>3
    <3> QED
      BY <1>12, <3>4
  <2> QED
    BY <1>6, <1>9, <1>10, <1>12, <2>1 DEF ListIsWhole, IsShown, ListedIn
<1>21. EndIsReached'
  <2>1. ASSUME ~chatHasMore', NEW i \in 1..n, ListedIn(c, i)
        PROVE  \E k \in DOMAIN list : list[k] = i
    <3>1. Cardinality(page) \in Nat /\ PageSize \in Nat
      BY <1>8, FS_CardinalityType, ChatAssumption
    <3>2. page = RowsOf(c, 1..n)
      BY <1>8, <1>23, <2>1, <3>1
    <3> QED
      BY <1>12, <2>1, <3>2 DEF RowsOf
  <2> QED
    BY <1>6, <1>9, <1>10, <2>1 DEF EndIsReached, IsShown, ListedIn
<1>22. MoreContinues'
  BY <1>2, <1>9, <1>14, <1>15 DEF MoreContinues, NoMore
<1> QED
  BY <1>16, <1>18, <1>19, <1>20, <1>21, <1>22 DEF ChatInv

LEMMA MoreAnswerKeeps == ChatInv /\ AnswerMoreChat => ChatInv'
<1>1. SUFFICES ASSUME ChatInv, AnswerMoreChat PROVE ChatInv'
  OBVIOUS
<1>2. ChatTyped /\ NoneTwice /\ ChannelOwed /\ ListIsWhole /\ MoreContinues
  BY <1>1 DEF ChatInv
<1>3. PICK n, c, before, old : /\ n = Len(chatTable) /\ c = moreRequest.channel
                               /\ before = moreRequest.before /\ old = chatMessages
  OBVIOUS
<1>4. /\ n \in Nat /\ chatTable \in Seq(RowChannels) /\ DOMAIN chatTable = 1..n
      /\ old \in Seq(1..n) /\ before \in 1..n /\ before - 1 \in Nat
  BY <1>1, <1>2, <1>3, LenProperties DEF ChatTyped, MoreContinues, AnswerMoreChat
<1>5. PICK page : page = ChatPage(c, 1..(before - 1))
  OBVIOUS
<1>6. /\ page \subseteq RowsOf(c, 1..(before - 1)) /\ IsFiniteSet(page)
      /\ \A id \in page : \A j \in RowsOf(c, 1..(before - 1)) : j > id => j \in page
      /\ Cardinality(page) < PageSize => page = RowsOf(c, 1..(before - 1))
  BY <1>4, <1>5, PageIsNewest
<1>7. /\ chatMessages' \in AppendOlder(old, page)
      /\ chatHasMore' = (Cardinality(page) >= PageSize)
      /\ mixed' = (mixed \/ moreRequest.stale)
      /\ moreRequest' = NoMore
      /\ UNCHANGED <<chatTable, chatChannel, loadedFor, chatRequest, effectChannel, unloaded,
                     turnedBack, cutOff>>
  BY <1>1, <1>3, <1>5 DEF AnswerMoreChat
<1>8. chatHasMore' \in BOOLEAN /\ (chatHasMore' <=> Cardinality(page) >= PageSize)
  <2>1. PICK more \in BOOLEAN : more <=> Cardinality(page) >= PageSize
    OBVIOUS
  <2>2. (Cardinality(page) >= PageSize) = more
    BY <2>1
  <2>3. chatHasMore' = more
    BY <1>7, <2>2, Zenon
  <2> QED
    BY <2>1, <2>3
<1>9. mixed' \in BOOLEAN /\ (mixed' <=> mixed \/ moreRequest.stale)
  BY <1>7, Zenon
<1>10. PICK older : older = page \ ToSet(old)
  OBVIOUS
<1>11. PICK rows \in NewestFirst(older) : chatMessages' = old \o rows
  BY <1>7, <1>10, Zenon DEF AppendOlder
<1>12. /\ older \in SUBSET Nat /\ older \subseteq 1..(before - 1) /\ IsFiniteSet(older)
       /\ \A id \in older : ListedIn(c, id)
  <2>1. older \subseteq page
    BY <1>10
  <2>2. IsFiniteSet(older)
    BY <1>6, <2>1, FS_Subset
  <2>3. older \subseteq 1..(before - 1) /\ \A id \in older : ListedIn(c, id)
    BY <1>6, <2>1 DEF RowsOf
  <2>4. 1..(before - 1) \subseteq Nat
    BY <1>4
  <2> QED
    BY <2>2, <2>3, <2>4
<1>13. /\ rows \in Seq(older) /\ Descends(rows)
       /\ \A id \in older : \E k \in DOMAIN rows : rows[k] = id
       /\ rows = <<>> <=> older = {}
  BY <1>12, NewestFirstIs
<1>14. rows \in Seq(1..n)
  <2>1. older \subseteq 1..n
    BY <1>4, <1>12
  <2> QED
    BY <1>13, <2>1, SeqMonotonic
<1>15. PICK list, m, k : list = chatMessages' /\ m = Len(old) /\ k = Len(rows)
  OBVIOUS
<1>16. /\ m \in Nat /\ k \in Nat /\ DOMAIN old = 1..m /\ DOMAIN rows = 1..k
       /\ \A i \in 1..m : old[i] \in 1..n
       /\ \A i \in 1..k : rows[i] \in older
  BY <1>4, <1>13, <1>15, LenProperties, ElementOfSeq
<1>17. /\ list \in Seq(1..n) /\ Len(list) = m + k /\ DOMAIN list = 1..(m + k)
       /\ \A i \in 1..m : list[i] = old[i]
       /\ \A i \in 1..k : m + i \in DOMAIN list /\ list[m + i] = rows[i]
       /\ \A i \in DOMAIN list : i \in 1..m \/ (i - m \in 1..k /\ list[i] = rows[i - m])
  <2>1. /\ old \o rows \in Seq(1..n) /\ Len(old \o rows) = m + k
        /\ \A i \in 1..(m + k) : (old \o rows)[i] = IF i <= m THEN old[i] ELSE rows[i - m]
    BY <1>4, <1>14, <1>15, ConcatProperties
  <2>2. list = old \o rows
    BY <1>11, <1>15
  <2>3. DOMAIN list = 1..(m + k)
    BY <1>16, <2>1, <2>2, LenProperties
  <2> QED
    BY <1>16, <2>1, <2>2, <2>3
<1>18. ChatTyped'
  <2>1. /\ {effectChannel', loadedFor', chatRequest', unloaded'} \subseteq ChatChannels \cup {NoChat}
        /\ {chatHasMore', mixed', turnedBack', cutOff'} \subseteq BOOLEAN
        /\ chatChannel' \in ChatChannels
    BY <1>2, <1>7, <1>8, <1>9 DEF ChatTyped
  <2>2. chatTable' \in Seq(RowChannels) /\ chatMessages' \in Seq(1..Len(chatTable'))
    BY <1>3, <1>4, <1>7, <1>15, <1>17
  <2>3. moreRequest' \in [channel : ChatChannels \cup {NoChat}, before : Nat, stale : BOOLEAN]
    BY <1>7 DEF NoMore
  <2> QED
    BY <2>1, <2>2, <2>3 DEF ChatTyped
<1>19. NoneTwice'
  <2>1. \A i \in 1..k : \A j \in 1..m : rows[i] # old[j]
    BY <1>10, <1>16 DEF ToSet
  <2>2. ASSUME NEW i \in 1..k, NEW j \in 1..k, i # j PROVE rows[i] # rows[j]
    <3>1. i < j \/ j < i
      BY <1>16, <2>2
    <3>2. rows[i] \in Nat /\ rows[j] \in Nat
      BY <1>12, <1>16
    <3> QED
      BY <1>13, <1>16, <3>1, <3>2 DEF Descends
  <2>3. \A i, j \in 1..m : i # j => old[i] # old[j]
    BY <1>2, <1>3, <1>16 DEF NoneTwice
  <2>4. ASSUME NEW i \in DOMAIN list, NEW j \in DOMAIN list, i # j PROVE list[i] # list[j]
    <3>1. i \in Int /\ j \in Int
      BY <1>16, <1>17
    <3>2. CASE i \in 1..m /\ j \in 1..m
      BY <1>17, <2>3, <2>4, <3>2
    <3>3. CASE i \in 1..m /\ j \notin 1..m
      BY <1>17, <2>1, <3>3
    <3>4. CASE i \notin 1..m /\ j \in 1..m
      BY <1>17, <2>1, <3>4
    <3>5. CASE i \notin 1..m /\ j \notin 1..m
      <4>1. i - m # j - m
        BY <1>16, <2>4, <3>1
      <4> QED
        BY <1>17, <2>2, <3>5, <4>1
    <3> QED
      BY <3>2, <3>3, <3>4, <3>5
  <2> QED
    BY <1>15, <2>4 DEF NoneTwice
<1>20. ChannelOwed'
  BY <1>2, <1>7 DEF ChannelOwed
<1>21. ASSUME loadedFor # NoChat, ~mixed'
       PROVE  /\ c = loadedFor /\ before = old[m] /\ m \in Nat \ {0} /\ Descends(old)
              /\ \A i \in 1..n : ListedIn(c, i) /\ i >= before => \E j \in 1..m : old[j] = i
  <2>1. moreRequest # NoMore /\ ~moreRequest.stale /\ ~mixed
    BY <1>1, <1>9, <1>21 DEF AnswerMoreChat
  <2>2. c = loadedFor /\ old # <<>> /\ before = Last(old)
    BY <1>2, <1>3, <2>1 DEF MoreContinues
  <2>3. before = old[m] /\ m \in Nat \ {0}
    BY <1>4, <1>15, <2>2, LastIn
  <2> QED
    BY <1>2, <1>3, <1>4, <1>16, <1>21, <2>1, <2>2, <2>3 DEF ListIsWhole, IsShown, ListedIn
<1>22. ASSUME NEW i \in 1..m PROVE \E j \in DOMAIN list : list[j] = old[i]
  <2>1. i \in 1..(m + k)
    BY <1>16
  <2> QED
    BY <1>17, <2>1
<1>23. ASSUME NEW i \in page PROVE \E j \in DOMAIN list : list[j] = i
  <2>1. CASE i \in ToSet(old)
    BY <1>16, <1>22, <2>1 DEF ToSet
  <2>2. CASE i \notin ToSet(old)
    <3>1. i \in older
      BY <1>10, <1>23, <2>2
    <3>2. PICK j \in 1..k : rows[j] = i
      BY <1>13, <1>16, <3>1
    <3> QED
      BY <1>17, <3>2
  <2> QED
    BY <2>1, <2>2
<1>24. ListIsWhole'
  <2>1. SUFFICES ASSUME loadedFor # NoChat, ~mixed'
                 PROVE  /\ Descends(list)
                        /\ list # <<>> =>
                             \A i \in 1..n : ListedIn(loadedFor, i) /\ i >= Last(list) =>
                                \E j \in DOMAIN list : list[j] = i
    BY <1>4, <1>7, <1>15 DEF ListIsWhole, IsShown, ListedIn
  <2>2. ASSUME NEW i \in 1..m PROVE old[i] \in Nat /\ old[i] >= before
    <3>1. i = m \/ i < m
      BY <1>16, <2>2
    <3>2. old[i] \in Nat /\ m \in 1..m /\ old[m] \in Nat
      BY <1>4, <1>16, <1>21, <2>1
    <3>3. i < m => old[i] > old[m]
      BY <1>16, <1>21, <2>1, <3>2 DEF Descends
    <3> QED
      BY <1>21, <2>1, <3>1, <3>2, <3>3
  <2>3. ASSUME NEW i \in 1..k PROVE rows[i] \in Nat /\ rows[i] < before
    <3>1. rows[i] \in 1..(before - 1)
      BY <1>12, <1>16
    <3> QED
      BY <1>4, <3>1
  <2>4. ASSUME NEW i \in DOMAIN list, NEW j \in DOMAIN list, i < j PROVE list[i] > list[j]
    <3>1. i \in Int /\ j \in Int /\ i >= 1
      BY <1>16, <1>17
    <3>2. CASE j \in 1..m
      <4>1. i \in 1..m
        BY <1>16, <2>4, <3>1, <3>2
      <4> QED
        BY <1>16, <1>17, <1>21, <2>1, <2>4, <3>2, <4>1 DEF Descends
    <3>3. CASE i \in 1..m /\ j \notin 1..m
      <4>1. j - m \in 1..k /\ list[j] = rows[j - m] /\ list[i] = old[i]
        BY <1>17, <3>3
      <4>2. old[i] >= before /\ rows[j - m] < before /\ old[i] \in Nat /\ rows[j - m] \in Nat
        BY <2>2, <2>3, <3>3, <4>1
      <4>3. before \in Nat
        BY <1>4
      <4> QED
        BY <4>1, <4>2, <4>3
    <3>4. CASE i \notin 1..m /\ j \notin 1..m
      <4>1. i - m < j - m
        BY <1>16, <2>4, <3>1
      <4> QED
        BY <1>13, <1>16, <1>17, <3>4, <4>1 DEF Descends
    <3> QED
      BY <3>2, <3>3, <3>4
  <2>5. ASSUME list # <<>>, NEW i \in 1..n, ListedIn(loadedFor, i), i >= Last(list)
        PROVE  \E j \in DOMAIN list : list[j] = i
    <3>1. CASE i >= before
      BY <1>21, <1>22, <2>1, <2>5, <3>1
    <3>2. CASE ~(i >= before)
      <4>1. i \in 1..(before - 1)
        BY <1>4, <3>2
      <4>2. i \in RowsOf(c, 1..(before - 1))
        BY <1>21, <2>1, <2>5, <4>1 DEF RowsOf
      <4>3. Last(list) = list[m + k] /\ m + k \in DOMAIN list
        BY <1>17, <2>5, LastIn
      <4>4. k # 0
        <5>1. SUFFICES ASSUME k = 0 PROVE FALSE
          OBVIOUS
        <5>2. m + k = m /\ m \in 1..m
          BY <1>21, <2>1, <5>1
        <5>3. Last(list) = before
          BY <1>17, <1>21, <2>1, <4>3, <5>2
        <5> QED
          BY <2>5, <3>2, <5>3
      <4>5. Last(list) = rows[k] /\ rows[k] \in older
        BY <1>16, <1>17, <4>3, <4>4
      <4>6. Last(list) \in page /\ Last(list) \in Nat
        BY <1>10, <1>12, <4>5
      <4>7. i = Last(list) \/ i > Last(list)
        BY <1>4, <2>5, <4>1, <4>6
      <4>8. i \in page
        BY <1>6, <4>2, <4>6, <4>7
      <4> QED
        BY <1>23, <4>8
    <3> QED
      BY <3>1, <3>2
  <2> QED
    BY <2>4, <2>5 DEF Descends
<1>25. EndIsReached'
  <2>1. SUFFICES ASSUME loadedFor # NoChat, ~mixed', ~chatHasMore',
                        NEW i \in 1..n, ListedIn(loadedFor, i)
                 PROVE  \E j \in DOMAIN list : list[j] = i
    BY <1>4, <1>7, <1>15 DEF EndIsReached, IsShown, ListedIn
  <2>2. Cardinality(page) \in Nat /\ PageSize \in Nat
    BY <1>6, FS_CardinalityType, ChatAssumption
  <2>3. page = RowsOf(c, 1..(before - 1))
    BY <1>6, <1>8, <2>1, <2>2
  <2>4. CASE i >= before
    BY <1>21, <1>22, <2>1, <2>4
  <2>5. CASE ~(i >= before)
    <3>1. i \in 1..(before - 1)
      BY <1>4, <2>5
    <3>2. i \in page
      BY <1>21, <2>1, <2>3, <3>1 DEF RowsOf
    <3> QED
      BY <1>23, <3>2
  <2> QED
    BY <2>4, <2>5
<1>26. MoreContinues'
  BY <1>7 DEF MoreContinues
<1> QED
  BY <1>18, <1>19, <1>20, <1>24, <1>25, <1>26 DEF ChatInv

LEMMA WriteKeeps ==
    ASSUME ChatInv, NEW channel \in RowChannels, WriteRow(channel)
    PROVE  ChatInv'
<1>1. ChatTyped /\ NoneTwice /\ ChannelOwed /\ ListIsWhole /\ EndIsReached /\ MoreContinues
  BY DEF ChatInv
<1>2. PICK n, old, list, table : /\ n = Len(chatTable) /\ old = chatMessages
                                 /\ list = chatMessages' /\ table = chatTable'
  OBVIOUS
<1>3. PICK m : m = Len(old)
  OBVIOUS
<1>4. /\ n \in Nat /\ chatTable \in Seq(RowChannels) /\ DOMAIN chatTable = 1..n
      /\ old \in Seq(1..n) /\ m \in Nat /\ DOMAIN old = 1..m /\ Capacity \in Nat \ {0}
      /\ \A i \in 1..m : old[i] \in 1..n
  BY <1>1, <1>2, <1>3, LenProperties, ElementOfSeq, ChatAssumption DEF ChatTyped
<1>5. /\ table = Append(chatTable, channel) /\ list = Push(old, n + 1)
      /\ cutOff' = (cutOff \/ (m >= Capacity /\ ~chatHasMore))
      /\ moreRequest' = IF m >= Capacity /\ moreRequest # NoMore
                        THEN [moreRequest EXCEPT !.stale = TRUE] ELSE moreRequest
      /\ UNCHANGED <<chatChannel, chatHasMore, loadedFor, chatRequest, effectChannel,
                     unloaded, mixed, turnedBack>>
  BY <1>2, <1>3 DEF WriteRow
<1>6. /\ table \in Seq(RowChannels) /\ Len(table) = n + 1 /\ DOMAIN table = 1..(n + 1)
      /\ \A i \in 1..n : table[i] = chatTable[i]
  <2>1. /\ table \in Seq(RowChannels) /\ Len(table) = n + 1
        /\ \A i \in 1..n : table[i] = chatTable[i]
    BY <1>2, <1>4, <1>5, AppendProperties
  <2> QED
    BY <1>4, <2>1, LenProperties
<1>7. PICK k : k = Len(list)
  OBVIOUS
<1>8. /\ list \in Seq(1..(n + 1)) /\ list # <<>> /\ list[1] = n + 1
      /\ k = (IF m < Capacity THEN m + 1 ELSE Capacity)
      /\ k \in Nat \ {0} /\ DOMAIN list = 1..k
      /\ \A i \in 1..k : i > 1 => i - 1 \in 1..m /\ list[i] = old[i - 1]
      /\ Last(list) = list[k]
  <2>1. /\ list \in Seq(1..(n + 1)) /\ list # <<>> /\ list[1] = n + 1
        /\ k = (IF m < Capacity THEN m + 1 ELSE Capacity)
        /\ \A i \in DOMAIN list : i > 1 => i - 1 \in 1..m /\ list[i] = old[i - 1]
    BY <1>3, <1>4, <1>5, <1>7, PushIs
  <2>2. k \in Nat \ {0} /\ DOMAIN list = 1..k /\ Last(list) = list[k]
    BY <2>1, <1>7, LastIn
  <2> QED
    BY <2>1, <2>2
<1>9. \A i \in 1..k : i = 1 \/ (i > 1 /\ i - 1 \in 1..m /\ list[i] = old[i - 1])
  BY <1>8
<1>10. cutOff' \in BOOLEAN /\ (cutOff' <=> cutOff \/ (m >= Capacity /\ ~chatHasMore))
  <2>1. PICK cut \in BOOLEAN : cut <=> m >= Capacity
    OBVIOUS
  <2>2. (m >= Capacity) = cut
    BY <2>1
  <2>3. cutOff' = (cutOff \/ (cut /\ ~chatHasMore))
    BY <1>5, <2>2, Zenon
  <2> QED
    BY <2>1, <2>3, Zenon
<1>11. PICK more : more = moreRequest'
  OBVIOUS
<1>12. /\ more \in [channel : ChatChannels \cup {NoChat}, before : Nat, stale : BOOLEAN]
       /\ more # NoMore => /\ moreRequest # NoMore
                           /\ more.before = moreRequest.before
                           /\ ~more.stale => m < Capacity /\ more = moreRequest
  <2>1. CASE m >= Capacity /\ moreRequest # NoMore
    BY <1>1, <1>5, <1>11, <2>1 DEF ChatTyped, NoMore
  <2>2. CASE ~(m >= Capacity /\ moreRequest # NoMore)
    BY <1>1, <1>4, <1>5, <1>11, <2>2 DEF ChatTyped
  <2> QED
    BY <2>1, <2>2
<1>13. ChatTyped'
  <2>1. /\ {effectChannel', loadedFor', chatRequest', unloaded'} \subseteq ChatChannels \cup {NoChat}
        /\ {chatHasMore', mixed', turnedBack', cutOff'} \subseteq BOOLEAN
        /\ chatChannel' \in ChatChannels
    BY <1>1, <1>5, <1>10 DEF ChatTyped
  <2> QED
    BY <1>2, <1>6, <1>8, <1>11, <1>12, <2>1 DEF ChatTyped
<1>14. NoneTwice'
  <2>1. ASSUME NEW i \in 1..k, NEW j \in 1..k, i < j PROVE list[i] # list[j]
    <3>1. j > 1 /\ j - 1 \in 1..m /\ list[j] = old[j - 1] /\ i \in Nat /\ j \in Nat
      BY <1>8, <1>9, <2>1
    <3>2. CASE i = 1
      BY <1>4, <1>8, <3>1, <3>2
    <3>3. CASE i # 1
      <4>1. i - 1 \in 1..m /\ list[i] = old[i - 1] /\ i - 1 # j - 1
        BY <1>9, <2>1, <3>1, <3>3
      <4> QED
        BY <1>1, <1>2, <1>4, <3>1, <4>1 DEF NoneTwice
    <3> QED
      BY <3>2, <3>3
  <2>2. ASSUME NEW i \in 1..k, NEW j \in 1..k, i # j PROVE list[i] # list[j]
    <3>1. i < j \/ j < i
      BY <1>8, <2>2
    <3> QED
      BY <2>1, <3>1
  <2> QED
    BY <1>2, <1>8, <2>2 DEF NoneTwice
<1>15. ChannelOwed'
  BY <1>1, <1>5 DEF ChannelOwed
<1>16. ASSUME Descends(old) PROVE Descends(list)
  <2>1. ASSUME NEW i \in 1..k, NEW j \in 1..k, i < j PROVE list[i] > list[j]
    <3>1. j > 1 /\ j - 1 \in 1..m /\ list[j] = old[j - 1] /\ i \in Nat /\ j \in Nat
      BY <1>8, <1>9, <2>1
    <3>2. old[j - 1] \in 1..n
      BY <1>4, <3>1
    <3>3. CASE i = 1
      BY <1>4, <1>8, <3>1, <3>2, <3>3
    <3>4. CASE i # 1
      <4>1. i - 1 \in 1..m /\ list[i] = old[i - 1] /\ i - 1 < j - 1
        BY <1>9, <2>1, <3>1, <3>4
      <4> QED
        BY <1>4, <1>16, <3>1, <4>1 DEF Descends
    <3> QED
      BY <3>3, <3>4
  <2> QED
    BY <1>8, <2>1 DEF Descends
<1>17. ASSUME NEW j \in 1..m, j + 1 <= k PROVE list[j + 1] = old[j]
  <2>1. j + 1 \in 1..k /\ j + 1 > 1 /\ (j + 1) - 1 = j
    BY <1>4, <1>8, <1>17
  <2> QED
    BY <1>8, <2>1
<1>18. ListIsWhole'
  <2>1. SUFFICES ASSUME loadedFor # NoChat, ~mixed
                 PROVE  /\ Descends(list)
                        /\ \A i \in 1..(n + 1) : table[i] \in {loadedFor, Unnamed} /\ i >= list[k] =>
                              \E j \in 1..k : list[j] = i
    BY <1>2, <1>5, <1>6, <1>8 DEF ListIsWhole, IsShown, ListedIn
  <2>2. Descends(old) /\ (old # <<>> =>
           \A i \in 1..n : ListedIn(loadedFor, i) /\ i >= Last(old) => \E j \in 1..m : old[j] = i)
    BY <1>1, <1>2, <1>4, <2>1 DEF ListIsWhole, IsShown, ListedIn
  <2>3. ASSUME NEW i \in 1..(n + 1), table[i] \in {loadedFor, Unnamed}, i >= list[k]
        PROVE  \E j \in 1..k : list[j] = i
    <3>1. CASE i = n + 1
      BY <1>8, <3>1
    <3>2. CASE i # n + 1
      <4>1. i \in 1..n /\ ListedIn(loadedFor, i)
        BY <1>4, <1>6, <2>3, <3>2 DEF ListedIn
      <4>2. k # 1
        BY <1>4, <1>8, <2>3, <4>1
      <4>3. k > 1 /\ k - 1 \in 1..m /\ list[k] = old[k - 1]
        BY <1>8, <1>9, <4>2
      <4>4. old # <<>> /\ Last(old) = old[m] /\ m \in 1..m
        <5>1. m \in Nat \ {0}
          BY <1>4, <4>3
        <5>2. old # <<>>
          BY <1>3, <5>1, EmptySeq
        <5> QED
          BY <1>3, <1>4, <5>1, <5>2, LastIn
      <4>5. i >= Last(old)
        <5>1. k - 1 = m \/ k - 1 < m
          BY <1>4, <1>8, <4>3
        <5>2. old[m] \in Nat /\ old[k - 1] \in Nat /\ i \in Nat
          BY <1>4, <4>1, <4>3, <4>4
        <5>3. k - 1 < m => old[k - 1] > old[m]
          BY <1>4, <2>2, <4>3, <4>4 DEF Descends
        <5> QED
          BY <2>3, <4>3, <4>4, <5>1, <5>2, <5>3
      <4>6. PICK j \in 1..m : old[j] = i
        BY <2>2, <4>1, <4>4, <4>5
      <4>7. j + 1 <= k
        <5>1. SUFFICES ASSUME k - 1 < j PROVE FALSE
          BY <1>4, <1>8
        <5>2. old[k - 1] > old[j]
          BY <1>4, <2>2, <4>3, <5>1 DEF Descends
        <5>3. old[k - 1] \in Nat /\ old[j] \in Nat
          BY <1>4, <4>3
        <5> QED
          BY <2>3, <4>3, <4>6, <5>2, <5>3
      <4>8. j + 1 \in 1..k
        BY <1>4, <1>8, <4>7
      <4> QED
        BY <1>17, <4>6, <4>7, <4>8
    <3> QED
      BY <3>1, <3>2
  <2> QED
    BY <1>16, <2>2, <2>3
<1>19. EndIsReached'
  <2>1. SUFFICES ASSUME loadedFor # NoChat, loadedFor = effectChannel,
                        ~mixed, ~turnedBack, ~cutOff', ~chatHasMore,
                        NEW i \in 1..(n + 1), table[i] \in {loadedFor, Unnamed}
                 PROVE  \E j \in 1..k : list[j] = i
    BY <1>2, <1>5, <1>6, <1>8 DEF EndIsReached, IsShown, ListedIn
  <2>2. ~cutOff /\ ~(m >= Capacity)
    BY <1>10, <2>1
  <2>3. CASE i = n + 1
    BY <1>8, <2>3
  <2>4. CASE i # n + 1
    <3>1. i \in 1..n /\ ListedIn(loadedFor, i)
      BY <1>4, <1>6, <2>1, <2>4 DEF ListedIn
    <3>2. PICK j \in 1..m : old[j] = i
      BY <1>1, <1>2, <1>4, <2>1, <2>2, <3>1 DEF EndIsReached, IsShown, ListedIn
    <3>3. j + 1 \in 1..k /\ j + 1 <= k
      BY <1>4, <1>8, <2>2
    <3> QED
      BY <1>17, <3>2, <3>3
  <2> QED
    BY <2>3, <2>4
<1>20. MoreContinues'
  <2>1. SUFFICES ASSUME more # NoMore
                 PROVE  /\ more.before \in 1..(n + 1)
                        /\ ~more.stale => more.channel = loadedFor /\ more.before = list[k]
    BY <1>2, <1>5, <1>6, <1>8, <1>11 DEF MoreContinues
  <2>2. more.before \in 1..n
    BY <1>1, <1>2, <1>12, <2>1 DEF MoreContinues
  <2>3. ASSUME ~more.stale PROVE more.channel = loadedFor /\ more.before = list[k]
    <3>1. m < Capacity /\ more = moreRequest
      BY <1>12, <2>1, <2>3
    <3>2. more.channel = loadedFor /\ old # <<>> /\ more.before = Last(old)
      BY <1>1, <1>2, <2>1, <2>3, <3>1 DEF MoreContinues
    <3>3. Last(old) = old[m] /\ m \in Nat \ {0}
      BY <1>3, <1>4, <3>2, LastIn
    <3>4. m \in 1..m /\ k = m + 1 /\ m + 1 <= k
      BY <1>8, <3>1, <3>3
    <3> QED
      BY <1>17, <3>2, <3>3, <3>4
  <2> QED
    BY <1>4, <2>2, <2>3
<1> QED
  BY <1>13, <1>14, <1>15, <1>18, <1>19, <1>20 DEF ChatInv

LEMMA ChatGoesOn == ChatInv /\ [ChatNext]_chatVars => ChatInv'
<1>1. SUFFICES ASSUME ChatInv, [ChatNext]_chatVars PROVE ChatInv'
  OBVIOUS
<1>2. ChatTyped /\ NoneTwice /\ ChannelOwed /\ ListIsWhole /\ EndIsReached /\ MoreContinues
  BY <1>1 DEF ChatInv
<1>3. NoChat \notin ChatChannels
  BY ChatAssumption
<1>4. ASSUME UNCHANGED <<chatTable, chatMessages, loadedFor, mixed>> PROVE NoneTwice' /\ ListIsWhole'
  BY <1>2, <1>4 DEF NoneTwice, ListIsWhole, IsShown, ListedIn
<1>5. CASE UNCHANGED chatVars
  <2>1. UNCHANGED <<chatTable, chatChannel, chatMessages, chatHasMore, loadedFor, chatRequest,
                    moreRequest, effectChannel, unloaded, mixed, turnedBack, cutOff>>
    BY <1>5 DEF chatVars
  <2> QED
    BY <1>2, <1>4, <2>1
       DEF ChatInv, ChatTyped, ChannelOwed, EndIsReached, IsShown, ListedIn, MoreContinues
<1>6. ASSUME NEW c \in ChatChannels, ChangeChannel(c) PROVE ChatInv'
  <2>1. /\ effectChannel = chatChannel /\ c # chatChannel /\ chatChannel' = c
        /\ UNCHANGED <<chatTable, chatMessages, chatHasMore, loadedFor, chatRequest,
                       moreRequest, effectChannel, unloaded, mixed, turnedBack, cutOff>>
    BY <1>6 DEF ChangeChannel
  <2> QED
    BY <1>2, <1>4, <2>1
       DEF ChatInv, ChatTyped, ChannelOwed, EndIsReached, IsShown, ListedIn, MoreContinues
<1>7. ASSUME RunChatEffect PROVE ChatInv'
  <2>1. /\ effectChannel' = chatChannel
        /\ IF loadedFor = chatChannel
           THEN chatRequest' = NoChat /\ UNCHANGED chatHasMore
           ELSE chatRequest' = chatChannel /\ chatHasMore' = FALSE
        /\ turnedBack' \in BOOLEAN /\ (turnedBack' <=> loadedFor = chatChannel)
        /\ UNCHANGED <<chatTable, chatChannel, chatMessages, loadedFor, moreRequest, unloaded,
                       mixed, cutOff>>
    <3>1. turnedBack' = (loadedFor = chatChannel)
      BY <1>7 DEF RunChatEffect
    <3> QED
      BY <1>7, <3>1, Zenon DEF RunChatEffect
  <2>2. ChatTyped'
    BY <1>2, <2>1 DEF ChatTyped
  <2>3. ChannelOwed' /\ EndIsReached' /\ MoreContinues'
    BY <1>2, <2>1 DEF ChannelOwed, EndIsReached, MoreContinues
  <2> QED
    BY <1>4, <2>1, <2>2, <2>3 DEF ChatInv
<1>8. ASSUME FailChat PROVE ChatInv'
  <2>1. /\ chatRequest # NoChat /\ unloaded' = chatRequest /\ chatRequest' = NoChat
        /\ UNCHANGED <<chatTable, chatChannel, chatMessages, chatHasMore, loadedFor,
                       moreRequest, effectChannel, mixed, turnedBack, cutOff>>
    BY <1>8 DEF FailChat
  <2> QED
    BY <1>2, <1>4, <2>1
       DEF ChatInv, ChatTyped, ChannelOwed, EndIsReached, IsShown, ListedIn, MoreContinues
<1>9. ASSUME LoadMoreChat PROVE ChatInv'
  <2>1. /\ chatMessages # <<>>
        /\ moreRequest' = [channel |-> chatChannel, before |-> Last(chatMessages),
                           stale |-> loadedFor # chatChannel]
        /\ UNCHANGED <<chatTable, chatChannel, chatMessages, chatHasMore, loadedFor, chatRequest,
                       effectChannel, unloaded, mixed, turnedBack, cutOff>>
    BY <1>9 DEF LoadMoreChat
  <2>2. PICK stale \in BOOLEAN : stale <=> loadedFor # chatChannel
    OBVIOUS
  <2>3. (loadedFor # chatChannel) = stale
    BY <2>2
  <2>4. moreRequest' = [channel |-> chatChannel, before |-> Last(chatMessages), stale |-> stale]
    BY <2>1, <2>3
  <2>5. Last(chatMessages) \in 1..Len(chatTable) /\ Len(chatTable) \in Nat
    BY <1>2, <2>1, LastIn, LenProperties DEF ChatTyped
  <2>6. MoreContinues'
    BY <2>1, <2>2, <2>4, <2>5 DEF MoreContinues
  <2>7. ChatTyped'
    <3>1. moreRequest' \in [channel : ChatChannels \cup {NoChat}, before : Nat, stale : BOOLEAN]
      BY <1>2, <2>2, <2>4, <2>5 DEF ChatTyped
    <3> QED
      BY <1>2, <2>1, <3>1 DEF ChatTyped
  <2> QED
    BY <1>2, <1>4, <2>1, <2>6, <2>7 DEF ChatInv, ChannelOwed, EndIsReached, IsShown, ListedIn
<1>10. ASSUME FailMoreChat PROVE ChatInv'
  <2>1. /\ moreRequest' = NoMore
        /\ UNCHANGED <<chatTable, chatChannel, chatMessages, chatHasMore, loadedFor, chatRequest,
                       effectChannel, unloaded, mixed, turnedBack, cutOff>>
    BY <1>10 DEF FailMoreChat
  <2>2. NoMore \in [channel : ChatChannels \cup {NoChat}, before : Nat, stale : BOOLEAN]
    BY DEF NoMore
  <2> QED
    BY <1>2, <1>4, <2>1, <2>2
       DEF ChatInv, ChatTyped, ChannelOwed, EndIsReached, IsShown, ListedIn, MoreContinues
<1> QED
  BY <1>1, <1>5, <1>6, <1>7, <1>8, <1>9, <1>10, AnswerKeeps, MoreAnswerKeeps, WriteKeeps DEF ChatNext

\* ChatShowsChannel always holds: once nothing is under way the chat shows the messages of its
\* channel, each once and none left out between its ends, or says that they could not be
\* loaded, and the older ones can be asked for or are all there, however the answers, the
\* failures, the changes of the channel and the rows that are written come.
THEOREM ChatIsOfChannel == ChatSpec => []ChatShowsChannel
<1>1. ChatSpec => []ChatInv
  BY ChatStarts, ChatGoesOn, PTL DEF ChatSpec
<1> QED
  BY <1>1, ChatTold, PTL

=============================================================================
