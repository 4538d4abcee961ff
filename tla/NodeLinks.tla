------------------------------ MODULE NodeLinks ------------------------------
(***************************************************************************)
(* What the web client knows of the links of its nodes: the merge of       *)
(* answers in utils/nodeDetailsCache.ts, utils/topology.ts and the lines   *)
(* that maps/leafletMap.ts draws.                                          *)
(*                                                                         *)
(* A neighbour is [kind, snr, at]: the evidence, the signal or NoSNR, and  *)
(* when it was last observed.  The cache does not trim here; NodeDetails   *)
(* has its size and the age of its entries.                                *)
(***************************************************************************)
EXTENDS Integers, SequencesExt, FiniteSetsExt

CONSTANTS LinkNodes,  \* nodes the server tells of
          Evidence    \* bound: neighbours as an answer lists them

NoSNR == -99
Kinds == {"neighbor_info", "mqtt_direct", "inferred"}

ASSUME LinksAssumption ==
    /\ IsFiniteSet(LinkNodes)
    /\ Evidence \subseteq [kind : Kinds, snr : Int, at : Int]

VARIABLES linkCache,  \* node -> the neighbours of its entry, none if it has no entry
          bestTold    \* history: node -> neighbour -> the lowest rank its answers listed, or Never

linkVars == <<linkCache, bestTold>>

----------------------------------------------------------------------------
(* Merging                                                                 *)

NeighborRank(neighbor) ==
    IF neighbor.kind = "inferred" THEN 3
    ELSE IF neighbor.kind = "mqtt_direct" THEN 2
    ELSE IF neighbor.snr = NoSNR THEN 1 ELSE 0

\* The neighbour with the lower rank; of two with the same rank the one that comes, older or
\* weaker as it may be.  The times only decide whether a signal that is no more told stays.
ChooseBetterNeighbor(current, incoming) ==
    IF NeighborRank(current) < NeighborRank(incoming) THEN current
    ELSE IF NeighborRank(incoming) < NeighborRank(current) \/ incoming.snr # NoSNR THEN incoming
    ELSE [incoming EXCEPT !.snr = IF incoming.at > current.at THEN NoSNR ELSE current.snr]

\* Mutant: what comes last replaces what is there.
MergeNeighborsLast(current, incoming) ==
    [n \in DOMAIN current \cup DOMAIN incoming |->
        IF n \in DOMAIN incoming THEN incoming[n] ELSE current[n]]

MergeNeighbors(current, incoming) ==
    [n \in DOMAIN current \cup DOMAIN incoming |->
        IF n \notin DOMAIN incoming THEN current[n]
        ELSE IF n \notin DOMAIN current THEN incoming[n]
        ELSE ChooseBetterNeighbor(current[n], incoming[n])]

\* The link as the neighbour has it: the signal is that of one direction and is left out.
MakeReverseNeighbor(neighbor) == [neighbor EXCEPT !.snr = NoSNR]

\* upsertNodeDetailsCache: the answer about a node, and its reverse in the entry of each
\* neighbour, which is made if there is none.
UpsertNeighbors(id, neighbors) ==
    [n \in LinkNodes |->
        IF n = id THEN MergeNeighbors(linkCache[n], neighbors)
        ELSE IF n \notin DOMAIN neighbors THEN linkCache[n]
        ELSE MergeNeighbors(linkCache[n], [m \in {id} |-> MakeReverseNeighbor(neighbors[n])])]

----------------------------------------------------------------------------
(* What is shown                                                           *)

TopologyColor(inferred, mqttDirect, snr) ==
    CASE inferred                      -> "inferred"
      [] ~inferred /\ snr = NoSNR      -> IF mqttDirect THEN "mqttDirect" ELSE "noSNR"
      [] ~inferred /\ snr # NoSNR      -> IF snr < -15 THEN "poor" ELSE IF snr < -7 THEN "weak"
                                          ELSE IF snr < 10 THEN "good" ELSE "strong"

TopologySignalLabel(neighbor) ==
    IF neighbor.kind = "inferred" THEN "Inferred"
    ELSE IF neighbor.snr # NoSNR THEN "SNR"
    ELSE IF neighbor.kind = "mqtt_direct" THEN "Direct upload" ELSE "No SNR"

TopologyEvidenceLabel(neighbor) ==
    CASE neighbor.kind = "neighbor_info" -> "Neighbor info"
      [] neighbor.kind = "mqtt_direct"   -> "MQTT direct"
      [] OTHER                           -> "Inferred"

\* The best evidence first, then the better signal, then the newer; NoSNR is the least.
NeighborBefore(a, b) ==
    \/ NeighborRank(a) < NeighborRank(b)
    \/ NeighborRank(a) = NeighborRank(b) /\ a.snr > b.snr
    \/ NeighborRank(a) = NeighborRank(b) /\ a.snr = b.snr /\ a.at > b.at
SortedNeighbors(neighbors) ==
    {list \in [1..Cardinality(DOMAIN neighbors) -> DOMAIN neighbors] :
        \A i, j \in DOMAIN list : i < j =>
            list[i] # list[j] /\ ~NeighborBefore(neighbors[list[j]], neighbors[list[i]])}

\* A line from the node to each neighbour that the map has too.
RenderTopology(id, nodesMapped) ==
    IF id \notin nodesMapped THEN {}
    ELSE {[to |-> n, color |-> TopologyColor(linkCache[id][n].kind = "inferred",
                                             linkCache[id][n].kind = "mqtt_direct",
                                             linkCache[id][n].snr)] :
              n \in DOMAIN linkCache[id] \cap nodesMapped}

----------------------------------------------------------------------------
(* The answers                                                             *)

Never == 4
BestRank(ranks) == Min(ranks \cup {Never})

LearnLinks(id, neighbors) ==
    /\ linkCache' = UpsertNeighbors(id, neighbors)
    /\ bestTold' = [bestTold EXCEPT ![id] = [n \in LinkNodes |->
          BestRank({@[n]} \cup {NeighborRank(neighbors[m]) : m \in {n} \cap DOMAIN neighbors})]]

\* The page is loaded when nothing that can be read is stored.
ForgetLinks ==
    /\ linkCache' = [n \in LinkNodes |-> [m \in {} |-> m]]
    /\ bestTold' = [n \in LinkNodes |-> [m \in LinkNodes |-> Never]]

LinksInit ==
    /\ linkCache = [n \in LinkNodes |-> [m \in {} |-> m]]
    /\ bestTold = [n \in LinkNodes |-> [m \in LinkNodes |-> Never]]

LinksNext ==
    \/ \E id \in LinkNodes : \E others \in SUBSET (LinkNodes \ {id}) :
          \E neighbors \in [others -> Evidence] : LearnLinks(id, neighbors)
    \/ ForgetLinks

LinksSpec == LinksInit /\ [][LinksNext]_linkVars

----------------------------------------------------------------------------
(* Properties                                                              *)

\* Answers about both ends of a link, in whatever order they come, leave it known at both
\* ends, by the best evidence either end has told; the signal is known at the end that told
\* it, a link whose signal was told there once stays known by a signal, and neither end
\* shows a signal it was not told of.  So both draw the same line, whatever nodes the map
\* has, but for the colours that tell a signal, and list the best evidence first.
LinksAgree ==
    \A a, b \in LinkNodes : a # b =>
        LET direct  == bestTold[a][b]
            reverse == IF bestTold[b][a] = 0 THEN 1 ELSE bestTold[b][a]
            lines(n, m) == {l.color : l \in {l \in RenderTopology(n, {n, m}) : l.to = m}}
        IN  /\ b \in DOMAIN linkCache[a] <=> BestRank({direct, reverse}) # Never
            /\ b \in DOMAIN linkCache[a] =>
                  /\ NeighborRank(linkCache[a][b]) = BestRank({direct, reverse})
                  /\ linkCache[a][b].kind = linkCache[b][a].kind
                  /\ linkCache[a][b].snr # NoSNR => direct # Never
                  /\ TopologyEvidenceLabel(linkCache[a][b]) = TopologyEvidenceLabel(linkCache[b][a])
                  /\ TopologySignalLabel(linkCache[a][b]) = "Inferred" <=> lines(b, a) = {"inferred"}
            /\ lines(a, b) = {} <=> lines(b, a) = {}
            /\ \A sorted \in SortedNeighbors(linkCache[a]) : \A i \in 1 .. Len(sorted) - 1 :
                  NeighborRank(linkCache[a][sorted[i]]) <= NeighborRank(linkCache[a][sorted[i + 1]])

=============================================================================
