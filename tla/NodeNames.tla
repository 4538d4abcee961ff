------------------------------ MODULE NodeNames ------------------------------
(***************************************************************************)
(* The names of a node and the page that tells of it: the history that the *)
(* server keeps as a node is renamed (persistence/sqlite/nodes.go), the    *)
(* names that the client has of it in three places, each as of another     *)
(* time (the list, the map, the details), and pages/NodesPage.tsx with     *)
(* components/ResolvedNodeData.tsx, which choose among them.               *)
(*                                                                         *)
(* One node.  Names have no spaces around them; what else is known of the  *)
(* node is the set of the fields that have a value.                        *)
(***************************************************************************)
EXTENDS Naturals, Sequences, FiniteSets, SequencesExt

CONSTANTS NodeId,
          LongNames, ShortNames, \* without the empty one
          FieldSets,             \* what may be known of the node besides its names
          FilterTexts, Containing, \* a text, trimmed, and the names that contain it in any case
          ChangeTimes,           \* the times of packets, not in their order: the clock is set
          MaxRenames             \* bound on the rows of node_name_history

NoName == ""
ASSUME NamesAssumption ==
    /\ NoName \notin LongNames \cup ShortNames
    /\ ChangeTimes \subseteq Nat
    /\ \A t \in FilterTexts : t \in {NodeId} \cup LongNames \cup ShortNames => t \in Containing[t]

VARIABLES stored,      \* nodes: [long, short], or NotHeld
          nameHistory, \* node_name_history, by id: [from, to, at]
          borne,       \* every pair of names the row ever had
          summary,     \* useNodeStore.summaries: the node in the list, or NotHeld
          mapEntry,    \* useNodeStore.mapNodes: its names and whether they are all, or NotHeld
          details,     \* useNodeStore.details, or NotHeld
          socket,      \* "loading", "down" or "up": the websocket
          missedName,  \* the node was renamed while it was down, and the entry not
          nodesFilter  \* the text in the field

nameVars == <<stored, nameHistory, borne, summary, mapEntry, details, socket, missedName, nodesFilter>>

NotHeld == [long |-> NoName, short |-> NoName, none |-> TRUE]
Names(of) == [long |-> of.long, short |-> of.short]
Nameless == [long |-> NoName, short |-> NoName]

\* A name that is not given leaves the one there is: CASE WHEN in SQL, valueOrCurrent in
\* nodeState.ts.
OrCurrent(given, current) == IF given = NoName THEN current ELSE given
Merged(given, current) == [long |-> OrCurrent(given.long, current.long),
                           short |-> OrCurrent(given.short, current.short)]

DisplayName(of) == OrCurrent(of.long, OrCurrent(of.short, NodeId))

----------------------------------------------------------------------------
(* The server                                                              *)

\* Mutant: the history compares with the names as given, not as they are merged.
HistoryOfGiven(given, at) ==
    IF stored # NotHeld /\ given # Names(stored) THEN Append(nameHistory, [from |-> Names(stored), to |-> given, at |-> at])
    ELSE nameHistory

\* The row of the history is of the merged names, and only if they differ.
HistoryWith(given, at) ==
    LET next == Merged(given, stored)
    IN  IF stored # NotHeld /\ next # Names(stored)
        THEN Append(nameHistory, [from |-> Names(stored), to |-> next, at |-> at]) ELSE nameHistory

\* node.upsert, with what the packet said alone; a node that is not there comes in as it is.
UpsertEntry(given) ==
    IF mapEntry = NotHeld THEN [long |-> given.long, short |-> given.short, whole |-> FALSE]
    ELSE [long |-> Merged(given, mapEntry).long, short |-> Merged(given, mapEntry).short, whole |-> mapEntry.whole]

\* Store.UpsertNode in one transaction, then the event.  What has no names comes of any packet
\* that says the node is there, and of some no event is made.
UpsertNames(given, at, emitted) ==
    LET next == IF stored = NotHeld THEN given ELSE Merged(given, stored)
    IN  /\ emitted \/ given = Nameless
        /\ Len(HistoryWith(given, at)) <= MaxRenames
        /\ stored' = next
        /\ nameHistory' = HistoryWith(given, at)
        /\ borne' = borne \cup {next}
        /\ mapEntry' = IF socket = "up" /\ emitted THEN UpsertEntry(given) ELSE mapEntry
        /\ missedName' = (mapEntry # NotHeld /\ (missedName \/ (socket # "up" /\ stored # next)))
        /\ UNCHANGED <<summary, details, socket, nodesFilter>>

----------------------------------------------------------------------------
(* The client                                                              *)

\* The bootstrap has api.mapNodes, once: a node without a position is not in it.
LoadMap(located) ==
    /\ socket = "loading" /\ socket' = "down"
    /\ mapEntry' = IF located /\ stored # NotHeld
                THEN [long |-> stored.long, short |-> stored.short, whole |-> TRUE] ELSE NotHeld
    /\ UNCHANGED <<stored, nameHistory, borne, summary, details, missedName, nodesFilter>>

ConnectOrDrop ==
    /\ socket # "loading" /\ socket' = IF socket = "up" THEN "down" ELSE "up"
    /\ UNCHANGED <<stored, nameHistory, borne, summary, mapEntry, details, missedName, nodesFilter>>

\* node.position of a node that is not there puts in a stub.
UpsertStub ==
    /\ socket = "up" /\ stored # NotHeld /\ mapEntry = NotHeld
    /\ mapEntry' = [long |-> NoName, short |-> NoName, whole |-> FALSE]
    /\ UNCHANGED <<stored, nameHistory, borne, summary, details, socket, missedName, nodesFilter>>

\* Pruning takes out what has no recent position.
PruneEntry ==
    /\ socket # "loading" /\ mapEntry # NotHeld
    /\ mapEntry' = NotHeld /\ missedName' = FALSE
    /\ UNCHANGED <<stored, nameHistory, borne, summary, details, socket, nodesFilter>>

\* api.nodes, once.
LoadSummary ==
    /\ summary = NotHeld /\ stored # NotHeld
    /\ summary' = [long |-> stored.long, short |-> stored.short, display |-> DisplayName(stored)]
    /\ UNCHANGED <<stored, nameHistory, borne, mapEntry, details, socket, missedName, nodesFilter>>

\* ORDER BY changed_at DESC, id DESC
LaterRows(rows, i) ==
    {j \in DOMAIN rows : rows[j].at > rows[i].at \/ (rows[j].at = rows[i].at /\ j > i)}

ByTime(rows) ==
    [n \in DOMAIN rows |->
        rows[CHOOSE i \in DOMAIN rows : Cardinality(LaterRows(rows, i)) = n - 1]]

\* GetNodeDetails; the selected node's are held until it changes, and cached.
GetNodeDetails(fields) ==
    /\ stored # NotHeld
    /\ details' = [long |-> stored.long, short |-> stored.short, fields |-> fields,
                   previous |-> ByTime(nameHistory), borne |-> borne]
    /\ UNCHANGED <<stored, nameHistory, borne, summary, mapEntry, socket, missedName, nodesFilter>>

CloseDetails ==
    /\ details # NotHeld /\ details' = NotHeld
    /\ UNCHANGED <<stored, nameHistory, borne, summary, mapEntry, socket, missedName, nodesFilter>>

OnFilter(text) ==
    /\ nodesFilter' = text
    /\ UNCHANGED <<stored, nameHistory, borne, summary, mapEntry, details, socket, missedName>>

----------------------------------------------------------------------------
(* ResolvedNodeData.tsx                                                    *)

\* A name, or NoName where the source has none.
BestNodeLabel(of) == IF of = NotHeld THEN NoName ELSE OrCurrent(of.long, of.short)

\* Mutant: the list is asked before the map.
SummaryFirst(fallback) ==
    OrCurrent(BestNodeLabel(details),
    OrCurrent(IF summary = NotHeld THEN NoName ELSE summary.display,
    OrCurrent(BestNodeLabel(mapEntry), OrCurrent(fallback, NodeId))))

\* resolveNodeDataValue; the list has a display name in any case.
ResolvedLabel(fallback) ==
    OrCurrent(BestNodeLabel(details),
    OrCurrent(BestNodeLabel(mapEntry),
    OrCurrent(IF summary = NotHeld THEN NoName ELSE OrCurrent(BestNodeLabel(summary), summary.display),
              OrCurrent(fallback, NodeId))))

----------------------------------------------------------------------------
(* NodesPage.tsx                                                           *)

MatchesFilter(item, text) ==
    text = NoName \/ \E name \in {NodeId, item.long, item.short} : name \in Containing[text]

FilteredItems == IF summary # NotHeld /\ MatchesFilter(summary, nodesFilter) THEN {summary} ELSE {}

\* previousNameLabel; a row without a previous name has no label and is left out.
PreviousNames == {item.from : item \in Range(details.previous)} \ {Nameless}

Heading == DisplayName(details)

\* The fields of each section.  "power" needs a voltage or a level.
SectionFields ==
    [Identity |-> {"id", "long", "short", "num", "role"},
     LastSeen |-> {"capable", "mqtt seen", "uploader", "uploader at", "any event", "updated", "first seen"},
     Radio |-> {"region", "frequency", "modem", "default channel", "opted in", "neighbors", "board", "firmware"},
     Position |-> {"latitude", "longitude", "altitude", "kind", "position channel",
                   "position uploader", "position reported", "position observed", "last position"},
     Telemetry |-> {"power", "current", "temperature", "humidity", "pressure", "pm25", "pm10",
                    "co2", "iaq", "channel use", "air use", "uptime"},
     Source |-> {"telemetry channel", "telemetry uploader", "telemetry reported",
                 "telemetry observed", "telemetry updated"}]

\* What may be known of a node besides its names (types.ts): a voltage and a level where the
\* page has one row, and of a position two fields that it does not tell.
RowFields == UNION {SectionFields[title] : title \in DOMAIN SectionFields}
NodeFields == (RowFields \ {"id", "long", "short", "power"})
                  \cup {"voltage", "level", "precision", "position updated"}

ASSUME FieldsAssumption == FieldSets \subseteq SUBSET NodeFields

\* formatBattery: a voltage or a level, in one row.
HasValue(field) ==
    CASE field = "id" -> TRUE
      [] field = "long" -> details.long # NoName
      [] field = "short" -> details.short # NoName
      [] field = "power" -> details.fields \cap {"voltage", "level"} # {}
      [] OTHER -> field \in details.fields

\* The uptime has a row in any case, with a dash if it is not known.
RowsOf(title) == {field \in SectionFields[title] : field = "uptime" \/ HasValue(field)}

DetailSections == {title \in DOMAIN SectionFields : RowsOf(title) # {}}

\* The button that opens the map, in the heading of the position.
OpensMap == "Position" \in DetailSections /\ "latitude" \in details.fields

----------------------------------------------------------------------------
(* Behaviours                                                              *)

NamesInit ==
    /\ stored = NotHeld /\ nameHistory = <<>> /\ borne = {}
    /\ summary = NotHeld /\ mapEntry = NotHeld /\ details = NotHeld
    /\ socket = "loading" /\ missedName = FALSE /\ nodesFilter = NoName

NamesNext ==
    \/ \E long \in LongNames \cup {NoName}, short \in ShortNames \cup {NoName}, at \in ChangeTimes,
          emitted \in BOOLEAN :
          UpsertNames([long |-> long, short |-> short], at, emitted)
    \/ \E located \in BOOLEAN : LoadMap(located)
    \/ ConnectOrDrop \/ UpsertStub \/ PruneEntry \/ LoadSummary \/ CloseDetails
    \/ \E fields \in FieldSets : GetNodeDetails(fields)
    \/ \E text \in FilterTexts : OnFilter(text)

NamesSpec == NamesInit /\ [][NamesNext]_nameVars

----------------------------------------------------------------------------
(* Properties                                                              *)

\* Each row of the history goes on from the one before, and the last leads to the names of
\* the node: none is written for names that stayed, none is missed.
HistoryLinked ==
    /\ \A i \in DOMAIN nameHistory : nameHistory[i].from # nameHistory[i].to
    /\ \A i \in 2..Len(nameHistory) : nameHistory[i].from = nameHistory[i - 1].to
    /\ nameHistory # <<>> => Last(nameHistory).to = Names(stored)

\* Every name the node had as its details were read is the heading or among the previous
\* ones, the latest change first.
FormerNamesTold ==
    details # NotHeld =>
       /\ details.borne \ {Nameless} = (PreviousNames \cup {Names(details)}) \ {Nameless}
       /\ \A i \in 2..Len(details.previous) : details.previous[i].at <= details.previous[i - 1].at

\* The map's names are those of the server, as long as no event about them was missed; an
\* entry that was made by an event may lack some.
MapNamesRight ==
    (mapEntry # NotHeld /\ ~missedName) =>
        \A name \in {"long", "short"} : mapEntry[name] = stored[name] \/ (~mapEntry.whole /\ mapEntry[name] = NoName)

\* A node goes by a name it no longer has, or by less than its name, only while its
\* details are held from before, or the map has missed or lacks a name, or nothing but a
\* list from before tells of it.
LabelLags ==
    (stored # NotHeld /\ ResolvedLabel(NodeId) # DisplayName(stored)) =>
        \/ details # NotHeld /\ Names(details) # Names(stored)
        \/ mapEntry # NotHeld /\ (missedName \/ ~mapEntry.whole)
        \/ mapEntry = NotHeld /\ (summary = NotHeld \/ Names(summary) # Names(stored))

\* A node is found by the name it is listed under.
FoundByName == (summary # NotHeld /\ nodesFilter = summary.display) => FilteredItems = {summary}

\* What is known of a node is told in one place, but for how precise its position is, and
\* only a position opens the map.
FieldsTold ==
    details # NotHeld =>
       /\ \A field \in details.fields \ {"precision", "position updated"} :
             LET told == IF field \in {"voltage", "level"} THEN "power" ELSE field
             IN  Cardinality({title \in DetailSections : told \in RowsOf(title)}) = 1
       /\ OpensMap <=> "latitude" \in details.fields

\* The names and fields of a node are told as above.
NamesTell ==
    HistoryLinked /\ FormerNamesTold /\ MapNamesRight /\ LabelLags /\ FoundByName /\ FieldsTold

=============================================================================
