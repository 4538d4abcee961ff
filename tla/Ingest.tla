------------------------------- MODULE Ingest -------------------------------
(***************************************************************************)
(* internal/ingest/service.go: the pipeline that turns one MQTT message    *)
(* into rows of the database.  HandleMessage runs on the MQTT client's     *)
(* only callback goroutine, one message at a time.  What it does in memory *)
(* between two calls of the store is one step; every call of the store is  *)
(* a step of its own, which may fail, and the process may stop before it.  *)
(*                                                                         *)
(* The broker keeps a message until the handler has returned (QoS 1 and a  *)
(* persistent session, the defaults) and delivers it again after a         *)
(* restart, when the duplicate filter and the traceroute tracker are       *)
(* empty.  Those two are here what their own modules show them to be: a    *)
(* window of keys that may forget (RecencyWindow) and a table of requests  *)
(* in which any open one may be overdue and any final one spent at a sweep *)
(* (RequestTable; fewer requests than the table holds).                    *)
(*                                                                         *)
(* A message is what parsing makes of it.  Realtime events follow the      *)
(* store calls they announce and are left out, as is the content of rows.  *)
(***************************************************************************)
EXTENDS RequestTable, Integers, Sequences, Functions

CONSTANTS Traffics,          \* what may be published and go wrong in a run, see below
          Channels,          \* cfg.Channels: channel name -> [primary, events]
          MapReportsEnabled  \* cfg.MapReports.Enabled

NoNode == 0

Kinds == {"chat", "node_info", "position", "telemetry", "map_report", "request", "reply",
          "routing", "ack", "routing_error", "neighbor_info", "pki", "unknown_encrypted", "other"}

\* from, gateway: node numbers, NoNode when absent; id: packet id, 0 when absent;
\* path, back: what a traceroute or routing packet names on the way there and on the way
\* back, each from its first to its last node; path is also the destination of a PKI
\* packet and the reporter of neighbor info when it says who that is;
\* neighbors: of neighbor info; request: the id the tracker finds its request under, 0
\* when it has none; direct: heard without a relay; carries: what node info or a map
\* report tells, and "position" for a position that is not 0, 0.  "ack" and
\* "routing_error" are the error variant of a routing packet, with and without the
\* reason NONE; "other" is store and forward and every other port.
Message == [usable: BOOLEAN, kind: Kinds, mapTopic: BOOLEAN, channel: STRING, from: Nat,
            id: Nat, gateway: Nat, path: Seq(Nat), back: Seq(Nat), neighbors: SUBSET Nat,
            request: Nat, direct: BOOLEAN, carries: SUBSET {"firmware", "hardware", "position"}]

\* A traffic has the messages published, every copy of a packet one, and bounds: packets
\* for which store calls fail, times the process stops, keys the duplicate filter drops.
ASSUME IngestAssumption ==
    /\ \A t \in Traffics :
          /\ {t.maxFailures, t.maxCrashes, t.maxForgets} \subseteq Nat
          /\ t.messages \subseteq Message
          /\ \A m \in t.messages : m.kind = "request" => m.request = m.id /\ m.id # 0
    /\ \A c \in DOMAIN Channels : Channels[c].primary \in BOOLEAN
    /\ MapReportsEnabled \in BOOLEAN

VARIABLES traffic,     \* what this run is about
          unread,      \* messages the broker has not had acknowledged
          seen,        \* keys the duplicate filter remembers
          tracker,     \* request id -> its entry
          job,         \* the locals of HandleMessage
          nodes,       \* table nodes: node -> the message that created the row
          discovered,  \* table chat_events, node_discovered rows: node -> how many
          chat,        \* table chat_events, messages: key -> how many rows
          packetLog,   \* table log_events, rows of packets: key -> how many
          lifecycles,  \* table log_events, traceroute lifecycles: key of the request -> how many
          edges,       \* table topology_edges: channel and ends
          facts,       \* node rows merged from node info, positions and telemetry
          crashes, forgets,  \* how often each happened
          failures,    \* history: keys of packets for which a call of the store failed
          lapses       \* history: key -> how often the filter lost it

volatile == <<seen, tracker, job>>
tables   == <<nodes, discovered, chat, packetLog, lifecycles, edges, facts>>
counters == <<failures, crashes, forgets, lapses>>
vars     == <<traffic, unread, volatile, tables, counters>>

----------------------------------------------------------------------------
(* What the code reads off a message                                       *)

messages == traffic.messages

Key(m) == <<m.from, m.id>>

Keys == {Key(m) : m \in messages}

\* ClassifyTopic, ParsePayload and the checks that precede the duplicate filter.
Admissible(m) ==
    /\ m.usable
    /\ m.mapTopic => MapReportsEnabled
    /\ m.from # NoNode \/ m.kind = "unknown_encrypted"

Configured(m) == m.channel \in DOMAIN Channels

\* allowLogEvent
LogAllowed(m) ==
    IF m.kind = "map_report" \/ m.mapTopic THEN MapReportsEnabled
    ELSE m.kind = "pki" \/ Configured(m)

\* allowEvent
Allowed(m) ==
    \/ m.kind = "pki"
    \/ m.kind = "map_report" /\ MapReportsEnabled
    \/ /\ m.kind # "map_report" /\ Configured(m)
       /\ m.kind = "chat" \/ Channels[m.channel].primary

\* logEventFromParsed makes a row of everything but chat.
Loggable(m) == m.kind # "chat"

Traceroute(m) == m.kind \in {"request", "reply", "routing", "ack", "routing_error"}

\* indirectNodeIDs
Mentioned(m) ==
    CASE m.kind = "neighbor_info" -> Range(m.path) \cup m.neighbors
      [] Traceroute(m) \/ m.kind = "pki" -> Range(m.path) \cup Range(m.back)
      [] OTHER -> {}

\* collectNodeEvidence: sender, gateway and nodes mentioned.
Evidence(m) ==
    LET gateway == IF m.mapTopic THEN {} ELSE {m.gateway}
    IN  ({m.from} \cup gateway \cup Mentioned(m)) \ {NoNode}

Reporter(m) == IF m.path = <<>> THEN m.from ELSE m.path[1]

Hops(path) == {<<path[i], path[i + 1]>> : i \in 1..Len(path) - 1}

\* topologyEdgesFromParsed: hops of a reply or of a routing packet and neighbors of the
\* reporter.  The error variant of a routing packet has none: its decoder gives it no route.
Said(m) ==
    CASE m.kind = "neighbor_info" -> {<<Reporter(m), n>> : n \in m.neighbors}
      [] m.kind \in {"reply", "routing"} -> Hops(m.path) \cup Hops(m.back)
      [] OTHER -> {}

\* The hop from the sender to the gateway that heard it directly.
Heard(m) == IF m.direct /\ ~m.mapTopic THEN {<<m.from, m.gateway>>} ELSE {}

Edges(m) == {e \in Said(m) \cup Heard(m) : e[1] # NoNode /\ e[2] # NoNode /\ e[1] # e[2]}

If(cond, seq) == IF cond THEN seq ELSE <<>>

NodeInfoRows(m) ==
    <<"node_info">> \o If("firmware" \in m.carries, <<"firmware_version", "node_firmware">>)
                    \o If("hardware" \in m.carries, <<"hardware_model", "node_hardware">>)

PositionRows(m) == If("position" \in m.carries, <<"position">>)

\* The rows the handler of each kind writes, in their order.
Rows(m) ==
    CASE m.kind \in {"chat", "telemetry"} -> <<m.kind>>
      [] m.kind = "node_info" -> NodeInfoRows(m)
      [] m.kind = "position" -> PositionRows(m)
      [] m.kind = "map_report" -> NodeInfoRows(m) \o <<"last_map_report">> \o PositionRows(m)
      [] OTHER -> <<>>

\* The rows that are not tried when the given one was not written; they follow it.
Given(row) ==
    CASE row = "node_info" -> {"firmware_version", "node_firmware", "hardware_model", "node_hardware"}
      [] row = "firmware_version" -> {"node_firmware"}
      [] row = "hardware_model" -> {"node_hardware"}
      [] OTHER -> {}

----------------------------------------------------------------------------
(* Control of the handler                                                  *)

Idle == [at |-> "idle", msg |-> {}, nodes |-> {}, created |-> {}, reports |-> {},
         suppress |-> FALSE, rows |-> <<>>]

Current == CHOOSE m \in job.msg : TRUE

At(point) == job.at = point

GoTo(point) == job' = [job EXCEPT !.at = point]

\* Mutant: the message is never acknowledged.
ReturnUnacked == job' = Idle /\ UNCHANGED unread

\* HandleMessage returns and the client acknowledges the message, whatever came of it.
Return == job' = Idle /\ unread' = unread \ job.msg

\* A call of the store fails, for the packet with key k; the next one may fail as well.
Fails(k) ==
    /\ failures' = failures \cup {k}
    /\ Cardinality(failures') <= traffic.maxFailures

Count(table, k) == [table EXCEPT ![k] = @ + 1]

RequestIds == {m.request : m \in messages}

Open(i)  == tracker[i] # NoEntry /\ ~tracker[i].final
Final(i) == tracker[i].final

----------------------------------------------------------------------------
(* HandleMessage                                                           *)

\* A message arrives; flushExpiredTraceroutes sweeps the tracker first.
Receive(m) ==
    /\ At("idle")
    /\ \E overdue \in SUBSET {i \in RequestIds : Open(i)},
          spent \in SUBSET {i \in RequestIds : Final(i)} :
          LET swept == Swept(tracker, overdue, spent)
          IN  /\ tracker' = swept.table
              /\ job' = [Idle EXCEPT !.at = "flush", !.msg = {m}, !.reports = swept.reports]
    /\ UNCHANGED <<unread, seen, tables, counters>>

\* Mutant: a lifecycle event that cannot be logged ends the handler.
ReportOrReturn ==
    /\ job.at \in {"flush", "lifecycle"}
    /\ \E k \in job.reports :
          \/ /\ job' = [job EXCEPT !.reports = @ \ {k}]
             /\ lifecycles' = Count(lifecycles, k)
             /\ UNCHANGED <<unread, failures>>
          \/ Fails(k) /\ Return /\ UNCHANGED lifecycles
    /\ UNCHANGED <<seen, tracker, nodes, discovered, chat, packetLog, edges, facts,
                   crashes, forgets, lapses>>

\* A lifecycle event is logged, in the order of a map; a failure loses it.
Report ==
    /\ job.at \in {"flush", "lifecycle"}
    /\ \E k \in job.reports :
          /\ job' = [job EXCEPT !.reports = @ \ {k}]
          /\ \/ lifecycles' = Count(lifecycles, k) /\ UNCHANGED failures
             \/ Fails(k) /\ UNCHANGED lifecycles
    /\ UNCHANGED <<unread, seen, tracker, nodes, discovered, chat, packetLog, edges, facts,
                   crashes, forgets, lapses>>

Flushed == At("flush") /\ job.reports = {}

\* Mutant: the key leaves the sender out.
DuplicateByPacket(m) == \E k \in seen : m.id # 0 /\ k[2] = m.id

\* Mutant: the filter is asked from id 2 on.
DuplicateAboveOne(m) == m.id > 1 /\ Key(m) \in seen

Duplicate(m) == m.id # 0 /\ Key(m) \in seen

Drop ==
    /\ Flushed
    /\ ~Admissible(Current) \/ Duplicate(Current)
    /\ Return
    /\ UNCHANGED <<seen, tracker, tables, counters>>

\* tracerouteLogDecision: what the tracker holds, returns and suppresses after m.
Tracked(m) ==
    CASE m.kind = "request" -> Noted(tracker, m.request, Key(m))
      [] m.kind \in {"reply", "routing_error"} -> Answered(tracker, m.request)
      [] m.kind \in {"routing", "ack"} -> Touched(tracker, m.request)
      [] OTHER -> Same(tracker, FALSE)

MinimalEvidence(m) == IF m.from = NoNode THEN {} ELSE Evidence(m)

\* The key is marked and the tracker asked before anything is stored.
Admit ==
    /\ Flushed
    /\ Admissible(Current)
    /\ ~Duplicate(Current)
    /\ seen' = IF Current.id # 0 THEN seen \cup {Key(Current)} ELSE seen
    /\ IF LogAllowed(Current)
       THEN LET t == Tracked(Current)
            IN  /\ tracker' = t.table
                /\ job' = [job EXCEPT !.at = "minimal", !.suppress = t.suppress,
                             !.reports = t.reports,
                             !.nodes = MinimalEvidence(Current)]
       ELSE GoTo("policy") /\ UNCHANGED tracker
    /\ UNCHANGED <<unread, tables, counters>>

Upsert(n) == nodes' = IF n \in DOMAIN nodes THEN nodes
                      ELSE [k \in DOMAIN nodes \cup {n} |-> IF k = n THEN Current ELSE nodes[k]]

\* The nodes are taken in the order of their ids.
IsNext(n) == n \in job.nodes /\ \A k \in job.nodes : n <= k

\* Mutant: the handler goes on without a row that could not be written.
UpsertMinimalOrGoOn ==
    /\ At("minimal")
    /\ \E n \in job.nodes :
          /\ IsNext(n)
          /\ job' = [job EXCEPT !.nodes = @ \ {n}]
          /\ \/ Upsert(n) /\ UNCHANGED failures
             \/ Fails(Key(Current)) /\ UNCHANGED nodes
    /\ UNCHANGED <<unread, seen, tracker, discovered, chat, packetLog, lifecycles, edges, facts,
                   crashes, forgets, lapses>>

\* upsertNodeEvidenceSet, minimal: the rows the other tables refer to.  A failure ends
\* the handler.
UpsertMinimal ==
    /\ At("minimal")
    /\ \E n \in job.nodes :
          /\ IsNext(n)
          /\ \/ /\ Upsert(n)
                /\ job' = [job EXCEPT !.nodes = @ \ {n},
                             !.created = IF n \in DOMAIN nodes THEN @ ELSE @ \cup {n}]
                /\ UNCHANGED <<unread, failures>>
             \/ Fails(Key(Current)) /\ Return /\ UNCHANGED nodes
    /\ UNCHANGED <<seen, tracker, discovered, chat, packetLog, lifecycles, edges, facts,
                   crashes, forgets, lapses>>

\* The packet's own row, unless the tracker speaks for it; a failure loses it.
LogPacket ==
    /\ At("minimal")
    /\ job.nodes = {}
    /\ GoTo("lifecycle")
    /\ IF Loggable(Current) /\ ~job.suppress
       THEN \/ packetLog' = Count(packetLog, Key(Current)) /\ UNCHANGED failures
            \/ Fails(Key(Current)) /\ UNCHANGED packetLog
       ELSE UNCHANGED <<packetLog, failures>>
    /\ UNCHANGED <<unread, seen, tracker, nodes, discovered, chat, lifecycles, edges, facts,
                   crashes, forgets, lapses>>

Ends(es) == {e[1] : e \in es} \cup {e[2] : e \in es}

\* A hop heard directly renews an edge between its ends, in either direction, if the
\* channel has one.
Renews(m, e) ==
    /\ e \in Heard(m) \ Said(m)
    /\ {<<m.channel, e>>, <<m.channel, <<e[2], e[1]>>>>} \cap edges # {}

\* UpsertTopologyEdges, one transaction: its foreign keys need a row of every end.
PersistEdges ==
    /\ At("lifecycle")
    /\ job.reports = {}
    /\ \/ /\ Ends(Edges(Current)) \subseteq DOMAIN nodes
          /\ edges' = edges \cup {<<Current.channel, e>> : e \in {f \in Edges(Current) : ~Renews(Current, f)}}
          /\ GoTo("policy")
          /\ UNCHANGED <<unread, failures>>
       \/ /\ Edges(Current) # {}
          /\ Fails(Key(Current))
          /\ Return
          /\ UNCHANGED edges
    /\ UNCHANGED <<seen, tracker, nodes, discovered, chat, packetLog, lifecycles, facts,
                   crashes, forgets, lapses>>

ApplyPolicy ==
    /\ At("policy")
    /\ IF Allowed(Current) /\ Current.from # NoNode
       THEN /\ job' = [job EXCEPT !.at = "authoritative", !.nodes = Evidence(Current)]
            /\ UNCHANGED unread
       ELSE Return
    /\ UNCHANGED <<seen, tracker, tables, counters>>

\* Mutant: a row the minimal pass has just created counts as old.
NewUnlessMinimal(n) == n = Current.from /\ n \notin DOMAIN nodes

\* The sender is announced when this message created its row, in either pass.
NewSender(n) == n = Current.from /\ (n \notin DOMAIN nodes \/ n \in job.created)

\* upsertNodeEvidenceSet, authoritative.  A failure ends the handler.
UpsertAuthoritative ==
    /\ At("authoritative")
    /\ \E n \in job.nodes :
          /\ IsNext(n)
          /\ \/ /\ Upsert(n)
                /\ job' = [job EXCEPT !.nodes = @ \ {n},
                             !.at = IF NewSender(n) THEN "discover" ELSE @]
                /\ UNCHANGED <<unread, failures>>
             \/ Fails(Key(Current)) /\ Return /\ UNCHANGED nodes
    /\ UNCHANGED <<seen, tracker, discovered, chat, packetLog, lifecycles, edges, facts,
                   crashes, forgets, lapses>>

\* emitSystemNodeDiscovered; a failure loses the announcement.
Discover ==
    /\ At("discover")
    /\ GoTo("authoritative")
    /\ \/ discovered' = Count(discovered, Current.from) /\ UNCHANGED failures
       \/ Fails(Key(Current)) /\ UNCHANGED discovered
    /\ UNCHANGED <<unread, seen, tracker, nodes, chat, packetLog, lifecycles, edges, facts,
                   crashes, forgets, lapses>>

Dispatch ==
    /\ At("authoritative")
    /\ job.nodes = {}
    /\ job' = [job EXCEPT !.at = "rows", !.rows = Rows(Current)]
    /\ UNCHANGED <<unread, seen, tracker, tables, counters>>

\* handleChat, handleNodeInfo, handlePosition, handleTelemetry, handleMapReport: a row
\* that is not written takes those that need it with it, and no other.
StoreRow ==
    /\ At("rows")
    /\ job.rows # <<>>
    /\ LET row == Head(job.rows)
       IN  \/ /\ IF row = "chat"
                 THEN chat' = Count(chat, Key(Current)) /\ UNCHANGED facts
                 ELSE facts' = facts \cup {<<Current.from, row>>} /\ UNCHANGED chat
              /\ job' = [job EXCEPT !.rows = Tail(@)]
              /\ UNCHANGED failures
           \/ /\ Fails(Key(Current))
              /\ \E n \in 1..Len(job.rows) :
                    /\ \A i \in 2..n : job.rows[i] \in Given(row)
                    /\ n < Len(job.rows) => job.rows[n + 1] \notin Given(row)
                    /\ job' = [job EXCEPT !.rows = SubSeq(@, n + 1, Len(@))]
              /\ UNCHANGED <<chat, facts>>
    /\ UNCHANGED <<unread, seen, tracker, nodes, discovered, packetLog, lifecycles, edges,
                   crashes, forgets, lapses>>

Finish ==
    /\ At("rows")
    /\ job.rows = <<>>
    /\ Return
    /\ UNCHANGED <<seen, tracker, tables, counters>>

----------------------------------------------------------------------------
(* The environment and the specification                                   *)

\* The process stops and starts again: what it held in memory is gone.
Crash ==
    /\ crashes < traffic.maxCrashes
    /\ crashes' = crashes + 1
    /\ seen' = {}
    /\ tracker' = [i \in RequestIds |-> NoEntry]
    /\ job' = Idle
    /\ lapses' = [k \in Keys |-> lapses[k] + 1]
    /\ UNCHANGED <<traffic, unread, tables, failures, forgets>>

\* The filter drops a key it holds: it expired or others pushed it out.
Forget(k) ==
    /\ forgets < traffic.maxForgets
    /\ forgets' = forgets + 1
    /\ seen' = seen \ {k}
    /\ lapses' = Count(lapses, k)
    /\ UNCHANGED <<traffic, unread, tracker, job, tables, failures, crashes>>

Init ==
    /\ traffic \in Traffics
    /\ unread = messages
    /\ seen = {}
    /\ tracker = [i \in RequestIds |-> NoEntry]
    /\ job = Idle
    /\ nodes = <<>>
    /\ discovered = [n \in {m.from : m \in messages} |-> 0]
    /\ chat = [k \in Keys |-> 0]
    /\ packetLog = [k \in Keys |-> 0]
    /\ lifecycles = [k \in Keys |-> 0]
    /\ edges = {}
    /\ facts = {}
    /\ failures = {}
    /\ crashes = 0
    /\ forgets = 0
    /\ lapses = [k \in Keys |-> 0]

Handler ==
    /\ UNCHANGED traffic
    /\ \/ \E m \in unread : Receive(m)
       \/ Report
       \/ Drop
       \/ Admit
       \/ UpsertMinimal
       \/ LogPacket
       \/ PersistEdges
       \/ ApplyPolicy
       \/ UpsertAuthoritative
       \/ Discover
       \/ Dispatch
       \/ StoreRow
       \/ Finish

Next ==
    \/ Handler
    \/ Crash
    \/ \E k \in seen : Forget(k)

Spec == Init /\ [][Next]_vars

\* The client's goroutine runs whenever it has a message.
FairSpec == Spec /\ WF_vars(Handler)

----------------------------------------------------------------------------
(* Properties                                                              *)

Points == {"idle", "flush", "minimal", "lifecycle", "policy", "authoritative", "discover", "rows"}

Known == Nat \ {NoNode}

RowNames == {"chat", "telemetry", "position", "node_info", "firmware_version", "node_firmware",
             "hardware_model", "node_hardware", "last_map_report"}

Job == [at: Points, msg: SUBSET messages, nodes: SUBSET Known, created: SUBSET Known,
        reports: SUBSET Keys, suppress: BOOLEAN, rows: Seq(RowNames)]

TypeOK ==
    /\ traffic \in Traffics
    /\ unread \subseteq messages
    /\ seen \subseteq Keys
    /\ tracker \in [RequestIds -> {NoEntry} \cup [key: Keys, final: BOOLEAN]]
    /\ job \in Job
    /\ IF At("idle") THEN job = Idle ELSE \E m \in messages : job.msg = {m}
    /\ DOMAIN nodes \subseteq Known
    /\ nodes \in [DOMAIN nodes -> messages]
    /\ discovered \in [{m.from : m \in messages} -> Nat]
    /\ \A table \in {chat, packetLog, lifecycles, lapses} : table \in [Keys -> Nat]
    /\ {crashes, forgets} \subseteq Nat
    /\ failures \subseteq Keys

\* A node is announced in the chat at most once, and only if the packet that made it
\* known was its own and one the channel policy lets through: the row may be created in
\* the minimal or the authoritative pass, as the sender or as a gateway or a relay of
\* another packet.  Such a node is announced, unless a call failed for that packet.
DiscoveryExact ==
    \A n \in DOMAIN discovered :
        LET own == n \in DOMAIN nodes /\ nodes[n].from = n /\ Allowed(nodes[n])
        IN  /\ discovered[n] <= IF own THEN 1 ELSE 0
            /\ At("idle") /\ crashes = 0 /\ own => discovered[n] = 1 \/ Key(nodes[n]) \in failures

\* Copies of a packet from several gateways, in any order, and redelivery after a crash
\* at any point: a packet is stored, logged and reported once, and once more at most for
\* every time the duplicate filter lost its key.
StoredOncePerLapse ==
    \A k \in Keys : k[2] # 0 =>
        \A table \in {chat, packetLog, lifecycles} : table[k] <= 1 + lapses[k]

Stored(m) ==
    \A i \in DOMAIN Rows(m) :
        IF Rows(m)[i] = "chat" THEN chat[Key(m)] >= 1 ELSE <<m.from, Rows(m)[i]>> \in facts

\* A copy of m that came before it and is not the same to the handler: its channel is not
\* configured (it is not one of the welcome), or it was not read alike (the key of its
\* channel is another).  It is marked in the duplicate filter, and m dropped as a duplicate.
Eclipsed(m, welcome) ==
    \E c \in messages \ unread :
        /\ Key(c) = Key(m)
        /\ Admissible(c)
        /\ c \in welcome => ~(c.kind = m.kind /\ c.request = m.request /\ c.carries = m.carries)

\* What an acknowledged message tells is stored, all of it, or a call of the store failed
\* for this very packet: the key is marked before anything is written, but a crash in
\* between loses the mark with the work and the broker delivers again, and a call that
\* fails for one packet costs no other packet a row.  The one exception is a packet of
\* which another copy was marked and stored less.
NothingLost ==
    \A m \in messages \ unread :
        Admissible(m) /\ Allowed(m) /\ m.from # NoNode =>
            \/ Stored(m)
            \/ Key(m) \in failures
            \/ Eclipsed(m, {c \in messages : Allowed(c)})

\* The traceroute of m has its lifecycle row or will get it: its request is open.
SpokenFor(m) ==
    \/ Open(m.request)
    \/ \E r \in messages : /\ r.kind = "request" /\ r.request = m.request
                           /\ lifecycles[Key(r)] >= 1

\* A call of the store failed for a packet of the traceroute of m.
Struck(m) == \E c \in messages : Traceroute(c) /\ c.request = m.request /\ Key(c) \in failures

\* Keeping traceroute packets out of the log hides none: after a handler every admitted
\* packet the log may show has a row of its own, or it belongs to a traceroute that is
\* still open or that has its lifecycle row; but for a packet of which another copy was
\* marked and not logged.  A call that fails hides the packet it was made for or, when
\* that is one of a traceroute, packets of that traceroute, and nothing else.
LogAccountsForAll ==
    At("idle") /\ crashes = 0 =>
        \A m \in messages \ unread :
            Admissible(m) /\ LogAllowed(m) /\ Loggable(m) =>
                \/ packetLog[Key(m)] >= 1
                \/ Traceroute(m) /\ (SpokenFor(m) \/ Struck(m))
                \/ Key(m) \in failures
                \/ Eclipsed(m, {c \in messages : LogAllowed(c)})

\* No foreign key fails: when the edges are written every end has a node row, and so
\* has the sender when its position, telemetry or names are; collectNodeEvidence and
\* topologyEdgesFromParsed read the same message independently.
ReferencedNodesExist ==
    /\ At("lifecycle") /\ job.reports = {} => Ends(Edges(Current)) \subseteq DOMAIN nodes
    /\ At("rows") => Current.from \in DOMAIN nodes

\* The log never names a sender without a node row.  A lifecycle row may, but only when a
\* call failed for its own request: the tracker takes the request before the row of its
\* node is written, and keeps it when that write fails.
LogNamesKnownNodes ==
    \A k \in Keys :
        /\ packetLog[k] > 0 /\ k[1] # NoNode => k[1] \in DOMAIN nodes
        /\ lifecycles[k] > 0 => k[1] \in DOMAIN nodes \/ k \in failures

\* Whatever is stored about a node finds the node's row there.
NodesKnown == ReferencedNodesExist /\ LogNamesKnownNodes

\* Every message is handled and acknowledged, whatever fails on the way.
AllHandled == <>(unread = {})

\* README, channels[].ChannelName.events: "Enabled event families."
EventFamiliesRespected ==
    \A k \in Keys : chat[k] > 0 =>
        \E m \in messages : /\ Key(m) = k /\ m.kind = "chat" /\ Configured(m)
                            /\ "text_message" \in Channels[m.channel].events

=============================================================================
