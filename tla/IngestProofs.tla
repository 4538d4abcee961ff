---------------------------- MODULE IngestProofs ----------------------------
(***************************************************************************)
(* What the ingest pipeline promises, for all traffics, channels and       *)
(* policies that IngestAssumption admits, with every call of the store     *)
(* failing or not and the process stopping between any two steps.          *)
(*                                                                         *)
(* Every theorem stands on an invariant of its own, each relative to       *)
(* Shape, which says what the locals of the handler hold at each of its    *)
(* points and that the tracker knows only requests that were published.    *)
(*   TypeCorrect        Shape                                              *)
(*   StoredOnce         Paid: what the filter let through pays for the     *)
(*                      rows written and for those still ahead             *)
(*   NodesAreKnown      Grounded: a row of a node is there, or the minimal *)
(*                      pass writes it before what refers to it            *)
(*   AnnouncedExactly   Announced: one announcement is done or due for     *)
(*                      each row a sender's own packet created             *)
(*   AllIsStored        Kept: a key is in the filter because of a message  *)
(*                      that is stored or at work                          *)
(*   LogIsComplete      Accounted: what is kept out of the log belongs to  *)
(*                      a traceroute that is open or has ended by a row    *)
(***************************************************************************)
EXTENDS Ingest, SequenceTheorems, TLAPS

----------------------------------------------------------------------------
(* The inductive invariants                                                *)

\* Where the handler is past the duplicate filter, and past the log.
Marked == {"minimal", "lifecycle", "policy", "authoritative", "discover", "rows"}
Logged == Marked \ {"minimal"}

\* What the locals of the handler hold at each of its points.
Locals ==
    /\ At("flush") => job.nodes = {} /\ job.created = {}
    /\ job.reports # {} => job.at \in {"flush", "minimal", "lifecycle"}
    /\ job.rows # <<>> => At("rows")
    /\ job.rows = <<"chat">> \/ \A i \in 1..Len(job.rows) : job.rows[i] # "chat"
    /\ job.at \in Marked => \A m \in job.msg : Admissible(m)
    /\ job.at \in {"authoritative", "discover", "rows"} =>
          \A m \in job.msg : Allowed(m) /\ m.from # NoNode

\* An entry of the tracker is one of a request with its id.
Requested ==
    \A i \in RequestIds : tracker[i] # NoEntry =>
        \E r \in messages : /\ r.kind = "request"
                            /\ r.request = i
                            /\ Admissible(r)
                            /\ tracker[i].key = Key(r)

Shape == TypeOK /\ Locals /\ Requested

One(cond) == IF cond THEN 1 ELSE 0

\* The filter let the packet of key k through once for every time it lost it, and once
\* more if it holds it.
Passed(k) == lapses[k] + One(k \in seen)

\* The handler is at work on a packet of key k.
Handling(k) == \E m \in job.msg : Key(m) = k

WillStoreChat(k) ==
    /\ Handling(k)
    /\ job.at \in Marked
    /\ At("rows") => job.rows = <<"chat">>

WillLog(k) == Handling(k) /\ At("minimal")

Waiting(k) == \E i \in RequestIds : Open(i) /\ tracker[i].key = k

\* Every time the filter lets a packet through, one row of each table is written, or is
\* still ahead of the handler, or of the tracker.
PaidChat(k)  == chat[k] + One(WillStoreChat(k)) <= Passed(k)
PaidLog(k)   == packetLog[k] + One(WillLog(k)) <= Passed(k)
PaidTrace(k) == lifecycles[k] + One(Waiting(k)) + One(k \in job.reports) <= Passed(k)

Paid == \A k \in Keys : k[2] # 0 => PaidChat(k) /\ PaidLog(k) /\ PaidTrace(k)

\* The nodes whose rows the minimal pass has still to write.
Awaited == IF At("minimal") THEN job.nodes ELSE {}

\* What is about to be written has the rows of its nodes, or they are written before it.
GroundedJob ==
    \A m \in job.msg :
        /\ job.at \in {"minimal", "lifecycle"} => MinimalEvidence(m) \subseteq DOMAIN nodes \cup Awaited
        /\ job.at \in {"authoritative", "discover"} => m.from \in DOMAIN nodes \cup job.nodes
        /\ At("rows") => m.from \in DOMAIN nodes

GroundedLog == \A k \in Keys : packetLog[k] > 0 /\ k[1] # NoNode => k[1] \in DOMAIN nodes

\* The row of the node that sent the request of key k is there, or it is the minimal pass
\* of this very request that has still to write it, or a call failed for the request.
Expected(k) == \E m \in job.msg : Key(m) = k /\ m.from \in Awaited
Vouched(k)  == k[1] \in DOMAIN nodes \/ k \in failures \/ Expected(k)

\* The tracker has an entry of the request of key k.
Entered(k) == \E i \in RequestIds : tracker[i] # NoEntry /\ tracker[i].key = k

GroundedTrace ==
    /\ \A k \in Keys : lifecycles[k] > 0 => k[1] \in DOMAIN nodes \/ k \in failures
    /\ \A k \in job.reports : Vouched(k)
    /\ \A k \in Keys : Entered(k) => Vouched(k)

Grounded == GroundedJob /\ GroundedLog /\ GroundedTrace

\* The row of n was created by a packet of its own that the channel policy lets through.
Own(n) == n \in DOMAIN nodes /\ nodes[n].from = n /\ Allowed(nodes[n])

\* The handler has still to come to its sender n.
Ahead(n) == \/ job.at \in {"minimal", "lifecycle", "policy"}
            \/ At("authoritative") /\ n \in job.nodes

\* The announcement of n is due: its message created the row and is still at work.
Due(n) == /\ n \in DOMAIN nodes
          /\ nodes[n] \in job.msg
          /\ At("discover") \/ (n \in job.created /\ Ahead(n))

AnnouncedForOwn == \A n \in DOMAIN discovered : discovered[n] <= One(Own(n))

\* What the handler creates is its message's, and it announces no sender twice.
AnnouncedByJob ==
    /\ \A n \in job.created : n \in DOMAIN nodes /\ nodes[n] \in job.msg
    /\ \A m \in job.msg :
          /\ m.from \in job.created /\ Ahead(m.from) => discovered[m.from] = 0
          /\ At("discover") => /\ m.from \in DOMAIN nodes /\ nodes[m.from] = m
                               /\ discovered[m.from] = 0
                               /\ m.from \notin job.nodes
          /\ At("authoritative") /\ m.from \notin DOMAIN nodes => m.from \in job.nodes

NoneUnannounced ==
    crashes = 0 =>
        \A n \in DOMAIN discovered :
            Own(n) => discovered[n] = 1 \/ Due(n) \/ Key(nodes[n]) \in failures

Announced == AnnouncedForOwn /\ AnnouncedByJob /\ NoneUnannounced

StoredRow(m, row) == IF row = "chat" THEN chat[Key(m)] >= 1 ELSE <<m.from, row>> \in facts

\* All that m tells is stored, or a call of the store failed for its packet.
Settled(m) == Allowed(m) /\ m.from # NoNode => Stored(m) \/ Key(m) \in failures

Welcome == {c \in messages : Allowed(c)}

AckedKept == \A m \in messages \ unread : Admissible(m) => Settled(m) \/ Eclipsed(m, Welcome)

\* A key is in the filter because of a message that was stored or is being handled.
SeenKept ==
    \A k \in seen : k[2] # 0 =>
        \E c \in messages : /\ Key(c) = k /\ Admissible(c)
                            /\ \/ c \notin unread /\ Settled(c)
                               \/ c \in job.msg /\ job.at \in Marked

\* Every row of the message is stored or still to come, or a call failed for its packet.
RowsKept ==
    At("rows") =>
        \A m \in job.msg : Key(m) \notin failures => \A i \in 1..Len(Rows(m)) :
            \/ StoredRow(m, Rows(m)[i])
            \/ \E j \in 1..Len(job.rows) : job.rows[j] = Rows(m)[i]

Kept == AckedKept /\ SeenKept /\ RowsKept

\* The traceroute with request id i is open, or its lifecycle row is written or about to
\* be, or a call of the store failed for one of its packets.
Spoken(i) ==
    \/ Open(i)
    \/ \E r \in messages : /\ r.kind = "request" /\ r.request = i
                           /\ lifecycles[Key(r)] >= 1 \/ Key(r) \in job.reports
    \/ \E c \in messages : Traceroute(c) /\ c.request = i /\ Key(c) \in failures

Visible(m) ==
    LogAllowed(m) /\ Loggable(m) =>
        \/ packetLog[Key(m)] >= 1
        \/ Traceroute(m) /\ Spoken(m.request)
        \/ Key(m) \in failures

LogWelcome == {c \in messages : LogAllowed(c)}

\* What is kept out of the log is spoken for by the tracker, and what the tracker has
\* ended by a row.
FinalSpoken == \A i \in RequestIds : Final(i) => Spoken(i)

AckedVisible ==
    \A m \in messages \ unread : Admissible(m) => Visible(m) \/ Eclipsed(m, LogWelcome)

SeenVisible ==
    \A k \in seen : k[2] # 0 =>
        \E c \in messages : /\ Key(c) = k /\ Admissible(c)
                            /\ \/ c \notin unread /\ Visible(c)
                               \/ c \in job.msg /\ job.at \in Marked

JobVisible ==
    \A m \in job.msg :
        /\ job.at \in Logged => Visible(m)
        /\ At("minimal") /\ job.suppress => Traceroute(m) /\ Spoken(m.request)

\* What is to be reported after the handler's own packet is of the packet's traceroute: the
\* id of a request is the one its packets name.
OwnReports ==
    At("minimal") =>
        \A m \in job.msg : \A k \in job.reports : Traceroute(m) /\ m.request = k[2]

Visibility == FinalSpoken /\ AckedVisible /\ SeenVisible /\ JobVisible

Accounted == OwnReports /\ (crashes = 0 => Visibility)

----------------------------------------------------------------------------
(* What the operators give                                                 *)

LEMMA Published ==
    ASSUME traffic \in Traffics
    PROVE  /\ messages \subseteq Message
           /\ \A m \in messages : m.kind = "request" => m.request = m.id /\ m.id # 0
           /\ \A m \in messages : Key(m) \in Keys /\ m.request \in RequestIds
           /\ {traffic.maxFailures, traffic.maxCrashes, traffic.maxForgets} \subseteq Nat
  BY IngestAssumption DEF messages, Keys, RequestIds

\* Nothing of what is published changes.
LEMMA Fixed ==
    ASSUME traffic' = traffic
    PROVE  messages' = messages /\ Keys' = Keys /\ RequestIds' = RequestIds /\ Welcome' = Welcome
           /\ LogWelcome' = LogWelcome
  BY DEF messages, Keys, RequestIds, Welcome, LogWelcome

LEMMA KeyFields ==
    ASSUME NEW m
    PROVE  Key(m)[1] = m.from /\ Key(m)[2] = m.id
  BY DEF Key

LEMMA RangeOfPath ==
    ASSUME NEW path \in Seq(Nat)
    PROVE  /\ Range(path) \subseteq Nat
           /\ \A i \in 1..Len(path) : path[i] \in Range(path)
  BY DEF Range

LEMMA EvidenceIsKnown ==
    ASSUME NEW m \in Message
    PROVE  /\ Evidence(m) \subseteq Known
           /\ MinimalEvidence(m) \subseteq Known
           /\ m.from # NoNode => m.from \in Evidence(m) /\ MinimalEvidence(m) = Evidence(m)
  <1>1. Mentioned(m) \subseteq Nat
    BY RangeOfPath DEF Mentioned, Message
  <1>2. Evidence(m) \subseteq Known
    BY <1>1 DEF Evidence, Known, Message
  <1>3. m.from # NoNode => m.from \in Evidence(m)
    BY DEF Evidence, Message
  <1>. QED  BY <1>2, <1>3 DEF MinimalEvidence

LEMMA HopsEndOnPath ==
    ASSUME NEW path \in Seq(Nat), NEW e \in Hops(path)
    PROVE  e[1] \in Range(path) /\ e[2] \in Range(path)
  <1>1. PICK i \in 1..Len(path) - 1 : e = <<path[i], path[i + 1]>>
    BY DEF Hops
  <1>2. i \in 1..Len(path) /\ i + 1 \in 1..Len(path)
    BY <1>1
  <1>. QED  BY <1>1, <1>2, RangeOfPath

\* topologyEdgesFromParsed names no node that collectNodeEvidence leaves out.
LEMMA EdgesAmongEvidence ==
    ASSUME NEW m \in Message, Admissible(m)
    PROVE  Ends(Edges(m)) \subseteq MinimalEvidence(m)
  <1>. SUFFICES ASSUME NEW e \in Edges(m)
                PROVE  e[1] \in MinimalEvidence(m) /\ e[2] \in MinimalEvidence(m)
    BY DEF Ends
  <1>1. e \in Said(m) \cup Heard(m) /\ e[1] # NoNode /\ e[2] # NoNode
    BY DEF Edges
  <1>2. CASE m.from = NoNode
    <2>1. m.kind = "unknown_encrypted"
      BY <1>2 DEF Admissible
    <2>2. Said(m) = {}
      BY <2>1 DEF Said
    <2>3. e = <<m.from, m.gateway>>
      BY <1>1, <2>2 DEF Heard
    <2>. QED  BY <1>1, <1>2, <2>3
  <1>3. CASE m.from # NoNode /\ e \in Heard(m)
    <2>1. e = <<m.from, m.gateway>> /\ ~m.mapTopic
      BY <1>3 DEF Heard
    <2>. QED  BY <1>1, <1>3, <2>1 DEF MinimalEvidence, Evidence
  <1>4. CASE m.from # NoNode /\ e \in Said(m)
    <2>1. /\ e[1] \in Mentioned(m) \cup {m.from}
          /\ e[2] \in Mentioned(m)
      <3>1. CASE m.kind = "neighbor_info"
        <4>1. e[1] = Reporter(m) /\ e[2] \in m.neighbors
          BY <1>4, <3>1 DEF Said
        <4>2. Reporter(m) \in Range(m.path) \cup {m.from}
          BY RangeOfPath DEF Reporter, Message
        <4>3. Mentioned(m) = Range(m.path) \cup m.neighbors
          BY <3>1 DEF Mentioned, Traceroute
        <4>. QED  BY <4>1, <4>2, <4>3
      <3>2. CASE m.kind \in {"reply", "routing"}
        <4>1. e \in Hops(m.path) \cup Hops(m.back)
          BY <1>4, <3>2 DEF Said
        <4>2. m.path \in Seq(Nat) /\ m.back \in Seq(Nat)
          BY DEF Message
        <4>3. Mentioned(m) = Range(m.path) \cup Range(m.back)
          BY <3>2 DEF Mentioned, Traceroute
        <4>. QED  BY <4>1, <4>2, <4>3, HopsEndOnPath
      <3>3. CASE m.kind # "neighbor_info" /\ m.kind \notin {"reply", "routing"}
        BY <1>4, <3>3 DEF Said
      <3>. QED  BY <3>1, <3>2, <3>3
    <2>. QED  BY <1>1, <1>4, <2>1 DEF MinimalEvidence, Evidence
  <1>. QED  BY <1>1, <1>2, <1>3, <1>4

\* A chat message has one row, and no other kind has a row of the chat.
LEMMA RowsOfKind ==
    ASSUME NEW m \in Message
    PROVE  /\ Rows(m) \in Seq(RowNames)
           /\ Rows(m) = <<"chat">> \/ \A i \in 1..Len(Rows(m)) : Rows(m)[i] # "chat"
  <1>1. CASE m.kind \in {"chat", "telemetry"}
    <2>1. Rows(m) = <<m.kind>>
      BY <1>1 DEF Rows
    <2>. QED  BY <1>1, <2>1 DEF RowNames
  <1>2. CASE m.kind \notin {"chat", "telemetry"}
    <2>. DEFINE Names == {"node_info", "firmware_version", "node_firmware", "hardware_model",
                          "node_hardware", "position", "last_map_report"}
    <2>1. /\ <<>> \in Seq(Names)
          /\ <<"node_info">> \in Seq(Names)
          /\ <<"firmware_version", "node_firmware">> \in Seq(Names)
          /\ <<"hardware_model", "node_hardware">> \in Seq(Names)
          /\ <<"position">> \in Seq(Names)
          /\ <<"last_map_report">> \in Seq(Names)
      OBVIOUS
    <2>2. /\ Names \subseteq RowNames
          /\ "chat" \notin Names
      BY DEF RowNames
    <2>. HIDE DEF Names
    <2>3. \A s, t \in Seq(Names) : s \o t \in Seq(Names)
      BY ConcatProperties
    <2>4. NodeInfoRows(m) \in Seq(Names) /\ PositionRows(m) \in Seq(Names)
      BY <2>1, <2>3 DEF NodeInfoRows, PositionRows, If
    <2>5. Rows(m) \in Seq(Names)
      BY <1>2, <2>1, <2>3, <2>4 DEF Rows
    <2>6. Rows(m) \in Seq(RowNames)
      BY <2>2, <2>5, SeqMonotonic
    <2>7. \A i \in 1..Len(Rows(m)) : Rows(m)[i] \in Names
      BY <2>5, ElementOfSeq
    <2>. QED  BY <2>2, <2>6, <2>7
  <1>. QED  BY <1>1, <1>2

LEMMA RowsLeft ==
    ASSUME NEW rows \in Seq(RowNames), NEW n \in 1..Len(rows)
    PROVE  /\ SubSeq(rows, n + 1, Len(rows)) \in Seq(RowNames)
           /\ Len(SubSeq(rows, n + 1, Len(rows))) = Len(rows) - n
           /\ \A i \in 1..Len(rows) - n : SubSeq(rows, n + 1, Len(rows))[i] = rows[i + n]
  OBVIOUS

LEMMA Working ==
    ASSUME TypeOK, ~At("idle")
    PROVE  /\ job.msg = {Current}
           /\ Current \in messages
           /\ Current \in Message
           /\ Key(Current) \in Keys
           /\ Current.request \in RequestIds
  <1>1. PICK m \in messages : job.msg = {m}
    BY DEF TypeOK
  <1>2. Current = m
    BY <1>1 DEF Current
  <1>. QED  BY <1>1, <1>2, Published DEF TypeOK

----------------------------------------------------------------------------
(* Types                                                                   *)

LEMMA InitShape ==
    ASSUME Init
    PROVE  Shape
  <1>1. TypeOK
    <2>1. Idle \in Job
      BY DEF Idle, Job, Points
    <2>2. /\ tracker \in [RequestIds -> {NoEntry} \cup [key: Keys, final: BOOLEAN]]
          /\ nodes \in [DOMAIN nodes -> messages]
          /\ DOMAIN nodes = {}
          /\ discovered \in [{m.from : m \in messages} -> Nat]
          /\ chat \in [Keys -> Nat] /\ packetLog \in [Keys -> Nat]
          /\ lifecycles \in [Keys -> Nat] /\ lapses \in [Keys -> Nat]
      BY DEF Init
    <2>3. At("idle") /\ job = Idle
      BY DEF Init, At, Idle
    <2>. QED  BY <2>1, <2>2, <2>3 DEF Init, TypeOK
  <1>2. Locals
    BY DEF Init, Locals, Idle, At, Marked
  <1>3. Requested
    BY DEF Init, Requested
  <1>. QED  BY <1>1, <1>2, <1>3 DEF Shape

\* Count adds one to one row of a table.
LEMMA CountAddsOne ==
    ASSUME NEW S, NEW table \in [S -> Nat], NEW k \in S
    PROVE  /\ Count(table, k) \in [S -> Nat]
           /\ \A j \in S : Count(table, k)[j] = IF j = k THEN table[j] + 1 ELSE table[j]
  BY DEF Count

\* Upsert adds a row for n and leaves the others.
LEMMA UpsertAddsRow ==
    ASSUME TypeOK, Current \in messages, NEW n \in Known, Upsert(n)
    PROVE  /\ DOMAIN nodes' = DOMAIN nodes \cup {n}
           /\ DOMAIN nodes' \subseteq Known
           /\ nodes' \in [DOMAIN nodes' -> messages]
           /\ \A k \in DOMAIN nodes : nodes'[k] = nodes[k]
           /\ n \notin DOMAIN nodes => nodes'[n] = Current
  BY DEF TypeOK, Upsert

Entries == {NoEntry} \cup [key: Keys, final: BOOLEAN]

LEMMA EntryFields ==
    /\ NoEntry \in Entries /\ ~NoEntry.final
    /\ \A e \in Entries : e.final \in BOOLEAN /\ (e # NoEntry => e.key \in Keys)
    /\ \A k \in Keys, final \in BOOLEAN :
          [key |-> k, final |-> final] \in Entries
    /\ \A e \in Entries, final \in BOOLEAN :
          e # NoEntry => [e EXCEPT !.final = final] = [key |-> e.key, final |-> final]
    /\ \A k \in Keys, final \in BOOLEAN : [key |-> k, final |-> final] # NoEntry
  <1>1. \A k \in Keys : k # <<>>
    BY DEF Keys, Key
  <1>2. \A k \in Keys, final \in BOOLEAN :
           [key |-> k, final |-> final] \in Entries
    BY DEF Entries
  <1>3. \A k \in Keys, final \in BOOLEAN : [key |-> k, final |-> final] # NoEntry
    <2>. SUFFICES ASSUME NEW k \in Keys, NEW final \in BOOLEAN,
                         [key |-> k, final |-> final] = NoEntry
                  PROVE  FALSE
      OBVIOUS
    <2>1. [key |-> k, final |-> final].key = NoEntry.key
      OBVIOUS
    <2>2. NoEntry.key = <<>>
      BY DEF NoEntry
    <2>. QED  BY <1>1, <2>1, <2>2
  <1>4. NoEntry \in Entries /\ ~NoEntry.final /\ NoEntry.final \in BOOLEAN
    BY DEF Entries, NoEntry
  <1>5. \A e \in Entries : e # NoEntry => e.final \in BOOLEAN /\ e.key \in Keys
    BY DEF Entries
  <1>6. \A e \in Entries, final \in BOOLEAN :
           e # NoEntry => [e EXCEPT !.final = final] = [key |-> e.key, final |-> final]
    BY DEF Entries
  <1>. QED  BY <1>2, <1>3, <1>4, <1>5, <1>6

LEMMA TrackerIsTable ==
    ASSUME TypeOK
    PROVE  /\ tracker \in [RequestIds -> Entries]
           /\ \A i \in RequestIds : /\ Open(i) \in BOOLEAN /\ Final(i) \in BOOLEAN
                                    /\ Open(i) <=> tracker[i] # NoEntry /\ ~Final(i)
                                    /\ Final(i) => tracker[i] # NoEntry
                                    /\ tracker[i] # NoEntry => tracker[i].key \in Keys
  BY EntryFields DEF TypeOK, Entries, Open, Final

\* What the tracker does with a packet: it opens an entry, ends one, or stays as it is.
LEMMA TrackerTakes ==
    ASSUME TypeOK, NEW m \in messages
    PROVE  LET i == m.request
               t == Tracked(m)
           IN  \/ /\ m.kind = "request"
                  /\ t.table = [tracker EXCEPT ![i] = [key |-> Key(m), final |-> FALSE]]
                  /\ t.suppress = TRUE
                  /\ t.reports = {}
               \/ /\ m.kind \in {"reply", "routing_error"}
                  /\ Open(i)
                  /\ t.table = [tracker EXCEPT ![i] = [key |-> tracker[i].key, final |-> TRUE]]
                  /\ t.suppress = TRUE
                  /\ t.reports = {tracker[i].key}
               \/ /\ m.kind # "request"
                  /\ t.table = tracker
                  /\ t.suppress \in BOOLEAN
                  /\ t.suppress => Traceroute(m) /\ tracker[i] # NoEntry
                  /\ t.reports = {}
  <1>. DEFINE i == m.request
  <1>1. i \in RequestIds
    BY Published DEF TypeOK
  <1>0. /\ i \in Opens(tracker) <=> Open(i)
        /\ i \in Finals(tracker) <=> Final(i)
        /\ i \in Held(tracker) <=> tracker[i] # NoEntry
    BY <1>1, TrackerIsTable DEF Opens, Finals, Held, Open, Final
  <1>2. CASE m.kind = "request"
    BY <1>2 DEF Tracked, Noted
  <1>3. CASE m.kind \in {"reply", "routing_error"} /\ Open(i)
    <2>1. [tracker[i] EXCEPT !.final = TRUE] = [key |-> tracker[i].key, final |-> TRUE]
      BY <1>1, <1>3, TrackerIsTable, EntryFields
    <2>2. [tracker EXCEPT ![i].final = TRUE] = [tracker EXCEPT ![i] = [key |-> tracker[i].key, final |-> TRUE]]
      BY <2>1
    <2>3. Tracked(m) = Answered(tracker, i)
      BY <1>3 DEF Tracked
    <2>4. i \in Opens(tracker)
      BY <1>0, <1>3
    <2>5. /\ Tracked(m).table = [tracker EXCEPT ![i].final = TRUE]
          /\ Tracked(m).suppress = TRUE
          /\ Tracked(m).reports = {tracker[i].key}
      BY <2>3, <2>4 DEF Answered
    <2>. QED  BY <1>3, <2>2, <2>5
  <1>4. CASE m.kind \in {"reply", "routing_error"} /\ ~Open(i)
    <2>1. PICK c \in BOOLEAN : c <=> i \in Finals(tracker)
      OBVIOUS
    <2>2. Tracked(m) = Same(tracker, c)
      BY <1>0, <1>4, <2>1 DEF Tracked, Answered, Silenced
    <2>3. c => tracker[i] # NoEntry
      BY <1>0, <1>1, <2>1, TrackerIsTable
    <2>. QED  BY <1>4, <2>2, <2>3 DEF Same, Traceroute
  <1>5. CASE m.kind \in {"routing", "ack"}
    <2>1. PICK c \in BOOLEAN : c <=> i \in Held(tracker)
      OBVIOUS
    <2>2. Tracked(m) = Same(tracker, c)
      BY <1>5, <2>1 DEF Tracked, Touched
    <2>3. c => tracker[i] # NoEntry
      BY <1>0, <2>1
    <2>. QED  BY <1>5, <2>2, <2>3 DEF Same, Traceroute
  <1>6. CASE m.kind \notin {"request", "reply", "routing_error", "routing", "ack"}
    <2>1. Tracked(m) = Same(tracker, FALSE)
      BY <1>6 DEF Tracked
    <2>. QED  BY <1>6, <2>1 DEF Same
  <1>. QED  BY <1>2, <1>3, <1>4, <1>5, <1>6

\* What the sweep before a message does: entries stay, are released once they are final,
\* or are ended and reported.
LEMMA SweepEnds ==
    ASSUME TypeOK, NEW m \in unread, Receive(m)
    PROVE  /\ tracker' \in [RequestIds -> Entries]
           /\ \A i \in RequestIds :
                 \/ tracker'[i] = NoEntry /\ ~Open(i)
                 \/ tracker[i] # NoEntry /\ tracker'[i] = tracker[i]
                 \/ /\ Open(i)
                    /\ tracker'[i] = [key |-> tracker[i].key, final |-> TRUE]
                    /\ tracker[i].key \in job'.reports
           /\ \A k \in job'.reports :
                 \E i \in RequestIds : /\ Open(i)
                                       /\ tracker[i].key = k
                                       /\ tracker'[i] = [key |-> k, final |-> TRUE]
           /\ job'.reports \subseteq Keys
           /\ job' = [Idle EXCEPT !.at = "flush", !.msg = {m}, !.reports = job'.reports]
  <1>1. PICK overdue \in SUBSET {i \in RequestIds : Open(i)},
             spent \in SUBSET {i \in RequestIds : Final(i)} :
          /\ tracker' = [i \in RequestIds |->
                IF i \in spent THEN NoEntry
                ELSE [tracker[i] EXCEPT !.final = @ \/ i \in overdue]]
          /\ job' = [Idle EXCEPT !.at = "flush", !.msg = {m},
                                 !.reports = {tracker[i].key : i \in overdue}]
    <2>1. DOMAIN tracker = RequestIds
      BY TrackerIsTable
    <2>. QED  BY <2>1 DEF Receive, Swept
  <1>2. job'.reports = {tracker[i].key : i \in overdue}
    BY <1>1 DEF Idle
  <1>3. ASSUME NEW i \in RequestIds
        PROVE  /\ i \in spent => tracker'[i] = NoEntry /\ ~Open(i)
               /\ i \in overdue => /\ Open(i) /\ i \notin spent
                                   /\ tracker'[i] = [key |-> tracker[i].key, final |-> TRUE]
               /\ i \notin spent /\ i \notin overdue => tracker'[i] = tracker[i]
    <2>1. tracker[i] \in Entries
      BY TrackerIsTable
    <2>2. CASE i \in spent
      BY <1>1, <2>2, TrackerIsTable
    <2>3. CASE i \in overdue
      <3>1. Open(i) /\ i \notin spent
        BY <2>3, TrackerIsTable
      <3>2. tracker'[i] = [tracker[i] EXCEPT !.final = TRUE]
        BY <1>1, <2>3, <3>1
      <3>. QED  BY <2>1, <2>3, <3>1, <3>2, EntryFields, TrackerIsTable
    <2>4. CASE i \notin spent /\ i \notin overdue
      <3>1. tracker'[i] = [tracker[i] EXCEPT !.final = tracker[i].final]
        BY <1>1, <2>4, <2>1, EntryFields
      <3>. QED  BY <2>1, <2>4, <3>1 DEF Entries, NoEntry
    <2>. QED  BY <2>2, <2>3, <2>4
  <1>4. ASSUME NEW i \in RequestIds
        PROVE  tracker'[i] \in Entries
    <2>1. CASE i \in overdue
      <3>1. tracker[i].key \in Keys
        BY <1>3, <2>1, TrackerIsTable
      <3>. QED  BY <1>3, <2>1, <3>1, EntryFields
    <2>2. CASE i \notin overdue
      <3>1. tracker[i] \in Entries /\ NoEntry \in Entries
        BY TrackerIsTable, EntryFields
      <3>. QED  BY <1>3, <2>2, <3>1
    <2>. QED  BY <2>1, <2>2
  <1>5. tracker' \in [RequestIds -> Entries]
    BY <1>1, <1>4
  <1>6. job'.reports \subseteq Keys
    BY <1>2, TrackerIsTable
  <1>. QED  BY <1>1, <1>2, <1>3, <1>5, <1>6, TrackerIsTable

\* Past the filter a message has one thing on its list, by the log policy of its channel.
LEMMA AdmitStarts ==
    ASSUME TypeOK, Admit
    PROVE  /\ job' \in Job
           /\ job'.msg = job.msg
           /\ job'.rows = job.rows
           /\ job'.created = job.created
           /\ tracker' \in [RequestIds -> Entries]
           /\ LogAllowed(Current) =>
                 /\ job'.at = "minimal"
                 /\ job'.nodes = MinimalEvidence(Current)
                 /\ job'.suppress = Tracked(Current).suppress
                 /\ job'.reports = Tracked(Current).reports
                 /\ tracker' = Tracked(Current).table
           /\ ~LogAllowed(Current) => /\ job'.at = "policy"
                                      /\ job'.nodes = job.nodes
                                      /\ job'.reports = {}
                                      /\ tracker' = tracker
  <1>1. Current \in messages /\ Current \in Message /\ Current.request \in RequestIds
        /\ Key(Current) \in Keys /\ job \in Job
    BY Working DEF Admit, Flushed, At, TypeOK
  <1>2. CASE ~LogAllowed(Current)
    <2>1. job' = [job EXCEPT !.at = "policy"] /\ tracker' = tracker /\ job.reports = {}
      BY <1>2 DEF Admit, GoTo, Flushed
    <2>. QED  BY <1>1, <1>2, <2>1, TrackerIsTable DEF Job, Points
  <1>3. CASE LogAllowed(Current)
    <2>. DEFINE t == Tracked(Current)
    <2>1. /\ tracker' = t.table
          /\ job' = [job EXCEPT !.at = "minimal", !.suppress = t.suppress,
                       !.reports = t.reports, !.nodes = MinimalEvidence(Current)]
      BY <1>3 DEF Admit
    <2>2. t.table \in [RequestIds -> Entries]
      <3>1. \A k \in Keys, final \in BOOLEAN :
               [tracker EXCEPT ![Current.request] = [key |-> k, final |-> final]]
                  \in [RequestIds -> Entries]
        BY <1>1, TrackerIsTable, EntryFields
      <3>2. Open(Current.request) => tracker[Current.request].key \in Keys
        BY <1>1, TrackerIsTable
      <3>. QED  BY <1>1, <3>1, <3>2, TrackerTakes, TrackerIsTable
    <2>3. t.suppress \in BOOLEAN /\ t.reports \subseteq Keys
      BY <1>1, TrackerTakes, TrackerIsTable, ZenonT(30)
    <2>4. MinimalEvidence(Current) \subseteq Known
      BY <1>1, EvidenceIsKnown
    <2>. HIDE DEF t
    <2>. QED  BY <1>1, <1>3, <2>1, <2>2, <2>3, <2>4 DEF Job, Points, t
  <1>. QED  BY <1>2, <1>3

\* A failed call of the store may leave out rows, from the front.
LEMMA FailureDropsRows ==
    ASSUME TypeOK, NEW n \in 1..Len(job.rows),
           job' = [job EXCEPT !.rows = SubSeq(@, n + 1, Len(@))]
    PROVE  /\ job' \in Job
           /\ job'.at = job.at /\ job'.msg = job.msg /\ job'.reports = job.reports
           /\ job'.nodes = job.nodes /\ job'.created = job.created
           /\ job'.rows \in Seq(RowNames)
           /\ Len(job'.rows) = Len(job.rows) - n
           /\ \A i \in 1..Len(job.rows) - n : job'.rows[i] = job.rows[i + n]
  <1>1. job \in Job /\ job.rows \in Seq(RowNames)
    BY DEF TypeOK, Job
  <1>2. job'.rows = SubSeq(job.rows, n + 1, Len(job.rows))
    BY <1>1 DEF Job
  <1>3. SubSeq(job.rows, n + 1, Len(job.rows)) \in Seq(RowNames)
    BY <1>1, RowsLeft
  <1>. QED  BY <1>1, <1>2, <1>3, RowsLeft DEF Job

LEMMA RowsShorter ==
    ASSUME NEW rows \in Seq(RowNames), NEW left \in Seq(RowNames), NEW n \in 1..Len(rows),
           Len(left) = Len(rows) - n,
           \A i \in 1..Len(rows) - n : left[i] = rows[i + n],
           rows = <<"chat">> \/ \A i \in 1..Len(rows) : rows[i] # "chat"
    PROVE  \A i \in 1..Len(left) : left[i] # "chat"
  <1>1. Len(rows) \in Nat /\ Len(left) \in Nat
    OBVIOUS
  <1>2. CASE rows = <<"chat">>
    BY <1>1, <1>2
  <1>3. CASE \A i \in 1..Len(rows) : rows[i] # "chat"
    <2>1. \A i \in 1..Len(left) : i + n \in 1..Len(rows) /\ left[i] = rows[i + n]
      BY <1>1
    <2>. QED  BY <1>3, <2>1
  <1>. QED  BY <1>2, <1>3

\* What a call of the store that is not the last, or a failed one, does to the rows to come.
LEMMA RowsAdvance ==
    ASSUME TypeOK, StoreRow
    PROVE  \E n \in 1..Len(job.rows) :
              /\ job' \in Job
              /\ job'.at = job.at /\ job'.msg = job.msg /\ job'.reports = job.reports
              /\ job'.nodes = job.nodes /\ job'.created = job.created
              /\ job'.rows \in Seq(RowNames)
              /\ Len(job'.rows) = Len(job.rows) - n
              /\ \A i \in 1..Len(job.rows) - n : job'.rows[i] = job.rows[i + n]
              /\ n = 1 \/ Key(Current) \in failures'
  <1>1. job \in Job /\ job.rows \in Seq(RowNames) /\ job.rows # <<>>
    BY DEF TypeOK, Job, StoreRow
  <1>2. CASE Fails(Key(Current))
             /\ \E n \in 1..Len(job.rows) : job' = [job EXCEPT !.rows = SubSeq(@, n + 1, Len(@))]
    <2>1. PICK n \in 1..Len(job.rows) : job' = [job EXCEPT !.rows = SubSeq(@, n + 1, Len(@))]
      BY <1>2
    <2>2. Key(Current) \in failures'
      BY <1>2 DEF Fails
    <2>. QED  BY <2>1, <2>2, FailureDropsRows
  <1>3. CASE job' = [job EXCEPT !.rows = Tail(@)]
    <2>1. job' = [job EXCEPT !.rows = Tail(@)]
      BY <1>3
    <2>2. /\ Tail(job.rows) \in Seq(RowNames)
          /\ Len(Tail(job.rows)) = Len(job.rows) - 1
          /\ \A i \in 1..Len(job.rows) - 1 : Tail(job.rows)[i] = job.rows[i + 1]
      BY <1>1, HeadTailProperties
    <2>3. 1 \in 1..Len(job.rows)
      BY <1>1
    <2>4. job'.rows = Tail(job.rows)
      BY <1>1, <2>1 DEF Job
    <2>5. /\ job' \in Job
          /\ job'.at = job.at /\ job'.msg = job.msg /\ job'.reports = job.reports
          /\ job'.nodes = job.nodes /\ job'.created = job.created
      BY <1>1, <2>1, <2>2 DEF Job
    <2>. QED  BY <2>2, <2>3, <2>4, <2>5
  <1>4. \/ job' = [job EXCEPT !.rows = Tail(@)]
        \/ Fails(Key(Current))
           /\ \E n \in 1..Len(job.rows) : job' = [job EXCEPT !.rows = SubSeq(@, n + 1, Len(@))]
    BY DEF StoreRow
  <1>. QED  BY <1>2, <1>3, <1>4

LEMMA IdleIsJob ==
    ASSUME TypeOK, job' = Idle, traffic' = traffic
    PROVE  /\ job' \in Job'
           /\ At("idle")'
           /\ Locals'
  <1>1. Job' = Job
    BY Fixed DEF Job
  <1>. QED  BY <1>1 DEF Idle, Job, Points, At, Locals, Marked

LEMMA ShapeStep ==
    ASSUME Shape, [Next]_vars
    PROVE  Shape'
  <1>. USE DEF Shape
  <1>0. /\ traffic' = traffic
        /\ messages' = messages /\ Keys' = Keys /\ RequestIds' = RequestIds
        /\ Job' = Job
    <2>1. traffic' = traffic
      BY DEF Next, Handler, Crash, Forget, vars
    <2>. QED  BY <2>1, Fixed DEF Job
  <1>a. /\ job \in Job
        /\ failures \subseteq Keys /\ crashes \in Nat /\ forgets \in Nat
        /\ tracker \in [RequestIds -> Entries]
        /\ chat \in [Keys -> Nat] /\ packetLog \in [Keys -> Nat]
        /\ lifecycles \in [Keys -> Nat] /\ lapses \in [Keys -> Nat]
    BY TrackerIsTable DEF TypeOK
  <1>b. ASSUME UNCHANGED tracker
        PROVE  Requested'
    BY <1>0, <1>b DEF Requested
  <1>1. CASE UNCHANGED vars
    <2>2. TypeOK'
      BY <1>1, <1>0 DEF vars, volatile, tables, counters, TypeOK, At
    <2>3. Locals'
      BY <1>1, <1>0 DEF vars, volatile, tables, counters, Locals, At
    <2>4. Requested'
      BY <1>1, <1>b DEF vars, volatile
    <2>. QED  BY <2>2, <2>3, <2>4
  <1>2. ASSUME NEW m \in unread, Receive(m)
        PROVE  Shape'
    <2>1. m \in messages
      BY DEF TypeOK
    <2>2. /\ job' \in Job /\ job'.at = "flush" /\ job'.msg = {m}
          /\ job'.nodes = {} /\ job'.created = {} /\ job'.rows = <<>>
      <3>1. PICK R \in SUBSET Keys :
               job' = [Idle EXCEPT !.at = "flush", !.msg = {m}, !.reports = R]
        BY <1>2, SweepEnds
      <3>2. Idle \in Job /\ "flush" \in Points
        BY DEF Idle, Job, Points
      <3>3. job' \in Job
        BY <2>1, <3>1, <3>2 DEF Job
      <3>4. /\ job'.at = "flush" /\ job'.msg = {m} /\ job'.nodes = Idle.nodes
            /\ job'.created = Idle.created /\ job'.rows = Idle.rows
        BY <3>1, <3>2 DEF Job
      <3>. QED  BY <3>3, <3>4 DEF Idle
    <2>3. TypeOK'
      BY <1>0, <1>2, <2>1, <2>2, SweepEnds DEF TypeOK, At, tables, counters, Receive, Entries
    <2>4. Locals'
      BY <2>2 DEF Locals, At, Marked
    <2>5. Requested'
      <3>. SUFFICES ASSUME NEW i \in RequestIds, tracker'[i] # NoEntry
                    PROVE  tracker[i] # NoEntry /\ tracker'[i].key = tracker[i].key
        BY <1>0 DEF Requested
      <3>1. CASE Open(i) /\ tracker'[i] = [key |-> tracker[i].key, final |-> TRUE]
        BY <3>1 DEF Open
      <3>2. CASE tracker'[i] = tracker[i]
        BY <3>2
      <3>. QED  BY <1>2, <3>1, <3>2, SweepEnds
    <2>. QED  BY <2>3, <2>4, <2>5
  <1>3. CASE Report
    <2>1. PICK k \in job.reports : /\ job' = [job EXCEPT !.reports = @ \ {k}]
                                   /\ \/ lifecycles' = Count(lifecycles, k) /\ UNCHANGED failures
                                      \/ Fails(k) /\ UNCHANGED lifecycles
      BY <1>3 DEF Report
    <2>2. k \in Keys
      BY <1>a DEF Job
    <2>3. lifecycles' \in [Keys -> Nat] /\ failures' \subseteq Keys
      BY <1>a, <2>1, <2>2, CountAddsOne DEF Fails
    <2>4. TypeOK'
      BY <1>0, <1>a, <1>3, <2>1, <2>3 DEF TypeOK, At, Report, Job
    <2>5. Locals'
      BY <1>a, <1>3, <2>1 DEF Locals, At, Marked, Report, Job
    <2>6. Requested'
      BY <1>3, <1>b DEF Report
    <2>. QED  BY <2>4, <2>5, <2>6
  <1>4. CASE Drop
    <2>1. TypeOK'
      BY <1>0, <1>a, <1>4, IdleIsJob DEF TypeOK, Drop, Return, tables, counters
    <2>2. Locals'
      BY <1>0, <1>4, IdleIsJob DEF Drop, Return
    <2>3. Requested'
      BY <1>4, <1>b DEF Drop
    <2>. QED  BY <2>1, <2>2, <2>3
  <1>5. CASE Admit
    <2>1. /\ Current \in messages /\ job.msg = {Current} /\ Key(Current) \in Keys
          /\ Current.request \in RequestIds
      BY <1>5, Working DEF Admit, Flushed, At
    <2>2. seen' \subseteq Keys
      BY <1>5, <2>1 DEF Admit, TypeOK
    <2>3. TypeOK'
      <3>1. job'.at # "idle"
        BY <1>5, AdmitStarts
      <3>. QED  BY <1>0, <1>a, <1>5, <2>1, <2>2, <3>1, AdmitStarts
                DEF TypeOK, At, Admit, tables, counters, Entries
    <2>4. Locals'
      <3>1. Admissible(Current) /\ job.at = "flush" /\ job.rows = <<>>
        BY <1>5 DEF Admit, Flushed, At, Locals
      <3>2. job'.at \in {"minimal", "policy"}
        BY <1>5, AdmitStarts
      <3>3. job'.reports # {} => job'.at = "minimal"
        BY <1>5, AdmitStarts
      <3>4. job'.rows = <<>> /\ job'.msg = {Current}
        BY <1>5, <2>1, <3>1, AdmitStarts
      <3>. QED  BY <3>1, <3>2, <3>3, <3>4 DEF Locals, At, Marked
    <2>5. Requested'
      <3>1. Admissible(Current)
        BY <1>5 DEF Admit
      <3>2. CASE tracker' = tracker
        BY <1>b, <3>2
      <3>3. CASE LogAllowed(Current)
        <4>. DEFINE i == Current.request
        <4>1. tracker' = Tracked(Current).table
          BY <1>5, <3>3, AdmitStarts
        <4>2. ASSUME NEW j \in RequestIds, tracker'[j] # NoEntry
              PROVE  \E r \in messages : /\ r.kind = "request"
                                         /\ r.request = j
                                         /\ Admissible(r)
                                         /\ tracker'[j].key = Key(r)
          <5>1. CASE Current.kind = "request" /\ j = i
            <6>1. tracker'[j] = [key |-> Key(Current), final |-> FALSE]
              BY <1>a, <2>1, <4>1, <5>1, TrackerTakes
            <6>. QED  BY <2>1, <3>1, <5>1, <6>1
          <5>2. CASE tracker[j] # NoEntry /\ tracker'[j].key = tracker[j].key
            BY <5>2 DEF Requested
          <5>3. CASE j = i /\ Open(i) /\ tracker'[j] = [key |-> tracker[i].key, final |-> TRUE]
            <6>1. tracker[j] # NoEntry /\ tracker'[j].key = tracker[j].key
              BY <5>3 DEF Open
            <6>. QED  BY <5>2, <6>1
          <5>4. CASE tracker'[j] = tracker[j]
            BY <4>2, <5>2, <5>4
          <5>. QED  BY <1>a, <2>1, <4>1, <5>1, <5>3, <5>4, TrackerTakes
        <4>. QED  BY <1>0, <4>2 DEF Requested
      <3>. QED  BY <1>5, <3>2, <3>3, AdmitStarts
    <2>. QED  BY <2>3, <2>4, <2>5
  <1>6. CASE UpsertMinimal
    <2>1. PICK n \in job.nodes :
             \/ /\ Upsert(n)
                /\ job' = [job EXCEPT !.nodes = @ \ {n},
                             !.created = IF n \in DOMAIN nodes THEN @ ELSE @ \cup {n}]
                /\ UNCHANGED <<unread, failures>>
             \/ Fails(Key(Current)) /\ Return /\ UNCHANGED nodes
      BY <1>6 DEF UpsertMinimal
    <2>2. n \in Known /\ Current \in messages /\ Key(Current) \in Keys
      BY <1>6, <1>a, Working DEF Job, UpsertMinimal, At
    <2>3. CASE Fails(Key(Current)) /\ Return /\ UNCHANGED nodes
      <3>1. TypeOK'
        BY <1>0, <1>a, <1>6, <2>2, <2>3, IdleIsJob
           DEF TypeOK, UpsertMinimal, Return, Fails
      <3>2. Locals'
        BY <1>0, <2>3, IdleIsJob DEF Return
      <3>. QED  BY <1>6, <1>b, <3>1, <3>2 DEF UpsertMinimal
    <2>4. CASE /\ Upsert(n)
               /\ job' = [job EXCEPT !.nodes = @ \ {n},
                            !.created = IF n \in DOMAIN nodes THEN @ ELSE @ \cup {n}]
               /\ UNCHANGED <<unread, failures>>
      <3>1. job' \in Job /\ job'.at = "minimal" /\ job'.msg = job.msg
            /\ job'.rows = job.rows /\ job'.reports = job.reports
        BY <1>6, <1>a, <2>2, <2>4 DEF Job, UpsertMinimal, At
      <3>2. TypeOK'
        BY <1>0, <1>a, <1>6, <2>2, <2>4, <3>1, UpsertAddsRow DEF TypeOK, UpsertMinimal, At
      <3>3. Locals'
        BY <1>6, <3>1 DEF Locals, At, Marked, UpsertMinimal
      <3>. QED  BY <1>6, <1>b, <3>2, <3>3 DEF UpsertMinimal
    <2>. QED  BY <2>1, <2>3, <2>4
  <1>7. CASE LogPacket
    <2>1. Key(Current) \in Keys
      BY <1>7, Working DEF LogPacket, At
    <2>2. packetLog' \in [Keys -> Nat] /\ failures' \subseteq Keys
      BY <1>7, <1>a, <2>1, CountAddsOne DEF LogPacket, Fails
    <2>3. job' \in Job /\ job' = [job EXCEPT !.at = "lifecycle"] /\ job.at = "minimal"
      BY <1>7, <1>a DEF LogPacket, GoTo, Job, Points, At
    <2>4. job'.at = "lifecycle" /\ job'.msg = job.msg /\ job'.rows = job.rows
      BY <1>a, <2>3 DEF Job
    <2>5. TypeOK'
      BY <1>0, <1>a, <1>7, <2>2, <2>3, <2>4 DEF TypeOK, LogPacket, At
    <2>6. Locals'
      BY <2>3, <2>4 DEF Locals, At, Marked
    <2>. QED  BY <1>7, <1>b, <2>5, <2>6 DEF LogPacket
  <1>8. CASE PersistEdges
    <2>1. CASE Return
      <3>0. Key(Current) \in Keys
        BY <1>8, Working DEF PersistEdges, At
      <3>1. TypeOK'
        BY <1>0, <1>a, <1>8, <2>1, <3>0, IdleIsJob DEF TypeOK, PersistEdges, Return, Fails
      <3>2. Locals'
        BY <1>0, <2>1, IdleIsJob DEF Return
      <3>. QED  BY <1>8, <1>b, <3>1, <3>2 DEF PersistEdges
    <2>2. CASE GoTo("policy") /\ UNCHANGED <<unread, failures>>
      <3>1. job' \in Job /\ job' = [job EXCEPT !.at = "policy"] /\ job.at = "lifecycle" /\ job.reports = {}
        BY <1>8, <1>a, <2>2 DEF PersistEdges, GoTo, Job, Points, At
      <3>2. job'.at = "policy" /\ job'.msg = job.msg /\ job'.rows = job.rows /\ job'.reports = {}
        BY <1>a, <3>1 DEF Job
      <3>3. TypeOK'
        BY <1>0, <1>a, <1>8, <2>2, <3>1, <3>2 DEF TypeOK, PersistEdges, At
      <3>4. Locals'
        BY <3>1, <3>2 DEF Locals, At, Marked
      <3>. QED  BY <1>8, <1>b, <3>3, <3>4 DEF PersistEdges
    <2>. QED  BY <1>8, <2>1, <2>2 DEF PersistEdges
  <1>9. CASE ApplyPolicy
    <2>1. CASE Return
      <3>1. TypeOK'
        BY <1>0, <1>a, <1>9, <2>1, IdleIsJob DEF TypeOK, ApplyPolicy, Return, tables, counters
      <3>2. Locals'
        BY <1>0, <2>1, IdleIsJob DEF Return
      <3>. QED  BY <1>9, <1>b, <3>1, <3>2 DEF ApplyPolicy
    <2>2. CASE /\ Allowed(Current) /\ Current.from # NoNode
               /\ job' = [job EXCEPT !.at = "authoritative", !.nodes = Evidence(Current)]
               /\ UNCHANGED unread
      <3>1. Current \in Message /\ job.msg = {Current} /\ job.at = "policy"
        BY <1>9, Working DEF ApplyPolicy, At
      <3>2. Evidence(Current) \subseteq Known
        BY <3>1, EvidenceIsKnown
      <3>3. job' \in Job /\ job'.at = "authoritative" /\ job'.msg = {Current} /\ job'.rows = job.rows
            /\ job'.reports = job.reports
        BY <1>a, <2>2, <3>1, <3>2 DEF Job, Points
      <3>4. TypeOK'
        BY <1>0, <1>a, <1>9, <2>2, <3>1, <3>3 DEF TypeOK, ApplyPolicy, At, tables, counters
      <3>5. Locals'
        BY <2>2, <3>1, <3>3 DEF Locals, At, Marked
      <3>. QED  BY <1>9, <1>b, <3>4, <3>5 DEF ApplyPolicy
    <2>. QED  BY <1>9, <2>1, <2>2 DEF ApplyPolicy
  <1>10. CASE UpsertAuthoritative
    <2>1. PICK n \in job.nodes :
             \/ /\ Upsert(n)
                /\ job' = [job EXCEPT !.nodes = @ \ {n},
                             !.at = IF NewSender(n) THEN "discover" ELSE @]
                /\ UNCHANGED <<unread, failures>>
             \/ Fails(Key(Current)) /\ Return /\ UNCHANGED nodes
      BY <1>10 DEF UpsertAuthoritative
    <2>2. n \in Known /\ Current \in messages /\ Key(Current) \in Keys /\ job.at = "authoritative"
      BY <1>10, <1>a, Working DEF Job, UpsertAuthoritative, At
    <2>3. CASE Fails(Key(Current)) /\ Return /\ UNCHANGED nodes
      <3>1. TypeOK'
        BY <1>0, <1>a, <1>10, <2>2, <2>3, IdleIsJob DEF TypeOK, UpsertAuthoritative, Return, Fails
      <3>2. Locals'
        BY <1>0, <2>3, IdleIsJob DEF Return
      <3>. QED  BY <1>10, <1>b, <3>1, <3>2 DEF UpsertAuthoritative
    <2>4. CASE /\ Upsert(n)
               /\ job' = [job EXCEPT !.nodes = @ \ {n},
                            !.at = IF NewSender(n) THEN "discover" ELSE @]
               /\ UNCHANGED <<unread, failures>>
      <3>1. job' \in Job /\ job'.at \in {"authoritative", "discover"} /\ job'.msg = job.msg
            /\ job'.rows = job.rows /\ job'.reports = job.reports
        BY <1>a, <2>2, <2>4 DEF Job, Points
      <3>2. TypeOK'
        BY <1>0, <1>a, <1>10, <2>2, <2>4, <3>1, UpsertAddsRow DEF TypeOK, UpsertAuthoritative, At
      <3>3. Locals'
        BY <2>2, <3>1 DEF Locals, At, Marked
      <3>. QED  BY <1>10, <1>b, <3>2, <3>3 DEF UpsertAuthoritative
    <2>. QED  BY <2>1, <2>3, <2>4
  <1>11. CASE Discover
    <2>1. Current \in messages /\ Key(Current) \in Keys /\ job.at = "discover"
      BY <1>11, Working DEF Discover, At
    <2>2. discovered' \in [{m.from : m \in messages} -> Nat] /\ failures' \subseteq Keys
      <3>. DEFINE Senders == {m.from : m \in messages}
      <3>1. discovered \in [Senders -> Nat] /\ Current.from \in Senders
        BY <2>1 DEF TypeOK
      <3>. HIDE DEF Senders
      <3>2. Count(discovered, Current.from) \in [Senders -> Nat]
        BY <3>1, CountAddsOne
      <3>3. discovered' \in [Senders -> Nat]
        BY <1>11, <3>1, <3>2 DEF Discover, Fails
      <3>. QED  BY <1>11, <1>a, <2>1, <3>3 DEF Discover, Fails, Senders
    <2>3. job' \in Job /\ job' = [job EXCEPT !.at = "authoritative"]
      BY <1>11, <1>a DEF Discover, GoTo, Job, Points
    <2>4. job'.at = "authoritative" /\ job'.msg = job.msg /\ job'.rows = job.rows
          /\ job'.reports = job.reports
      BY <1>a, <2>3 DEF Job
    <2>5. TypeOK'
      BY <1>0, <1>a, <1>11, <2>1, <2>2, <2>3, <2>4 DEF TypeOK, Discover, At
    <2>6. Locals'
      BY <2>1, <2>4 DEF Locals, At, Marked
    <2>. QED  BY <1>11, <1>b, <2>5, <2>6 DEF Discover
  <1>12. CASE Dispatch
    <2>1. Current \in Message /\ job.at = "authoritative"
      BY <1>12, Working DEF Dispatch, At
    <2>2. Rows(Current) \in Seq(RowNames)
      BY <2>1, RowsOfKind
    <2>3. job' \in Job /\ job'.at = "rows" /\ job'.msg = job.msg /\ job'.rows = Rows(Current)
          /\ job'.reports = job.reports
      BY <1>12, <1>a, <2>2 DEF Dispatch, Job, Points
    <2>4. TypeOK'
      BY <1>0, <1>a, <1>12, <2>1, <2>3 DEF TypeOK, Dispatch, At, tables, counters
    <2>5. Locals'
      BY <2>1, <2>3, RowsOfKind DEF Locals, At, Marked
    <2>. QED  BY <1>12, <1>b, <2>4, <2>5 DEF Dispatch
  <1>13. CASE StoreRow
    <2>1. Current \in messages /\ job.at = "rows" /\ Key(Current) \in Keys
      BY <1>13, Working DEF StoreRow, At
    <2>2. chat' \in [Keys -> Nat] /\ failures' \subseteq Keys
      <3>1. /\ chat' = chat \/ chat' = Count(chat, Key(Current))
            /\ failures' = failures \/ failures' = failures \cup {Key(Current)}
        BY <1>13 DEF StoreRow, Fails
      <3>. QED  BY <1>a, <2>1, <3>1, CountAddsOne
    <2>3. PICK n \in 1..Len(job.rows) :
              /\ job' \in Job
              /\ job'.at = job.at /\ job'.msg = job.msg /\ job'.reports = job.reports
              /\ job'.rows \in Seq(RowNames)
              /\ Len(job'.rows) = Len(job.rows) - n
              /\ \A i \in 1..Len(job.rows) - n : job'.rows[i] = job.rows[i + n]
      BY <1>13, RowsAdvance
    <2>4. TypeOK'
      BY <1>0, <1>a, <1>13, <2>1, <2>2, <2>3 DEF TypeOK, StoreRow, At
    <2>5. \A i \in 1..Len(job'.rows) : job'.rows[i] # "chat"
      <3>1. job.rows \in Seq(RowNames)
        BY <1>a DEF Job
      <3>2. job.rows = <<"chat">> \/ \A i \in 1..Len(job.rows) : job.rows[i] # "chat"
        BY DEF Locals
      <3>. QED  BY <2>3, <3>1, <3>2, RowsShorter
    <2>6. Locals'
      BY <2>1, <2>3, <2>5 DEF Locals, At, Marked
    <2>. QED  BY <1>13, <1>b, <2>4, <2>6 DEF StoreRow
  <1>14. CASE Finish
    <2>1. TypeOK'
      BY <1>0, <1>a, <1>14, IdleIsJob DEF TypeOK, Finish, Return, tables, counters
    <2>2. Locals'
      BY <1>0, <1>14, IdleIsJob DEF Finish, Return
    <2>. QED  BY <1>14, <1>b, <2>1, <2>2 DEF Finish
  <1>15. CASE Crash
    <2>1. tracker' \in [RequestIds -> Entries] /\ \A i \in RequestIds : tracker'[i] = NoEntry
      BY <1>15, EntryFields DEF Crash
    <2>2. lapses' \in [Keys -> Nat]
      BY <1>15, <1>a DEF Crash
    <2>3. TypeOK'
      BY <1>0, <1>a, <1>15, <2>1, <2>2, IdleIsJob DEF TypeOK, Crash, tables, Entries
    <2>4. Locals'
      BY <1>0, <1>15, IdleIsJob DEF Crash
    <2>5. Requested'
      BY <1>0, <2>1 DEF Requested
    <2>. QED  BY <2>3, <2>4, <2>5
  <1>16. ASSUME NEW k \in seen, Forget(k)
         PROVE  Shape'
    <2>1. lapses' \in [Keys -> Nat]
      BY <1>16, <1>a, CountAddsOne DEF Forget, TypeOK
    <2>2. TypeOK'
      BY <1>0, <1>a, <1>16, <2>1 DEF TypeOK, Forget, At, tables
    <2>3. Locals'
      BY <1>16 DEF Locals, At, Forget
    <2>. QED  BY <1>16, <1>b, <2>2, <2>3 DEF Forget
  <1>. QED  BY <1>1, <1>2, <1>3, <1>4, <1>5, <1>6, <1>7, <1>8, <1>9, <1>10, <1>11, <1>12, <1>13,
               <1>14, <1>15, <1>16 DEF Next, Handler

LEMMA ShapeAlways == Spec => []Shape
  <1>1. Init => Shape
    BY InitShape
  <1>2. Shape /\ [Next]_vars => Shape'
    BY ShapeStep
  <1>. QED  BY <1>1, <1>2, PTL DEF Spec

\* The locals of the handler, the tracker and the tables keep their types, whatever is
\* published, forgotten, redelivered or fails.
THEOREM TypeCorrect == Spec => []TypeOK
  <1>1. Shape => TypeOK
    BY DEF Shape
  <1>. QED  BY <1>1, ShapeAlways, PTL

----------------------------------------------------------------------------
(* How the handler moves                                                   *)

KeepsLists ==
    /\ job'.msg = job.msg
    /\ job'.created = job.created
    /\ job'.reports = job.reports
    /\ job'.rows = job.rows
    /\ job'.suppress = job.suppress

LEMMA Returning ==
    ASSUME job' = Idle
    PROVE  /\ job'.at = "idle" /\ job'.msg = {} /\ job'.nodes = {}
           /\ job'.created = {} /\ job'.reports = {} /\ job'.rows = <<>>
  BY DEF Idle

LEMMA Going ==
    ASSUME TypeOK, NEW point, GoTo(point)
    PROVE  job'.at = point /\ job'.nodes = job.nodes /\ KeepsLists
  BY DEF TypeOK, Job, GoTo, KeepsLists

LEMMA Receiving ==
    ASSUME TypeOK, NEW m \in unread, Receive(m)
    PROVE  /\ At("idle") /\ job.msg = {} /\ job.reports = {}
           /\ job'.at = "flush" /\ job'.msg = {m} /\ job'.nodes = {}
           /\ job'.created = {} /\ job'.rows = <<>>
           /\ UNCHANGED <<unread, seen, nodes, discovered, chat, packetLog, lifecycles, facts,
                          failures, crashes, lapses>>
  <1>1. PICK R : job' = [Idle EXCEPT !.at = "flush", !.msg = {m}, !.reports = R]
    BY SweepEnds
  <1>2. job = Idle
    BY DEF TypeOK, Receive
  <1>. QED  BY <1>1, <1>2 DEF Idle, Receive, At, tables, counters

LEMMA Reporting ==
    ASSUME TypeOK, Report
    PROVE  /\ job.at \in {"flush", "lifecycle"}
           /\ job'.at = job.at /\ job'.nodes = job.nodes /\ job'.msg = job.msg
           /\ job'.created = job.created /\ job'.rows = job.rows /\ job'.suppress = job.suppress
           /\ \E k \in job.reports :
                 /\ k \in Keys
                 /\ job'.reports = job.reports \ {k}
                 /\ \/ lifecycles' = Count(lifecycles, k) /\ UNCHANGED failures
                    \/ k \in failures' /\ UNCHANGED lifecycles
  BY DEF TypeOK, Job, Report, Fails

LEMMA Upserting ==
    ASSUME TypeOK, UpsertMinimal
    PROVE  /\ At("minimal") /\ job.msg = {Current} /\ Current \in messages /\ Current \in Message
           /\ \/ Key(Current) \in failures' /\ job' = Idle /\ unread' = unread \ job.msg
                 /\ UNCHANGED nodes
              \/ /\ UNCHANGED <<unread, failures>>
                 /\ \E n \in job.nodes :
                       /\ n \in Known
                       /\ Upsert(n)
                       /\ job'.nodes = job.nodes \ {n}
                       /\ job'.created = job.created \cup ({n} \ DOMAIN nodes)
                       /\ job'.at = job.at /\ job'.msg = job.msg /\ job'.reports = job.reports
                       /\ job'.rows = job.rows /\ job'.suppress = job.suppress
  <1>1. At("minimal") /\ job \in Job
    BY DEF UpsertMinimal, TypeOK
  <1>2. job.msg = {Current} /\ Current \in messages /\ Current \in Message
    BY <1>1, Working DEF At
  <1>3. PICK n \in job.nodes :
             \/ /\ Upsert(n)
                /\ job' = [job EXCEPT !.nodes = @ \ {n},
                             !.created = IF n \in DOMAIN nodes THEN @ ELSE @ \cup {n}]
                /\ UNCHANGED <<unread, failures>>
             \/ Fails(Key(Current)) /\ Return /\ UNCHANGED nodes
    BY DEF UpsertMinimal
  <1>4. n \in Known
    BY <1>1 DEF Job
  <1>. QED  BY <1>1, <1>2, <1>3, <1>4 DEF Job, Fails, Return

LEMMA UpsertingAgain ==
    ASSUME TypeOK, UpsertAuthoritative
    PROVE  /\ At("authoritative") /\ job.msg = {Current} /\ Current \in messages /\ Current \in Message
           /\ \/ Key(Current) \in failures' /\ job' = Idle /\ unread' = unread \ job.msg
                 /\ UNCHANGED nodes
              \/ /\ UNCHANGED <<unread, failures>>
                 /\ \E n \in job.nodes :
                       /\ n \in Known
                       /\ Upsert(n)
                       /\ job'.nodes = job.nodes \ {n}
                       /\ job'.at = IF NewSender(n) THEN "discover" ELSE "authoritative"
                       /\ KeepsLists
  <1>1. At("authoritative") /\ job \in Job
    BY DEF UpsertAuthoritative, TypeOK
  <1>2. job.msg = {Current} /\ Current \in messages /\ Current \in Message
    BY <1>1, Working DEF At
  <1>3. PICK n \in job.nodes :
             \/ /\ Upsert(n)
                /\ job' = [job EXCEPT !.nodes = @ \ {n},
                             !.at = IF NewSender(n) THEN "discover" ELSE @]
                /\ UNCHANGED <<unread, failures>>
             \/ Fails(Key(Current)) /\ Return /\ UNCHANGED nodes
    BY DEF UpsertAuthoritative
  <1>4. n \in Known
    BY <1>1 DEF Job
  <1>. QED  BY <1>1, <1>2, <1>3, <1>4 DEF Job, Fails, Return, KeepsLists, At

LEMMA Applying ==
    ASSUME TypeOK, ApplyPolicy
    PROVE  /\ At("policy") /\ job.msg = {Current} /\ Current \in messages /\ Current \in Message
           /\ \/ /\ Allowed(Current) /\ Current.from # NoNode
                 /\ job'.at = "authoritative" /\ job'.nodes = Evidence(Current)
                 /\ KeepsLists
                 /\ UNCHANGED unread
              \/ /\ ~(Allowed(Current) /\ Current.from # NoNode)
                 /\ job' = Idle /\ unread' = unread \ job.msg
  <1>1. At("policy") /\ job \in Job
    BY DEF ApplyPolicy, TypeOK
  <1>2. job.msg = {Current} /\ Current \in messages /\ Current \in Message
    BY <1>1, Working DEF At
  <1>. QED  BY <1>1, <1>2 DEF ApplyPolicy, Job, Return, KeepsLists

LEMMA Dispatching ==
    ASSUME TypeOK, Dispatch
    PROVE  /\ At("authoritative") /\ job.msg = {Current} /\ Current \in messages /\ Current \in Message
           /\ job'.at = "rows" /\ job'.rows = Rows(Current) /\ job'.nodes = job.nodes
           /\ job.nodes = {}
           /\ job'.msg = job.msg /\ job'.created = job.created /\ job'.reports = job.reports
  <1>1. At("authoritative") /\ job \in Job
    BY DEF Dispatch, TypeOK
  <1>2. job.msg = {Current} /\ Current \in messages /\ Current \in Message
    BY <1>1, Working DEF At
  <1>. QED  BY <1>1, <1>2 DEF Dispatch, Job

LEMMA Persisting ==
    ASSUME TypeOK, PersistEdges
    PROVE  /\ At("lifecycle") /\ job.msg = {Current} /\ job.reports = {}
           /\ \/ job'.at = "policy" /\ job'.nodes = job.nodes /\ KeepsLists
                 /\ UNCHANGED <<unread, failures>>
              \/ Key(Current) \in failures' /\ job' = Idle /\ unread' = unread \ job.msg
  <1>1. At("lifecycle") /\ job.reports = {}
    BY DEF PersistEdges
  <1>2. job.msg = {Current}
    BY <1>1, Working DEF At
  <1>. QED  BY <1>1, <1>2, Going DEF PersistEdges, Fails, Return

----------------------------------------------------------------------------
(* Stored once                                                             *)

LEMMA Typed ==
    ASSUME TypeOK
    PROVE  /\ chat \in [Keys -> Nat] /\ packetLog \in [Keys -> Nat]
           /\ lifecycles \in [Keys -> Nat] /\ lapses \in [Keys -> Nat]
           /\ job \in Job /\ seen \subseteq Keys /\ unread \subseteq messages
           /\ failures \subseteq Keys /\ crashes \in Nat
           /\ job.reports \subseteq Keys /\ job.rows \in Seq(RowNames)
  BY DEF TypeOK, Job

LEMMA SameKeys ==
    ASSUME [Next]_vars
    PROVE  /\ traffic' = traffic /\ messages' = messages /\ Keys' = Keys
           /\ RequestIds' = RequestIds /\ Welcome' = Welcome /\ LogWelcome' = LogWelcome
  <1>1. traffic' = traffic
    BY DEF Next, Handler, Crash, Forget, vars
  <1>. QED  BY <1>1, Fixed

\* What the filter let through may only grow, and grows when it lets a message in.
LEMMA PassedGrows ==
    ASSUME Shape, [Next]_vars, NEW k \in Keys
    PROVE  /\ Passed(k) \in Nat /\ Passed(k)' \in Nat
           /\ Passed(k)' >= Passed(k)
  <1>1. lapses \in [Keys -> Nat] /\ lapses' \in [Keys -> Nat]
    BY SameKeys, ShapeStep, Typed DEF Shape, TypeOK
  <1>2. CASE UNCHANGED <<seen, lapses>>
    BY <1>1, <1>2 DEF Passed, One
  <1>3. CASE Admit
    BY <1>1, <1>3 DEF Admit, Passed, One, counters
  <1>4. CASE Crash
    BY <1>1, <1>4 DEF Crash, Passed, One
  <1>5. ASSUME NEW j \in seen, Forget(j)
        PROVE  Passed(k)' >= Passed(k)
    <2>1. seen' = seen \ {j} /\ lapses' = Count(lapses, j) /\ j \in Keys
      BY <1>5, Typed DEF Forget, Shape
    <2>2. lapses'[k] = IF k = j THEN lapses[k] + 1 ELSE lapses[k]
      BY <1>1, <2>1, CountAddsOne
    <2>. QED  BY <1>1, <1>5, <2>1, <2>2 DEF Passed, One
  <1>6. ASSUME NEW m \in unread, Receive(m)
        PROVE  UNCHANGED <<seen, lapses>>
    BY <1>6 DEF Receive, counters
  <1>7. Report \/ Drop \/ UpsertMinimal \/ LogPacket \/ PersistEdges \/ ApplyPolicy
        \/ UpsertAuthoritative \/ Discover \/ Dispatch \/ StoreRow \/ Finish \/ UNCHANGED vars
           => UNCHANGED <<seen, lapses>>
    BY DEF Report, Drop, UpsertMinimal, LogPacket, PersistEdges, ApplyPolicy, UpsertAuthoritative,
           Discover, Dispatch, StoreRow, Finish, counters, vars, volatile
  <1>8. Passed(k) \in Nat /\ Passed(k)' \in Nat
    BY <1>1 DEF Passed, One
  <1>. QED  BY <1>2, <1>3, <1>4, <1>5, <1>6, <1>7, <1>8 DEF Next, Handler

LEMMA PassedAdmits ==
    ASSUME Shape, Admit, NEW k \in Keys, k[2] # 0
    PROVE  Passed(k)' = IF Key(Current) = k THEN Passed(k) + 1 ELSE Passed(k)
  <1>1. lapses \in [Keys -> Nat] /\ UNCHANGED lapses
    BY Typed DEF Shape, Admit, counters
  <1>2. /\ seen' = IF Current.id # 0 THEN seen \cup {Key(Current)} ELSE seen
        /\ ~(Current.id # 0 /\ Key(Current) \in seen)
    BY DEF Admit, Duplicate
  <1>3. Key(Current)[2] = Current.id
    BY KeyFields
  <1>. QED  BY <1>1, <1>2, <1>3 DEF Passed, One

LEMMA PaidChatStep ==
    ASSUME Shape, [Next]_vars, NEW k \in Keys, k[2] # 0, PaidChat(k)
    PROVE  PaidChat(k)'
  <1>1. /\ Passed(k) \in Nat /\ Passed(k)' \in Nat /\ Passed(k)' >= Passed(k)
        /\ chat[k] \in Nat /\ TypeOK
    BY PassedGrows, Typed DEF Shape
  <1>2. ASSUME chat' = chat, WillStoreChat(k)' => WillStoreChat(k)
        PROVE  PaidChat(k)'
    BY <1>1, <1>2 DEF PaidChat, One
  <1>3. ASSUME chat' = chat, job'.msg = {} \/ job'.at \in {"idle", "flush"}
        PROVE  PaidChat(k)'
    BY <1>2, <1>3 DEF WillStoreChat, Handling, Marked
  <1>4. ASSUME chat' = chat, job'.msg = job.msg,
               job'.at \in Marked => job.at \in Marked \ {"rows"}
        PROVE  PaidChat(k)'
    BY <1>2, <1>4 DEF WillStoreChat, Handling, At
  <1>5. ASSUME UNCHANGED vars
        PROVE  PaidChat(k)'
    BY <1>2, <1>5 DEF vars, volatile, tables, WillStoreChat, Handling, At
  <1>6. ASSUME NEW m \in unread, Receive(m)
        PROVE  PaidChat(k)'
    BY <1>1, <1>3, <1>6, Receiving
  <1>7. CASE Report
    BY <1>1, <1>4, <1>7, Reporting DEF Marked, Report
  <1>8. CASE Drop
    BY <1>3, <1>8, Returning DEF Drop, Return, tables
  <1>9. CASE Admit
    <2>1. job.msg = {Current} /\ job'.msg = job.msg /\ chat' = chat
      BY <1>1, <1>9, Working, AdmitStarts DEF Admit, Flushed, At, tables
    <2>2. ~WillStoreChat(k)
      BY <1>9 DEF WillStoreChat, Admit, Flushed, At, Marked
    <2>3. WillStoreChat(k)' => Key(Current) = k
      BY <2>1 DEF WillStoreChat, Handling
    <2>. QED  BY <1>1, <1>9, <2>1, <2>2, <2>3, PassedAdmits DEF PaidChat, One
  <1>10. CASE UpsertMinimal
    BY <1>1, <1>3, <1>4, <1>10, Upserting, Returning DEF UpsertMinimal, Marked, At
  <1>11. CASE LogPacket
    BY <1>1, <1>4, <1>11, Going DEF LogPacket, KeepsLists, Marked, At
  <1>12. CASE PersistEdges
    BY <1>1, <1>3, <1>4, <1>12, Persisting, Returning DEF PersistEdges, KeepsLists, Marked, At
  <1>13. CASE ApplyPolicy
    BY <1>1, <1>3, <1>4, <1>13, Applying, Returning DEF ApplyPolicy, KeepsLists, Marked, At, tables
  <1>14. CASE UpsertAuthoritative
    BY <1>1, <1>3, <1>4, <1>14, UpsertingAgain, Returning DEF UpsertAuthoritative, KeepsLists, Marked, At
  <1>15. CASE Discover
    BY <1>1, <1>4, <1>15, Going DEF Discover, KeepsLists, Marked, At
  <1>16. CASE Dispatch
    BY <1>1, <1>4, <1>16, Dispatching DEF Dispatch, Marked, At, tables
  <1>17. CASE StoreRow
    <2>1. PICK n \in 1..Len(job.rows) :
              /\ job'.at = job.at /\ job'.msg = job.msg
              /\ job'.rows \in Seq(RowNames)
              /\ Len(job'.rows) = Len(job.rows) - n
              /\ \A i \in 1..Len(job.rows) - n : job'.rows[i] = job.rows[i + n]
      BY <1>1, <1>17, RowsAdvance
    <2>2. job.rows \in Seq(RowNames) /\ job.rows # <<>> /\ At("rows")
      BY <1>1, <1>17, Typed DEF StoreRow
    <2>3. job.rows = <<"chat">> \/ \A i \in 1..Len(job.rows) : job.rows[i] # "chat"
      BY DEF Shape, Locals
    <2>4. ~WillStoreChat(k)'
      <3>1. \A i \in 1..Len(job'.rows) : job'.rows[i] # "chat"
        BY <2>1, <2>2, <2>3, RowsShorter
      <3>2. job'.rows # <<"chat">>
        <4>. SUFFICES ASSUME job'.rows = <<"chat">>
                      PROVE  FALSE
          OBVIOUS
        <4>1. 1 \in 1..Len(<<"chat">>) /\ <<"chat">>[1] = "chat"
          OBVIOUS
        <4>. QED  BY <3>1, <4>1
      <3>. QED  BY <2>1, <2>2, <3>2 DEF WillStoreChat, At
    <2>5. CASE chat' = chat
      BY <1>2, <2>4, <2>5
    <2>6. CASE Head(job.rows) = "chat" /\ chat' = Count(chat, Key(Current))
      <3>1. job.rows = <<"chat">>
        <4>1. Head(job.rows) = job.rows[1] /\ 1 \in 1..Len(job.rows)
          BY <2>2
        <4>. QED  BY <2>3, <2>6, <4>1
      <3>2. job.msg = {Current} /\ Key(Current) \in Keys
        BY <1>1, <2>2, Working DEF At
      <3>3. Key(Current) = k => WillStoreChat(k)
        BY <2>2, <3>1, <3>2 DEF WillStoreChat, Handling, Marked, At
      <3>4. chat \in [Keys -> Nat]
        BY <1>1, Typed
      <3>5. chat'[k] = IF k = Key(Current) THEN chat[k] + 1 ELSE chat[k]
        BY <2>6, <3>2, <3>4, CountAddsOne
      <3>. QED  BY <1>1, <2>4, <3>3, <3>5 DEF PaidChat, One
    <2>. QED  BY <1>17, <2>5, <2>6 DEF StoreRow
  <1>18. CASE Finish
    BY <1>3, <1>18, Returning DEF Finish, Return, tables
  <1>19. CASE Crash
    BY <1>3, <1>19, Returning DEF Crash, tables
  <1>20. ASSUME NEW j \in seen, Forget(j)
         PROVE  PaidChat(k)'
    BY <1>2, <1>20 DEF Forget, tables, WillStoreChat, Handling, At
  <1>. QED  BY <1>5, <1>6, <1>7, <1>8, <1>9, <1>10, <1>11, <1>12, <1>13, <1>14, <1>15, <1>16,
               <1>17, <1>18, <1>19, <1>20 DEF Next, Handler

LEMMA PaidLogStep ==
    ASSUME Shape, [Next]_vars, NEW k \in Keys, k[2] # 0, PaidLog(k)
    PROVE  PaidLog(k)'
  <1>1. /\ Passed(k) \in Nat /\ Passed(k)' \in Nat /\ Passed(k)' >= Passed(k)
        /\ packetLog \in [Keys -> Nat] /\ packetLog[k] \in Nat /\ TypeOK
    BY PassedGrows, Typed DEF Shape
  <1>2. ASSUME packetLog' = packetLog, WillLog(k)' => WillLog(k)
        PROVE  PaidLog(k)'
    BY <1>1, <1>2 DEF PaidLog, One
  <1>3. ASSUME packetLog' = packetLog, job'.at # "minimal"
        PROVE  PaidLog(k)'
    BY <1>2, <1>3 DEF WillLog, At
  <1>4. ASSUME packetLog' = packetLog, job'.msg = job.msg, job'.at = job.at
        PROVE  PaidLog(k)'
    BY <1>2, <1>4 DEF WillLog, Handling, At
  <1>5. ASSUME UNCHANGED vars
        PROVE  PaidLog(k)'
    BY <1>4, <1>5 DEF vars, volatile, tables
  <1>6. ASSUME NEW m \in unread, Receive(m)
        PROVE  PaidLog(k)'
    BY <1>1, <1>3, <1>6, Receiving
  <1>7. CASE Report
    BY <1>1, <1>4, <1>7, Reporting DEF Report
  <1>8. CASE Drop
    BY <1>3, <1>8, Returning DEF Drop, Return, tables
  <1>9. CASE Admit
    <2>1. job.msg = {Current} /\ job'.msg = job.msg /\ packetLog' = packetLog
      BY <1>1, <1>9, Working, AdmitStarts DEF Admit, Flushed, At, tables
    <2>2. ~WillLog(k)
      BY <1>9 DEF WillLog, Admit, Flushed, At
    <2>3. WillLog(k)' => Key(Current) = k
      BY <2>1 DEF WillLog, Handling
    <2>. QED  BY <1>1, <1>9, <2>1, <2>2, <2>3, PassedAdmits DEF PaidLog, One
  <1>10. CASE UpsertMinimal
    BY <1>1, <1>3, <1>4, <1>10, Upserting, Returning DEF UpsertMinimal
  <1>11. CASE LogPacket
    <2>1. job'.at = "lifecycle" /\ At("minimal")
      BY <1>1, <1>11, Going DEF LogPacket
    <2>2. CASE packetLog' = packetLog
      BY <1>3, <2>1, <2>2
    <2>3. CASE packetLog' = Count(packetLog, Key(Current))
      <3>1. job.msg = {Current} /\ Key(Current) \in Keys
        BY <1>1, <2>1, Working DEF At
      <3>2. Key(Current) = k => WillLog(k)
        BY <2>1, <3>1 DEF WillLog, Handling
      <3>3. ~WillLog(k)'
        BY <2>1 DEF WillLog, At
      <3>4. packetLog'[k] = IF k = Key(Current) THEN packetLog[k] + 1 ELSE packetLog[k]
        BY <1>1, <2>3, <3>1, CountAddsOne
      <3>. QED  BY <1>1, <3>2, <3>3, <3>4 DEF PaidLog, One
    <2>. QED  BY <1>11, <2>2, <2>3 DEF LogPacket
  <1>12. CASE PersistEdges
    BY <1>1, <1>3, <1>12, Persisting, Returning DEF PersistEdges
  <1>13. CASE ApplyPolicy
    BY <1>1, <1>3, <1>13, Applying, Returning DEF ApplyPolicy, tables
  <1>14. CASE UpsertAuthoritative
    BY <1>1, <1>3, <1>14, UpsertingAgain, Returning DEF UpsertAuthoritative
  <1>15. CASE Discover
    BY <1>1, <1>3, <1>15, Going DEF Discover
  <1>16. CASE Dispatch
    BY <1>1, <1>3, <1>16, Dispatching DEF Dispatch, tables
  <1>17. CASE StoreRow
    <2>1. job'.at = job.at /\ job'.msg = job.msg
      BY <1>1, <1>17, RowsAdvance
    <2>. QED  BY <1>4, <1>17, <2>1 DEF StoreRow
  <1>18. CASE Finish
    BY <1>3, <1>18, Returning DEF Finish, Return, tables
  <1>19. CASE Crash
    BY <1>3, <1>19, Returning DEF Crash, tables
  <1>20. ASSUME NEW j \in seen, Forget(j)
         PROVE  PaidLog(k)'
    BY <1>4, <1>20 DEF Forget, tables
  <1>. QED  BY <1>5, <1>6, <1>7, <1>8, <1>9, <1>10, <1>11, <1>12, <1>13, <1>14, <1>15, <1>16,
               <1>17, <1>18, <1>19, <1>20 DEF Next, Handler

\* An id has at most one entry, and its key names the id.
LEMMA OneEntry ==
    ASSUME Shape, NEW i \in RequestIds, tracker[i] # NoEntry
    PROVE  tracker[i].key[2] = i /\ i # 0
  BY Published, KeyFields DEF Shape, TypeOK, Requested

LEMMA PaidTraceStep ==
    ASSUME Shape, [Next]_vars, NEW k \in Keys, k[2] # 0, PaidTrace(k)
    PROVE  PaidTrace(k)'
  <1>1. /\ Passed(k) \in Nat /\ Passed(k)' \in Nat /\ Passed(k)' >= Passed(k)
        /\ lifecycles \in [Keys -> Nat] /\ lifecycles[k] \in Nat /\ TypeOK
        /\ RequestIds' = RequestIds
    BY PassedGrows, Typed, SameKeys DEF Shape
  <1>2. ASSUME lifecycles' = lifecycles, Waiting(k)' => Waiting(k), k \in job'.reports => k \in job.reports
        PROVE  PaidTrace(k)'
    BY <1>1, <1>2 DEF PaidTrace, One
  <1>3. ASSUME UNCHANGED tracker
        PROVE  Waiting(k)' <=> Waiting(k)
    BY <1>1, <1>3 DEF Waiting, Open
  <1>4. ASSUME UNCHANGED <<lifecycles, tracker>>, job'.reports = {} \/ job'.reports = job.reports
        PROVE  PaidTrace(k)'
    BY <1>2, <1>3, <1>4
  <1>5. ASSUME UNCHANGED vars
        PROVE  PaidTrace(k)'
    BY <1>4, <1>5 DEF vars, volatile, tables
  <1>6. ASSUME NEW m \in unread, Receive(m)
        PROVE  PaidTrace(k)'
    <2>1. job.reports = {} /\ lifecycles' = lifecycles
      BY <1>1, <1>6, Receiving
    <2>2. CASE k \in job'.reports
      <3>1. PICK i \in RequestIds : /\ Open(i) /\ tracker[i].key = k
                                    /\ tracker'[i] = [key |-> k, final |-> TRUE]
        BY <1>1, <1>6, <2>2, SweepEnds
      <3>2. Waiting(k)
        BY <3>1 DEF Waiting
      <3>3. ~Waiting(k)'
        <4>. SUFFICES ASSUME NEW j \in RequestIds, tracker'[j] # NoEntry, ~tracker'[j].final,
                             tracker'[j].key = k
                      PROVE  FALSE
          BY <1>1 DEF Waiting, Open
        <4>1. tracker[j] # NoEntry /\ tracker[j].key = k
          <5>1. tracker'[j] # [key |-> tracker[j].key, final |-> TRUE]
            OBVIOUS
          <5>. QED  BY <1>1, <1>6, <5>1, SweepEnds
        <4>2. i = k[2] /\ j = k[2]
          BY <3>1, <4>1, OneEntry DEF Open
        <4>. QED  BY <3>1, <4>2
      <3>. QED  BY <1>1, <2>1, <2>2, <3>2, <3>3 DEF PaidTrace, One
    <2>3. CASE k \notin job'.reports
      <3>1. Waiting(k)' => Waiting(k)
        <4>. SUFFICES ASSUME NEW j \in RequestIds, tracker'[j] # NoEntry, ~tracker'[j].final,
                             tracker'[j].key = k
                      PROVE  tracker'[j] = tracker[j]
          BY <1>1 DEF Waiting, Open
        <4>1. tracker'[j] # [key |-> tracker[j].key, final |-> TRUE]
          OBVIOUS
        <4>. QED  BY <1>1, <1>6, <4>1, SweepEnds
      <3>. QED  BY <1>2, <2>1, <2>3, <3>1
    <2>. QED  BY <2>2, <2>3
  <1>7. CASE Report
    <2>1. PICK r \in job.reports :
             /\ r \in Keys
             /\ job'.reports = job.reports \ {r}
             /\ lifecycles' = Count(lifecycles, r) \/ lifecycles' = lifecycles
      BY <1>1, <1>7, Reporting
    <2>2. lifecycles'[k] = lifecycles[k] \/ (k = r /\ lifecycles'[k] = lifecycles[k] + 1)
      BY <1>1, <2>1, CountAddsOne
    <2>3. Waiting(k)' <=> Waiting(k)
      BY <1>3, <1>7 DEF Report
    <2>. QED  BY <1>1, <2>1, <2>2, <2>3 DEF PaidTrace, One
  <1>8. CASE Drop
    BY <1>4, <1>8, Returning DEF Drop, Return, tables
  <1>9. CASE Admit
    <2>. DEFINE i == Current.request
    <2>1. /\ Current \in messages /\ i \in RequestIds /\ lifecycles' = lifecycles
          /\ job.reports = {} /\ tracker \in [RequestIds -> Entries]
      BY <1>1, <1>9, Working, TrackerIsTable DEF Admit, Flushed, At, tables
    <2>2. CASE ~LogAllowed(Current)
      BY <1>1, <1>4, <1>9, <2>1, <2>2, AdmitStarts
    <2>3. CASE /\ LogAllowed(Current)
               /\ Current.kind = "request"
               /\ tracker' = [tracker EXCEPT ![i] = [key |-> Key(Current), final |-> FALSE]]
               /\ job'.reports = {}
      <3>1. \A j \in RequestIds : j # i => tracker'[j] = tracker[j]
        BY <2>1, <2>3
      <3>2. tracker'[i].key = Key(Current)
        BY <2>1, <2>3
      <3>3. Waiting(k)' => Waiting(k) \/ Key(Current) = k
        BY <1>1, <3>1, <3>2 DEF Waiting, Open
      <3>4. Key(Current) = k => ~Waiting(k)' \/ lifecycles[k] + 1 <= Passed(k)'
        BY <1>1, <1>9, PassedAdmits DEF PaidTrace, One
      <3>5. k \notin job'.reports
        BY <2>3
      <3>. QED  BY <1>1, <2>1, <3>3, <3>4, <3>5 DEF PaidTrace, One
    <2>4. CASE /\ Open(i)
               /\ tracker' = [tracker EXCEPT ![i] = [key |-> tracker[i].key, final |-> TRUE]]
               /\ job'.reports = {tracker[i].key}
      <3>1. \A j \in RequestIds : j # i => tracker'[j] = tracker[j]
        BY <2>1, <2>4
      <3>2. tracker'[i] = [key |-> tracker[i].key, final |-> TRUE]
        BY <2>1, <2>4
      <3>3. Waiting(k)' => Waiting(k) /\ k # tracker[i].key
        <4>. SUFFICES ASSUME NEW j \in RequestIds, tracker'[j] # NoEntry, ~tracker'[j].final,
                             tracker'[j].key = k
                      PROVE  Waiting(k) /\ k # tracker[i].key
          BY <1>1 DEF Waiting, Open
        <4>1. j # i
          BY <3>2
        <4>2. tracker[j] # NoEntry /\ Open(j) /\ tracker[j].key = k
          BY <3>1, <4>1 DEF Open
        <4>3. k[2] = j /\ tracker[i].key[2] = i
          BY <2>1, <2>4, <4>2, OneEntry DEF Open
        <4>. QED  BY <4>1, <4>2, <4>3 DEF Waiting
      <3>4. k \in job'.reports => k = tracker[i].key /\ Waiting(k)
        BY <2>1, <2>4 DEF Waiting
      <3>. QED  BY <1>1, <2>1, <3>3, <3>4 DEF PaidTrace, One
    <2>5. CASE UNCHANGED tracker /\ job'.reports = {}
      BY <1>4, <2>1, <2>5
    <2>. QED  BY <1>1, <1>9, <2>1, <2>2, <2>3, <2>4, <2>5, AdmitStarts, TrackerTakes
  <1>10. CASE UpsertMinimal
    BY <1>1, <1>4, <1>10, Upserting, Returning DEF UpsertMinimal
  <1>11. CASE LogPacket
    BY <1>1, <1>4, <1>11, Going DEF LogPacket, KeepsLists
  <1>12. CASE PersistEdges
    BY <1>1, <1>4, <1>12, Persisting, Returning DEF PersistEdges, KeepsLists
  <1>13. CASE ApplyPolicy
    BY <1>1, <1>4, <1>13, Applying, Returning DEF ApplyPolicy, KeepsLists, tables
  <1>14. CASE UpsertAuthoritative
    BY <1>1, <1>4, <1>14, UpsertingAgain, Returning DEF UpsertAuthoritative, KeepsLists
  <1>15. CASE Discover
    BY <1>1, <1>4, <1>15, Going DEF Discover, KeepsLists
  <1>16. CASE Dispatch
    BY <1>1, <1>4, <1>16, Dispatching DEF Dispatch, tables
  <1>17. CASE StoreRow
    <2>1. job'.reports = job.reports
      BY <1>1, <1>17, RowsAdvance
    <2>. QED  BY <1>4, <1>17, <2>1 DEF StoreRow
  <1>18. CASE Finish
    BY <1>4, <1>18, Returning DEF Finish, Return, tables
  <1>19. CASE Crash
    <2>1. ~Waiting(k)'
      BY <1>1, <1>19 DEF Crash, Waiting, Open
    <2>. QED  BY <1>2, <1>19, <2>1, Returning DEF Crash, tables
  <1>20. ASSUME NEW j \in seen, Forget(j)
         PROVE  PaidTrace(k)'
    BY <1>4, <1>20 DEF Forget, tables
  <1>. QED  BY <1>5, <1>6, <1>7, <1>8, <1>9, <1>10, <1>11, <1>12, <1>13, <1>14, <1>15, <1>16,
               <1>17, <1>18, <1>19, <1>20 DEF Next, Handler


LEMMA InitPaid ==
    ASSUME Init
    PROVE  Paid
  <1>. SUFFICES ASSUME NEW k \in Keys
                PROVE  PaidChat(k) /\ PaidLog(k) /\ PaidTrace(k)
    BY DEF Paid
  <1>1. Passed(k) = 0
    BY DEF Init, Passed, One
  <1>2. ~WillStoreChat(k) /\ ~WillLog(k) /\ k \notin job.reports
    BY DEF Init, Idle, WillStoreChat, WillLog, Handling
  <1>3. ~Waiting(k)
    BY DEF Init, Waiting, Open
  <1>. QED  BY <1>1, <1>2, <1>3 DEF Init, PaidChat, PaidLog, PaidTrace, One

\* Whatever is delivered, in whatever order, and wherever the process stops: a packet has
\* at most one row of each kind, and one more for every time the filter lost its key.
THEOREM StoredOnce == Spec => []StoredOncePerLapse
  <1>1. Init => Paid
    BY InitPaid
  <1>2. Shape /\ Paid /\ [Next]_vars => Paid'
    <2>. SUFFICES ASSUME Shape, Paid, [Next]_vars, NEW k \in Keys, k[2] # 0
                  PROVE  PaidChat(k)' /\ PaidLog(k)' /\ PaidTrace(k)'
      BY SameKeys DEF Paid
    <2>. QED  BY PaidChatStep, PaidLogStep, PaidTraceStep DEF Paid
  <1>3. Shape /\ Paid => StoredOncePerLapse
    <2>. SUFFICES ASSUME Shape, Paid, NEW k \in Keys, k[2] # 0
                  PROVE  \A table \in {chat, packetLog, lifecycles} : table[k] <= 1 + lapses[k]
      BY DEF StoredOncePerLapse
    <2>1. /\ chat[k] \in Nat /\ packetLog[k] \in Nat /\ lifecycles[k] \in Nat /\ lapses[k] \in Nat
      BY Typed DEF Shape
    <2>2. Passed(k) <= 1 + lapses[k] /\ Passed(k) \in Nat
      BY <2>1 DEF Passed, One
    <2>3. chat[k] <= Passed(k) /\ packetLog[k] <= Passed(k) /\ lifecycles[k] <= Passed(k)
      BY <2>1, <2>2 DEF Paid, PaidChat, PaidLog, PaidTrace, One
    <2>. QED  BY <2>1, <2>2, <2>3
  <1>. QED  BY <1>1, <1>2, <1>3, ShapeAlways, PTL DEF Spec

----------------------------------------------------------------------------
(* Known nodes                                                             *)

LEMMA NodesGrow ==
    ASSUME Shape, [Next]_vars
    PROVE  DOMAIN nodes \subseteq DOMAIN nodes'
  <1>1. TypeOK
    BY DEF Shape
  <1>2. CASE UpsertMinimal
    BY <1>1, <1>2, Upserting, UpsertAddsRow
  <1>3. CASE UpsertAuthoritative
    BY <1>1, <1>3, UpsertingAgain, UpsertAddsRow
  <1>4. ASSUME NEW m \in unread, Receive(m)
        PROVE  UNCHANGED nodes
    BY <1>4 DEF Receive, tables
  <1>5. ASSUME NEW k \in seen, Forget(k)
        PROVE  UNCHANGED nodes
    BY <1>5 DEF Forget, tables
  <1>6. Report \/ Drop \/ Admit \/ LogPacket \/ PersistEdges \/ ApplyPolicy \/ Discover
        \/ Dispatch \/ StoreRow \/ Finish \/ Crash \/ UNCHANGED vars => UNCHANGED nodes
    BY DEF Report, Drop, Admit, LogPacket, PersistEdges, ApplyPolicy, Discover, Dispatch,
           StoreRow, Finish, Crash, tables, vars
  <1>. QED  BY <1>2, <1>3, <1>4, <1>5, <1>6 DEF Next, Handler

LEMMA FailuresGrow ==
    ASSUME [Next]_vars
    PROVE  failures \subseteq failures'
  <1>1. ASSUME NEW m \in unread, Receive(m)
        PROVE  UNCHANGED failures
    BY <1>1 DEF Receive, counters
  <1>2. ASSUME NEW k \in seen, Forget(k)
        PROVE  UNCHANGED failures
    BY <1>2 DEF Forget
  <1>3. Drop \/ Admit \/ ApplyPolicy \/ Dispatch \/ Finish \/ Crash \/ UNCHANGED vars
          => UNCHANGED failures
    BY DEF Drop, Admit, ApplyPolicy, Dispatch, Finish, Crash, counters, vars
  <1>4. Report \/ UpsertMinimal \/ LogPacket \/ PersistEdges \/ UpsertAuthoritative
        \/ Discover \/ StoreRow => failures \subseteq failures'
    BY DEF Report, UpsertMinimal, LogPacket, PersistEdges, UpsertAuthoritative, Discover, StoreRow,
           Fails
  <1>. QED  BY <1>1, <1>2, <1>3, <1>4 DEF Next, Handler

LEMMA GroundedJobStep ==
    ASSUME Shape, [Next]_vars, GroundedJob
    PROVE  GroundedJob'
  <1>0. TypeOK /\ DOMAIN nodes \subseteq DOMAIN nodes'
    BY NodesGrow DEF Shape
  <1>1. ASSUME job'.msg = {}
        PROVE  GroundedJob'
    BY <1>1 DEF GroundedJob
  <1>2. ASSUME job'.at \in {"flush", "policy"}
        PROVE  GroundedJob'
    BY <1>2 DEF GroundedJob, At
  <1>3. ASSUME job'.at = job.at, job'.msg = job.msg, job'.nodes = job.nodes
        PROVE  GroundedJob'
    BY <1>0, <1>3 DEF GroundedJob, Awaited, At
  <1>4. ASSUME UNCHANGED vars
        PROVE  GroundedJob'
    BY <1>3, <1>4 DEF vars, volatile
  <1>5. ASSUME NEW m \in unread, Receive(m)
        PROVE  GroundedJob'
    BY <1>0, <1>2, <1>5, Receiving
  <1>6. CASE Report
    BY <1>0, <1>3, <1>6, Reporting
  <1>7. CASE Drop
    BY <1>1, <1>7, Returning DEF Drop, Return
  <1>8. CASE Admit
    <2>1. job'.msg = {Current}
      BY <1>0, <1>8, Working, AdmitStarts DEF Admit, Flushed, At
    <2>2. CASE ~LogAllowed(Current)
      BY <1>0, <1>2, <1>8, <2>2, AdmitStarts
    <2>3. CASE LogAllowed(Current)
      BY <1>0, <1>8, <2>1, <2>3, AdmitStarts DEF GroundedJob, Awaited, At
    <2>. QED  BY <2>2, <2>3
  <1>9. CASE UpsertMinimal
    <2>1. CASE job' = Idle
      BY <1>1, <2>1, Returning
    <2>2. CASE /\ At("minimal")
               /\ \E n \in job.nodes :
                     /\ n \in Known
                     /\ Upsert(n)
                     /\ job'.nodes = job.nodes \ {n}
                     /\ job'.at = job.at /\ job'.msg = job.msg
      <3>1. PICK n \in job.nodes : /\ n \in Known
                                   /\ Upsert(n)
                                   /\ job'.nodes = job.nodes \ {n}
                                   /\ job'.at = job.at /\ job'.msg = job.msg
        BY <2>2
      <3>2. DOMAIN nodes' = DOMAIN nodes \cup {n}
        BY <1>0, <1>9, <3>1, Upserting, UpsertAddsRow
      <3>. QED  BY <2>2, <3>1, <3>2 DEF GroundedJob, Awaited, At
    <2>. QED  BY <1>0, <1>9, <2>1, <2>2, Upserting
  <1>10. CASE LogPacket
    BY <1>0, <1>10, Going DEF LogPacket, KeepsLists, GroundedJob, Awaited, At
  <1>11. CASE PersistEdges
    BY <1>0, <1>1, <1>2, <1>11, Persisting, Returning
  <1>12. CASE ApplyPolicy
    <2>1. CASE job' = Idle
      BY <1>1, <2>1, Returning
    <2>2. CASE job' # Idle
      <3>1. /\ job.msg = {Current} /\ Current \in Message /\ Current.from # NoNode
            /\ job'.at = "authoritative" /\ job'.nodes = Evidence(Current) /\ job'.msg = {Current}
        BY <1>0, <1>12, <2>2, Applying DEF KeepsLists
      <3>2. Current.from \in Evidence(Current)
        BY <3>1, EvidenceIsKnown
      <3>. QED  BY <3>1, <3>2 DEF GroundedJob, Awaited, At
    <2>. QED  BY <2>1, <2>2
  <1>13. CASE UpsertAuthoritative
    <2>1. CASE job' = Idle
      BY <1>1, <2>1, Returning
    <2>2. CASE job' # Idle
      <3>1. PICK n \in job.nodes :
               /\ n \in Known
               /\ Upsert(n)
               /\ job'.nodes = job.nodes \ {n}
               /\ job'.at \in {"authoritative", "discover"} /\ job'.msg = job.msg
        BY <1>0, <1>13, <2>2, UpsertingAgain DEF KeepsLists
      <3>2. DOMAIN nodes' = DOMAIN nodes \cup {n} /\ At("authoritative")
        BY <1>0, <1>13, <3>1, UpsertingAgain, UpsertAddsRow
      <3>. QED  BY <3>1, <3>2 DEF GroundedJob, At
    <2>. QED  BY <2>1, <2>2
  <1>14. CASE Discover
    BY <1>0, <1>14, Going DEF Discover, KeepsLists, GroundedJob, At
  <1>15. CASE Dispatch
    BY <1>0, <1>15, Dispatching DEF GroundedJob, At
  <1>16. CASE StoreRow
    BY <1>0, <1>3, <1>16, RowsAdvance
  <1>17. CASE Finish
    BY <1>1, <1>17, Returning DEF Finish, Return
  <1>18. CASE Crash
    BY <1>1, <1>18, Returning DEF Crash
  <1>19. ASSUME NEW j \in seen, Forget(j)
         PROVE  GroundedJob'
    BY <1>3, <1>19 DEF Forget
  <1>. QED  BY <1>4, <1>5, <1>6, <1>7, <1>8, <1>9, <1>10, <1>11, <1>12, <1>13, <1>14, <1>15, <1>16,
               <1>17, <1>18, <1>19 DEF Next, Handler

LEMMA GroundedLogStep ==
    ASSUME Shape, [Next]_vars, GroundedJob, GroundedLog
    PROVE  GroundedLog'
  <1>0. /\ TypeOK /\ DOMAIN nodes \subseteq DOMAIN nodes' /\ Keys' = Keys
        /\ packetLog \in [Keys -> Nat]
    BY NodesGrow, SameKeys, Typed DEF Shape
  <1>1. CASE UNCHANGED packetLog
    BY <1>0, <1>1 DEF GroundedLog
  <1>2. CASE LogPacket /\ packetLog' = Count(packetLog, Key(Current))
    <2>1. /\ job.msg = {Current} /\ Current \in Message /\ Key(Current) \in Keys
          /\ At("minimal") /\ job.nodes = {}
      BY <1>0, <1>2, Working DEF LogPacket, At
    <2>2. MinimalEvidence(Current) \subseteq DOMAIN nodes
      BY <2>1 DEF GroundedJob, Awaited, At
    <2>3. Current.from # NoNode => Current.from \in DOMAIN nodes
      BY <2>1, <2>2, EvidenceIsKnown
    <2>4. \A k \in Keys : packetLog'[k] > 0 => packetLog[k] > 0 \/ k = Key(Current)
      BY <1>0, <1>2, <2>1, CountAddsOne
    <2>5. Key(Current)[1] = Current.from
      BY KeyFields
    <2>. QED  BY <1>0, <2>3, <2>4, <2>5 DEF GroundedLog
  <1>3. UNCHANGED packetLog \/ (LogPacket /\ packetLog' = Count(packetLog, Key(Current)))
    <2>1. ASSUME NEW m \in unread, Receive(m)
          PROVE  UNCHANGED packetLog
      BY <2>1 DEF Receive, tables
    <2>2. ASSUME NEW k \in seen, Forget(k)
          PROVE  UNCHANGED packetLog
      BY <2>2 DEF Forget, tables
    <2>3. Report \/ Drop \/ Admit \/ UpsertMinimal \/ PersistEdges \/ ApplyPolicy
          \/ UpsertAuthoritative \/ Discover \/ Dispatch \/ StoreRow \/ Finish \/ Crash
          \/ UNCHANGED vars => UNCHANGED packetLog
      BY DEF Report, Drop, Admit, UpsertMinimal, PersistEdges, ApplyPolicy, UpsertAuthoritative,
             Discover, Dispatch, StoreRow, Finish, Crash, tables, vars
    <2>4. LogPacket => UNCHANGED packetLog \/ packetLog' = Count(packetLog, Key(Current))
      BY DEF LogPacket
    <2>. QED  BY <2>1, <2>2, <2>3, <2>4 DEF Next, Handler
  <1>. QED  BY <1>1, <1>2, <1>3

\* What keeps a request vouched for: the minimal pass is not running, or goes on, or ends
\* with a call that failed for its own packet.
VouchersStay ==
    \/ ~At("minimal")
    \/ job'.msg = job.msg /\ Awaited \subseteq DOMAIN nodes' \cup Awaited'
    \/ job.msg = {Current} /\ Key(Current) \in failures'

LEMMA VouchedStays ==
    ASSUME Shape, [Next]_vars, VouchersStay, NEW k, Vouched(k)
    PROVE  Vouched(k)'
  <1>0. DOMAIN nodes \subseteq DOMAIN nodes' /\ failures \subseteq failures'
    BY NodesGrow, FailuresGrow
  <1>1. CASE k[1] \in DOMAIN nodes \/ k \in failures
    BY <1>0, <1>1 DEF Vouched
  <1>2. ASSUME NEW m \in job.msg, Key(m) = k, m.from \in Awaited
        PROVE  Vouched(k)'
    <2>1. k[1] = m.from
      BY <1>2, KeyFields
    <2>2. At("minimal")
      BY <1>2 DEF Awaited
    <2>3. CASE job'.msg = job.msg /\ Awaited \subseteq DOMAIN nodes' \cup Awaited'
      <3>1. CASE m.from \in DOMAIN nodes'
        BY <2>1, <3>1 DEF Vouched
      <3>2. CASE m.from \in Awaited' /\ m \in job'.msg
        BY <1>2, <3>2 DEF Vouched, Expected
      <3>. QED  BY <1>2, <2>3, <3>1, <3>2
    <2>4. CASE job.msg = {Current} /\ Key(Current) \in failures'
      BY <1>2, <2>4 DEF Vouched
    <2>. QED  BY <2>2, <2>3, <2>4 DEF VouchersStay
  <1>. QED  BY <1>1, <1>2 DEF Vouched, Expected

\* Unless the minimal pass is running nothing is vouched for by what is still to come.
LEMMA VouchedByNow ==
    ASSUME NEW k, Vouched(k), ~At("minimal")
    PROVE  k[1] \in DOMAIN nodes \/ k \in failures
  BY DEF Vouched, Expected, Awaited

LEMMA GroundedTraceStep ==
    ASSUME Shape, [Next]_vars, GroundedTrace
    PROVE  GroundedTrace'
  <1>0. /\ TypeOK /\ DOMAIN nodes \subseteq DOMAIN nodes' /\ failures \subseteq failures'
        /\ Keys' = Keys /\ RequestIds' = RequestIds
        /\ lifecycles \in [Keys -> Nat] /\ job.reports \subseteq Keys
    BY NodesGrow, SameKeys, Typed, FailuresGrow DEF Shape
  <1>1. /\ \A k \in Keys : lifecycles[k] > 0 => k[1] \in DOMAIN nodes \/ k \in failures
        /\ \A k \in job.reports : Vouched(k)
        /\ \A k \in Keys : Entered(k) => Vouched(k)
    BY DEF GroundedTrace
  <1>a. ASSUME UNCHANGED lifecycles
        PROVE  \A k \in Keys : lifecycles'[k] > 0 => k[1] \in DOMAIN nodes' \/ k \in failures'
    BY <1>0, <1>1, <1>a
  <1>2. ASSUME UNCHANGED <<lifecycles, tracker>>, job'.reports \subseteq job.reports, VouchersStay
        PROVE  GroundedTrace'
    <2>1. \A k \in job'.reports : Vouched(k)'
      BY <1>1, <1>2, VouchedStays
    <2>2. \A k \in Keys : Entered(k)' => Vouched(k)'
      <3>1. \A k : Entered(k)' => Entered(k)
        BY <1>0, <1>2 DEF Entered
      <3>. QED  BY <1>1, <1>2, <3>1, VouchedStays
    <2>. QED  BY <1>0, <1>2, <1>a, <2>1, <2>2 DEF GroundedTrace
  <1>3. ASSUME UNCHANGED <<lifecycles, tracker>>, job'.reports \subseteq job.reports, ~At("minimal")
        PROVE  GroundedTrace'
    BY <1>2, <1>3 DEF VouchersStay
  <1>4. ASSUME UNCHANGED vars
        PROVE  GroundedTrace'
    BY <1>2, <1>4 DEF vars, volatile, tables, Awaited, At, VouchersStay
  <1>5. ASSUME NEW m \in unread, Receive(m)
        PROVE  GroundedTrace'
    <2>1. ~At("minimal") /\ lifecycles' = lifecycles
      BY <1>0, <1>5, Receiving DEF At
    <2>2. VouchersStay
      BY <2>1 DEF VouchersStay
    <2>3. \A i \in RequestIds :
             tracker'[i] # NoEntry => tracker[i] # NoEntry /\ tracker'[i].key = tracker[i].key
      <3>. SUFFICES ASSUME NEW i \in RequestIds, tracker'[i] # NoEntry
                    PROVE  tracker[i] # NoEntry /\ tracker'[i].key = tracker[i].key
        OBVIOUS
      <3>1. CASE Open(i) /\ tracker'[i] = [key |-> tracker[i].key, final |-> TRUE]
        BY <3>1 DEF Open
      <3>2. CASE tracker'[i] = tracker[i]
        BY <3>2
      <3>. QED  BY <1>0, <1>5, <3>1, <3>2, SweepEnds
    <2>4. \A k \in job'.reports : k \in Keys /\ Entered(k)
      <3>1. \A k \in job'.reports : \E i \in RequestIds : tracker[i] # NoEntry /\ tracker[i].key = k
        BY <1>0, <1>5, SweepEnds DEF Open
      <3>2. \A i \in RequestIds : tracker[i] # NoEntry => tracker[i].key \in Keys
        BY <1>0, TrackerIsTable
      <3>. QED  BY <3>1, <3>2 DEF Entered
    <2>5. \A k \in job'.reports : Vouched(k)'
      BY <1>1, <2>2, <2>4, VouchedStays
    <2>6. \A k : Entered(k)' => Entered(k)
      BY <1>0, <2>3 DEF Entered
    <2>7. \A k \in Keys : Entered(k)' => Vouched(k)'
      BY <1>1, <2>2, <2>6, VouchedStays
    <2>. QED  BY <1>0, <1>a, <2>1, <2>5, <2>7 DEF GroundedTrace
  <1>6. CASE Report
    <2>1. ~At("minimal") /\ UNCHANGED tracker
      BY <1>0, <1>6, Reporting DEF At, Report
    <2>2. PICK k \in job.reports :
             /\ k \in Keys
             /\ job'.reports = job.reports \ {k}
             /\ lifecycles' = Count(lifecycles, k) \/ UNCHANGED lifecycles
      BY <1>0, <1>6, Reporting
    <2>3. CASE UNCHANGED lifecycles
      BY <1>3, <2>1, <2>2, <2>3
    <2>4. CASE lifecycles' = Count(lifecycles, k)
      <3>1. k[1] \in DOMAIN nodes \/ k \in failures
        BY <1>1, <2>1, <2>2, VouchedByNow
      <3>2. \A j \in Keys : lifecycles'[j] > 0 => lifecycles[j] > 0 \/ j = k
        BY <1>0, <2>2, <2>4, CountAddsOne
      <3>3. \A j \in Keys : lifecycles'[j] > 0 => j[1] \in DOMAIN nodes' \/ j \in failures'
        BY <1>0, <1>1, <3>1, <3>2
      <3>4. VouchersStay
        BY <2>1 DEF VouchersStay
      <3>5. \A j \in job'.reports : Vouched(j)'
        BY <1>1, <2>2, <3>4, VouchedStays
      <3>6. \A j : Entered(j)' => Entered(j)
        BY <1>0, <2>1 DEF Entered
      <3>7. \A j \in Keys : Entered(j)' => Vouched(j)'
        BY <1>1, <3>4, <3>6, VouchedStays
      <3>. QED  BY <1>0, <3>3, <3>5, <3>7 DEF GroundedTrace
    <2>. QED  BY <2>2, <2>3, <2>4
  <1>7. CASE Drop
    BY <1>3, <1>7, Returning DEF Drop, Return, tables, Flushed, At
  <1>8. CASE Admit
    <2>. DEFINE i == Current.request
    <2>1. /\ Current \in messages /\ Current \in Message /\ i \in RequestIds /\ lifecycles' = lifecycles
          /\ ~At("minimal") /\ tracker \in [RequestIds -> Entries] /\ job.msg = {Current}
      BY <1>0, <1>8, Working, TrackerIsTable DEF Admit, Flushed, At, tables
    <2>2. CASE ~LogAllowed(Current)
      BY <1>0, <1>3, <1>8, <2>1, <2>2, AdmitStarts
    <2>3. CASE LogAllowed(Current)
      <3>1. Awaited' = MinimalEvidence(Current) /\ job'.msg = {Current}
        BY <1>0, <1>8, <2>1, <2>3, AdmitStarts DEF Awaited, At
      <3>2. tracker' = Tracked(Current).table /\ job'.reports = Tracked(Current).reports
        BY <1>0, <1>8, <2>3, AdmitStarts
      <3>v. VouchersStay
        BY <2>1 DEF VouchersStay
      <3>w. \A k \in Keys : Entered(k) => Vouched(k)'
        BY <1>1, <3>v, VouchedStays
      <3>3. CASE /\ Current.kind = "request"
                 /\ tracker' = [tracker EXCEPT ![i] = [key |-> Key(Current), final |-> FALSE]]
                 /\ job'.reports = {}
        <4>1. Current.from # NoNode
          BY <1>8, <3>3 DEF Admit, Admissible
        <4>2. Current.from \in Awaited'
          BY <2>1, <3>1, <4>1, EvidenceIsKnown
        <4>3. /\ tracker'[i].key = Key(Current)
              /\ \A j \in RequestIds : j # i => tracker'[j] = tracker[j]
          BY <2>1, <3>3
        <4>4. PICK c \in job'.msg : c = Current
          BY <3>1
        <4>7. PICK q : q = Key(c)
          OBVIOUS
        <4>5. Vouched(q)'
          BY <4>2, <4>4, <4>7 DEF Vouched, Expected
        <4>8. \A k : Entered(k)' => Entered(k) \/ k = q
          BY <1>0, <4>3, <4>4, <4>7 DEF Entered
        <4>6. \A k \in Keys : Entered(k)' => Vouched(k)'
          BY <3>w, <4>5, <4>8
        <4>. QED  BY <1>0, <1>a, <2>1, <3>3, <4>6 DEF GroundedTrace
      <3>4. CASE /\ Open(i)
                 /\ tracker' = [tracker EXCEPT ![i] = [key |-> tracker[i].key, final |-> TRUE]]
                 /\ job'.reports = {tracker[i].key}
        <4>0. PICK q \in Keys : q = tracker[i].key
          BY <1>0, <2>1, <3>4, TrackerIsTable DEF Open
        <4>1. Entered(q) /\ Vouched(q)'
          BY <2>1, <3>w, <3>4, <4>0 DEF Open, Entered
        <4>2. /\ tracker'[i].key = tracker[i].key
              /\ \A j \in RequestIds : j # i => tracker'[j] = tracker[j]
          BY <2>1, <3>4
        <4>5. \A k : Entered(k)' => Entered(k)
          BY <1>0, <2>1, <3>4, <4>2 DEF Entered, Open
        <4>3. \A k \in Keys : Entered(k)' => Vouched(k)'
          BY <3>w, <4>5
        <4>4. \A k \in job'.reports : Vouched(k)'
          BY <3>4, <4>0, <4>1
        <4>. QED  BY <1>0, <1>a, <2>1, <4>3, <4>4 DEF GroundedTrace
      <3>5. CASE tracker' = tracker /\ job'.reports = {}
        BY <1>3, <2>1, <3>5
      <3>. QED  BY <1>0, <2>1, <3>2, <3>3, <3>4, <3>5, TrackerTakes
    <2>. QED  BY <2>2, <2>3
  <1>9. CASE UpsertMinimal
    <2>0. UNCHANGED <<lifecycles, tracker>>
      BY <1>9 DEF UpsertMinimal
    <2>1. CASE Key(Current) \in failures' /\ job' = Idle
      <3>1. job.msg = {Current} /\ job'.reports = {}
        BY <1>0, <1>9, <2>1, Upserting, Returning
      <3>. QED  BY <1>2, <2>0, <2>1, <3>1 DEF VouchersStay
    <2>2. CASE \E n \in job.nodes :
                  /\ n \in Known
                  /\ Upsert(n)
                  /\ job'.nodes = job.nodes \ {n}
                  /\ job'.at = job.at /\ job'.reports = job.reports /\ job'.msg = job.msg
      <3>1. PICK n \in job.nodes : /\ n \in Known
                                   /\ Upsert(n)
                                   /\ job'.nodes = job.nodes \ {n}
                                   /\ job'.at = job.at /\ job'.reports = job.reports
                                   /\ job'.msg = job.msg
        BY <2>2
      <3>2. DOMAIN nodes' = DOMAIN nodes \cup {n}
        BY <1>0, <1>9, <3>1, Upserting, UpsertAddsRow
      <3>3. Awaited \subseteq DOMAIN nodes' \cup Awaited'
        BY <3>1, <3>2 DEF Awaited, At
      <3>. QED  BY <1>2, <2>0, <3>1, <3>3 DEF VouchersStay
    <2>. QED  BY <1>0, <1>9, <2>1, <2>2, Upserting
  <1>10. CASE LogPacket
    <2>1. Awaited = {} /\ UNCHANGED <<lifecycles, tracker>>
      BY <1>10 DEF LogPacket, Awaited
    <2>2. job'.msg = job.msg /\ job'.reports = job.reports
      BY <1>0, <1>10, Going DEF LogPacket, KeepsLists
    <2>. QED  BY <1>2, <2>1, <2>2 DEF VouchersStay
  <1>11. CASE PersistEdges
    <2>1. UNCHANGED <<lifecycles, tracker>> /\ ~At("minimal") /\ job'.reports = {}
      BY <1>0, <1>11, Persisting, Returning DEF PersistEdges, KeepsLists, At
    <2>. QED  BY <1>3, <2>1
  <1>12. CASE ApplyPolicy
    <2>1. UNCHANGED <<lifecycles, tracker>> /\ ~At("minimal") /\ job'.reports \subseteq job.reports
      BY <1>0, <1>12, Applying, Returning DEF ApplyPolicy, KeepsLists, At, tables
    <2>. QED  BY <1>3, <2>1
  <1>13. CASE UpsertAuthoritative
    <2>1. UNCHANGED <<lifecycles, tracker>> /\ ~At("minimal") /\ job'.reports \subseteq job.reports
      BY <1>0, <1>13, UpsertingAgain, Returning DEF UpsertAuthoritative, KeepsLists, At
    <2>. QED  BY <1>3, <2>1
  <1>14. CASE Discover
    BY <1>0, <1>3, <1>14, Going DEF Discover, KeepsLists, At
  <1>15. CASE Dispatch
    BY <1>0, <1>3, <1>15, Dispatching DEF Dispatch, tables, At
  <1>16. CASE StoreRow
    BY <1>0, <1>3, <1>16, RowsAdvance DEF StoreRow, At
  <1>17. CASE Finish
    BY <1>3, <1>17, Returning DEF Finish, Return, tables, At
  <1>18. CASE Crash
    <2>1. \A i \in RequestIds : tracker'[i] = NoEntry
      BY <1>18 DEF Crash
    <2>2. lifecycles' = lifecycles /\ job'.reports = {}
      BY <1>18, Returning DEF Crash, tables
    <2>. QED  BY <1>0, <1>a, <2>1, <2>2 DEF GroundedTrace, Entered
  <1>19. ASSUME NEW j \in seen, Forget(j)
         PROVE  GroundedTrace'
    BY <1>2, <1>19 DEF Forget, tables, Awaited, At, VouchersStay
  <1>. QED  BY <1>4, <1>5, <1>6, <1>7, <1>8, <1>9, <1>10, <1>11, <1>12, <1>13, <1>14, <1>15, <1>16,
               <1>17, <1>18, <1>19 DEF Next, Handler

LEMMA GroundedAlways == Spec => []Grounded
  <1>1. Init => Grounded
    BY DEF Init, Grounded, GroundedJob, GroundedLog, GroundedTrace, Entered, Idle, Awaited
  <1>2. Shape /\ Grounded /\ [Next]_vars => Grounded'
    BY GroundedJobStep, GroundedLogStep, GroundedTraceStep DEF Grounded
  <1>. QED  BY <1>1, <1>2, ShapeAlways, PTL DEF Spec

\* No foreign key fails, and the log names no node without a row: what is stored about a
\* node finds the node's row there, whichever calls of the store fail before it.
THEOREM NodesAreKnown == Spec => []NodesKnown
  <1>1. Shape /\ Grounded => NodesKnown
    <2>. SUFFICES ASSUME Shape, Grounded
                  PROVE  NodesKnown
      OBVIOUS
    <2>1. ASSUME job.at \in {"lifecycle", "rows"}
          PROVE  Current \in job.msg /\ Current \in Message /\ ~At("minimal")
      BY <2>1, Working DEF Shape, At
    <2>2. ASSUME At("lifecycle")
          PROVE  Ends(Edges(Current)) \subseteq DOMAIN nodes
      <3>1. Admissible(Current)
        BY <2>1, <2>2 DEF Shape, Locals, Marked, At
      <3>2. Ends(Edges(Current)) \subseteq MinimalEvidence(Current)
        BY <2>1, <2>2, <3>1, EdgesAmongEvidence DEF At
      <3>3. MinimalEvidence(Current) \subseteq DOMAIN nodes
        BY <2>1, <2>2 DEF Grounded, GroundedJob, Awaited, At
      <3>. QED  BY <3>2, <3>3
    <2>3. ASSUME At("rows")
          PROVE  Current.from \in DOMAIN nodes
      BY <2>1, <2>3 DEF Grounded, GroundedJob, At
    <2>. QED  BY <2>2, <2>3 DEF NodesKnown, ReferencedNodesExist, LogNamesKnownNodes, Grounded,
                               GroundedLog, GroundedTrace
  <1>. QED  BY <1>1, ShapeAlways, GroundedAlways, PTL

----------------------------------------------------------------------------
(* Announced once                                                          *)

Senders == {m.from : m \in messages}

LEMMA Announcing ==
    ASSUME TypeOK
    PROVE  /\ discovered \in [Senders -> Nat]
           /\ DOMAIN discovered = Senders
           /\ \A m \in messages : m.from \in Senders
           /\ \A n \in DOMAIN nodes : nodes[n] \in messages /\ n # NoNode
           /\ DOMAIN nodes \subseteq Known
  BY DEF TypeOK, Senders, Known

\* A node that was not known is not announced, and one that was stays its message's.
LEMMA UpsertKeepsOwn ==
    ASSUME TypeOK, Current \in messages, NEW n \in Known, Upsert(n), AnnouncedForOwn,
           UNCHANGED discovered
    PROVE  /\ AnnouncedForOwn'
           /\ \A k \in DOMAIN nodes : Own(k)' = Own(k)
           /\ n \notin DOMAIN nodes /\ n \in DOMAIN discovered => discovered[n] = 0
  <1>1. /\ DOMAIN nodes' = DOMAIN nodes \cup {n}
        /\ \A k \in DOMAIN nodes : nodes'[k] = nodes[k]
    BY UpsertAddsRow
  <1>2. \A k \in DOMAIN nodes : Own(k)' = Own(k)
    BY <1>1 DEF Own
  <1>3. \A k \in DOMAIN discovered : discovered[k] \in Nat /\ discovered[k] <= One(Own(k))
    BY Announcing DEF AnnouncedForOwn
  <1>4. \A k \in DOMAIN discovered : k \notin DOMAIN nodes => discovered[k] = 0
    BY <1>3 DEF Own, One
  <1>5. AnnouncedForOwn'
    <2>. SUFFICES ASSUME NEW k \in DOMAIN discovered
                  PROVE  discovered[k] <= One(Own(k)')
      BY DEF AnnouncedForOwn, One
    <2>1. CASE k \in DOMAIN nodes
      BY <1>2, <1>3, <2>1
    <2>2. CASE k \notin DOMAIN nodes
      BY <1>4, <2>2 DEF One
    <2>. QED  BY <2>1, <2>2
  <1>. QED  BY <1>2, <1>4, <1>5

LEMMA AnnouncedForOwnStep ==
    ASSUME Shape, [Next]_vars, AnnouncedForOwn, AnnouncedByJob
    PROVE  AnnouncedForOwn'
  <1>0. TypeOK
    BY DEF Shape
  <1>1. CASE UNCHANGED <<nodes, discovered>>
    BY <1>1 DEF AnnouncedForOwn, Own
  <1>2. CASE UpsertMinimal
    <2>1. UNCHANGED discovered /\ Current \in messages
      BY <1>0, <1>2, Upserting DEF UpsertMinimal
    <2>2. UNCHANGED nodes \/ \E n \in Known : Upsert(n)
      BY <1>0, <1>2, Upserting
    <2>. QED  BY <1>0, <1>1, <2>1, <2>2, UpsertKeepsOwn
  <1>3. CASE UpsertAuthoritative
    <2>1. UNCHANGED discovered /\ Current \in messages
      BY <1>0, <1>3, UpsertingAgain DEF UpsertAuthoritative
    <2>2. UNCHANGED nodes \/ \E n \in Known : Upsert(n)
      BY <1>0, <1>3, UpsertingAgain
    <2>. QED  BY <1>0, <1>1, <2>1, <2>2, UpsertKeepsOwn
  <1>4. CASE Discover /\ discovered' = Count(discovered, Current.from)
    <2>0. PICK f : f = Current.from
      OBVIOUS
    <2>1. /\ At("discover") /\ job.msg = {Current} /\ Current \in messages /\ UNCHANGED nodes
      BY <1>0, <1>4, Working DEF Discover, At
    <2>2. /\ f \in DOMAIN nodes /\ nodes[f] = Current /\ discovered[f] = 0
      BY <2>0, <2>1 DEF AnnouncedByJob
    <2>3. Allowed(Current)
      BY <2>1 DEF Shape, Locals, At
    <2>4. Own(f)'
      BY <2>0, <2>1, <2>2, <2>3 DEF Own
    <2>a. \A k : Own(k)' = Own(k)
      BY <2>1 DEF Own
    <2>5. f \in Senders /\ discovered \in [Senders -> Nat]
      BY <1>0, <2>0, <2>1, Announcing
    <2>6. /\ DOMAIN discovered' = Senders
          /\ \A k \in Senders : discovered'[k] = IF k = f THEN 1 ELSE discovered[k]
      BY <1>4, <2>0, <2>2, <2>5, CountAddsOne
    <2>. QED  BY <2>4, <2>a, <2>5, <2>6 DEF AnnouncedForOwn, One
  <1>5. \/ UNCHANGED <<nodes, discovered>>
        \/ UpsertMinimal
        \/ UpsertAuthoritative
        \/ Discover /\ discovered' = Count(discovered, Current.from)
    <2>1. ASSUME NEW m \in unread, Receive(m)
          PROVE  UNCHANGED <<nodes, discovered>>
      BY <2>1 DEF Receive, tables
    <2>2. ASSUME NEW k \in seen, Forget(k)
          PROVE  UNCHANGED <<nodes, discovered>>
      BY <2>2 DEF Forget, tables
    <2>3. Report \/ Drop \/ Admit \/ LogPacket \/ PersistEdges \/ ApplyPolicy
          \/ Dispatch \/ StoreRow \/ Finish \/ Crash
          \/ UNCHANGED vars => UNCHANGED <<nodes, discovered>>
      BY DEF Report, Drop, Admit, LogPacket, PersistEdges, ApplyPolicy,
             Dispatch, StoreRow, Finish, Crash, tables, vars
    <2>4. Discover => UNCHANGED <<nodes, discovered>> \/ discovered' = Count(discovered, Current.from)
      BY DEF Discover
    <2>. QED  BY <2>1, <2>2, <2>3, <2>4 DEF Next, Handler
  <1>. QED  BY <1>1, <1>2, <1>3, <1>4, <1>5

LEMMA AnnouncedByJobStep ==
    ASSUME Shape, [Next]_vars, AnnouncedForOwn, AnnouncedByJob
    PROVE  AnnouncedByJob'
  <1>0. TypeOK
    BY DEF Shape
  <1>1. ASSUME job'.msg = {}, job'.created = {}
        PROVE  AnnouncedByJob'
    BY <1>1 DEF AnnouncedByJob
  <1>2. ASSUME UNCHANGED <<nodes, discovered>>, job'.msg = job.msg, job'.created = job.created,
               job'.nodes = job.nodes, job'.at = job.at
        PROVE  AnnouncedByJob'
    BY <1>2 DEF AnnouncedByJob, Ahead, At
  <1>3. ASSUME UNCHANGED <<nodes, discovered>>, job'.msg = job.msg, job'.created = job.created,
               job'.at \in {"lifecycle", "policy", "rows"},
               job'.at # "rows" => job.at \in {"minimal", "lifecycle"}
        PROVE  AnnouncedByJob'
    BY <1>3 DEF AnnouncedByJob, Ahead, At
  <1>4. ASSUME UNCHANGED vars
        PROVE  AnnouncedByJob'
    BY <1>2, <1>4 DEF vars, volatile, tables
  <1>5. ASSUME NEW m \in unread, Receive(m)
        PROVE  AnnouncedByJob'
    BY <1>0, <1>5, Receiving DEF AnnouncedByJob, At
  <1>6. CASE Report
    BY <1>0, <1>2, <1>6, Reporting DEF Report
  <1>7. CASE Drop
    BY <1>1, <1>7, Returning DEF Drop, Return
  <1>8. CASE Admit
    <2>1. job'.created = {} /\ job'.at \in {"minimal", "policy"}
      BY <1>0, <1>8, AdmitStarts DEF Shape, Locals, Admit, Flushed
    <2>. QED  BY <2>1 DEF AnnouncedByJob, At
  <1>9. CASE UpsertMinimal
    <2>1. CASE job' = Idle
      BY <1>1, <2>1, Returning
    <2>2. CASE job' # Idle
      <3>1. PICK n \in job.nodes : /\ n \in Known
                                   /\ Upsert(n)
                                   /\ job'.created = job.created \cup ({n} \ DOMAIN nodes)
                                   /\ job'.at = "minimal" /\ job'.msg = job.msg
        BY <1>0, <1>9, <2>2, Upserting DEF At
      <3>2. /\ DOMAIN nodes' = DOMAIN nodes \cup {n}
            /\ \A k \in DOMAIN nodes : nodes'[k] = nodes[k]
            /\ n \notin DOMAIN nodes => nodes'[n] = Current
            /\ job.msg = {Current} /\ Current \in messages /\ At("minimal")
        BY <1>0, <1>9, <3>1, Upserting, UpsertAddsRow
      <3>3. UNCHANGED discovered
        BY <1>9 DEF UpsertMinimal
      <3>4. n \notin DOMAIN nodes /\ n \in DOMAIN discovered => discovered[n] = 0
        BY <1>0, <3>1, <3>2, <3>3, UpsertKeepsOwn
      <3>5. Current.from \in DOMAIN discovered
        BY <1>0, <3>2, Announcing
      <3>6. \A k \in job'.created : k \in DOMAIN nodes' /\ nodes'[k] \in job'.msg
        BY <3>1, <3>2 DEF AnnouncedByJob
      <3>7. Current.from \in job'.created => discovered'[Current.from] = 0
        BY <3>1, <3>2, <3>3, <3>4, <3>5 DEF AnnouncedByJob, Ahead, At
      <3>. QED  BY <3>1, <3>2, <3>6, <3>7 DEF AnnouncedByJob, At
    <2>. QED  BY <2>1, <2>2
  <1>10. CASE LogPacket
    BY <1>0, <1>3, <1>10, Going DEF LogPacket, KeepsLists, At
  <1>11. CASE PersistEdges
    BY <1>0, <1>1, <1>3, <1>11, Persisting, Returning DEF PersistEdges, KeepsLists, At
  <1>12. CASE ApplyPolicy
    <2>1. CASE job' = Idle
      BY <1>1, <2>1, Returning
    <2>2. CASE job' # Idle
      <3>1. /\ job.msg = {Current} /\ Current \in Message /\ Current.from # NoNode
            /\ job'.at = "authoritative" /\ job'.nodes = Evidence(Current) /\ job'.msg = {Current}
            /\ job'.created = job.created /\ At("policy")
        BY <1>0, <1>12, <2>2, Applying DEF KeepsLists
      <3>2. Current.from \in Evidence(Current)
        BY <3>1, EvidenceIsKnown
      <3>3. UNCHANGED <<nodes, discovered>>
        BY <1>12 DEF ApplyPolicy, tables
      <3>. QED  BY <3>1, <3>2, <3>3 DEF AnnouncedByJob, Ahead, At
    <2>. QED  BY <2>1, <2>2
  <1>13. CASE UpsertAuthoritative
    <2>1. CASE job' = Idle
      BY <1>1, <2>1, Returning
    <2>2. CASE job' # Idle
      <3>1. PICK n \in job.nodes :
               /\ n \in Known
               /\ Upsert(n)
               /\ job'.nodes = job.nodes \ {n}
               /\ job'.at = IF NewSender(n) THEN "discover" ELSE "authoritative"
               /\ job'.msg = job.msg /\ job'.created = job.created
        BY <1>0, <1>13, <2>2, UpsertingAgain DEF KeepsLists
      <3>2. /\ DOMAIN nodes' = DOMAIN nodes \cup {n}
            /\ \A k \in DOMAIN nodes : nodes'[k] = nodes[k]
            /\ n \notin DOMAIN nodes => nodes'[n] = Current
            /\ job.msg = {Current} /\ Current \in messages /\ At("authoritative")
        BY <1>0, <1>13, <3>1, UpsertingAgain, UpsertAddsRow
      <3>3. UNCHANGED discovered
        BY <1>13 DEF UpsertAuthoritative
      <3>4. n \notin DOMAIN nodes /\ n \in DOMAIN discovered => discovered[n] = 0
        BY <1>0, <3>1, <3>2, <3>3, UpsertKeepsOwn
      <3>5. Current.from \in DOMAIN discovered
        BY <1>0, <3>2, Announcing
      <3>6. \A k \in job'.created : k \in DOMAIN nodes' /\ nodes'[k] \in job'.msg
        BY <3>1, <3>2 DEF AnnouncedByJob
      <3>7. CASE NewSender(n)
        <4>1. n = Current.from /\ (n \notin DOMAIN nodes \/ n \in job.created)
          BY <3>7 DEF NewSender
        <4>2. discovered[n] = 0
          BY <3>1, <3>2, <3>4, <3>5, <4>1 DEF AnnouncedByJob, Ahead
        <4>3. n \in DOMAIN nodes' /\ nodes'[n] = Current
          BY <3>2, <4>1 DEF AnnouncedByJob
        <4>4. n \notin job'.nodes /\ job'.at = "discover"
          BY <3>1, <3>7
        <4>. QED  BY <3>1, <3>2, <3>3, <3>6, <4>1, <4>2, <4>3, <4>4 DEF AnnouncedByJob, Ahead, At
      <3>8. CASE ~NewSender(n)
        <4>1. job'.at = "authoritative"
          BY <3>1, <3>8
        <4>2. Current.from \in job.created /\ Current.from \in job'.nodes => discovered[Current.from] = 0
          BY <3>1, <3>2 DEF AnnouncedByJob, Ahead
        <4>3. Current.from \notin DOMAIN nodes' => Current.from \in job'.nodes
          BY <3>1, <3>2 DEF AnnouncedByJob
        <4>. QED  BY <3>1, <3>2, <3>3, <3>6, <4>1, <4>2, <4>3 DEF AnnouncedByJob, Ahead, At
      <3>. QED  BY <3>7, <3>8
    <2>. QED  BY <2>1, <2>2
  <1>14. CASE Discover
    <2>1. /\ At("discover") /\ job.msg = {Current} /\ UNCHANGED nodes
          /\ job'.at = "authoritative" /\ job'.nodes = job.nodes
          /\ job'.created = job.created /\ job'.msg = job.msg
      BY <1>0, <1>14, Working, Going DEF Discover, At, KeepsLists
    <2>2. Current.from \in DOMAIN nodes /\ Current.from \notin job.nodes
      BY <2>1 DEF AnnouncedByJob
    <2>. QED  BY <2>1, <2>2 DEF AnnouncedByJob, Ahead, At
  <1>15. CASE Dispatch
    BY <1>0, <1>3, <1>15, Dispatching DEF Dispatch, tables
  <1>16. CASE StoreRow
    BY <1>0, <1>2, <1>16, RowsAdvance DEF StoreRow
  <1>17. CASE Finish
    BY <1>1, <1>17, Returning DEF Finish, Return
  <1>18. CASE Crash
    BY <1>1, <1>18, Returning DEF Crash
  <1>19. ASSUME NEW j \in seen, Forget(j)
         PROVE  AnnouncedByJob'
    BY <1>2, <1>19 DEF Forget, tables
  <1>. QED  BY <1>4, <1>5, <1>6, <1>7, <1>8, <1>9, <1>10, <1>11, <1>12, <1>13, <1>14, <1>15, <1>16,
               <1>17, <1>18, <1>19 DEF Next, Handler

LEMMA CrashesStay ==
    ASSUME Shape, [Next]_vars, crashes' = 0
    PROVE  crashes = 0 /\ ~Crash
  <1>1. crashes \in Nat
    BY Typed DEF Shape
  <1>2. Crash => crashes' = crashes + 1
    BY DEF Crash
  <1>3. crashes' = crashes \/ Crash
    <2>1. ASSUME NEW m \in unread, Receive(m)
          PROVE  UNCHANGED crashes
      BY <2>1 DEF Receive, counters
    <2>2. ASSUME NEW k \in seen, Forget(k)
          PROVE  UNCHANGED crashes
      BY <2>2 DEF Forget
    <2>3. Drop \/ Admit \/ ApplyPolicy \/ Dispatch \/ Finish \/ UNCHANGED vars \/ Report
          \/ UpsertMinimal \/ LogPacket \/ PersistEdges \/ UpsertAuthoritative
          \/ Discover \/ StoreRow => UNCHANGED crashes
      BY DEF Drop, Admit, ApplyPolicy, Dispatch, Finish, counters, vars,
             Report, UpsertMinimal, LogPacket, PersistEdges, UpsertAuthoritative, Discover, StoreRow
    <2>. QED  BY <2>1, <2>2, <2>3 DEF Next, Handler
  <1>. QED  BY <1>1, <1>2, <1>3

LEMMA NoneUnannouncedStep ==
    ASSUME Shape, [Next]_vars, AnnouncedForOwn, AnnouncedByJob, NoneUnannounced
    PROVE  NoneUnannounced'
  <1>. SUFFICES ASSUME crashes' = 0
                PROVE  NoneUnannounced'
    BY DEF NoneUnannounced
  <1>0. /\ TypeOK /\ failures \subseteq failures'
        /\ crashes = 0 /\ ~Crash
    BY FailuresGrow, CrashesStay DEF Shape
  <1>1. /\ \A n \in DOMAIN discovered :
              Own(n) => discovered[n] = 1 \/ Due(n) \/ Key(nodes[n]) \in failures
        /\ DOMAIN nodes \subseteq Known
    BY <1>0, Announcing DEF NoneUnannounced
  <1>2. ASSUME UNCHANGED <<nodes, discovered>>, \A n \in DOMAIN nodes : Own(n) /\ Due(n) => Due(n)'
        PROVE  NoneUnannounced'
    BY <1>0, <1>1, <1>2 DEF NoneUnannounced, Own
  <1>f. ASSUME UNCHANGED <<nodes, discovered>>, job.msg = {Current}, Key(Current) \in failures'
        PROVE  NoneUnannounced'
    <2>1. \A n : Due(n) => Key(nodes[n]) \in failures'
      BY <1>f DEF Due
    <2>. QED  BY <1>0, <1>1, <1>f, <2>1 DEF NoneUnannounced, Own
  <1>3. ASSUME UNCHANGED <<nodes, discovered>>, job.at \in {"idle", "flush", "rows"}
        PROVE  NoneUnannounced'
    BY <1>2, <1>3 DEF Due, Ahead, At
  <1>4. ASSUME UNCHANGED <<nodes, discovered>>, job'.msg = job.msg, job'.created = job.created,
               job'.at \in {"minimal", "lifecycle", "policy"}, job.at # "discover"
        PROVE  NoneUnannounced'
    BY <1>2, <1>4 DEF Due, Ahead, At
  <1>5. ASSUME UNCHANGED <<nodes, discovered>>, UNCHANGED job
        PROVE  NoneUnannounced'
    BY <1>2, <1>5 DEF Due, Ahead, At
  <1>6. ASSUME UNCHANGED vars
        PROVE  NoneUnannounced'
    BY <1>5, <1>6 DEF vars, volatile, tables
  <1>7. ASSUME NEW m \in unread, Receive(m)
        PROVE  NoneUnannounced'
    BY <1>0, <1>3, <1>7, Receiving DEF At
  <1>8. CASE Report
    <2>1. job.at = "flush" \/ job'.at = "lifecycle"
      BY <1>0, <1>8, Reporting
    <2>. QED  BY <1>0, <1>3, <1>4, <1>8, <2>1, Reporting DEF Report
  <1>9. CASE Drop
    BY <1>3, <1>9 DEF Drop, Flushed, At, tables
  <1>10. CASE Admit
    BY <1>3, <1>10 DEF Admit, Flushed, At, tables
  <1>11. CASE UpsertMinimal
    <2>f. ASSUME UNCHANGED nodes, Key(Current) \in failures'
          PROVE  NoneUnannounced'
      BY <1>0, <1>11, <1>f, <2>f, Upserting DEF UpsertMinimal
    <2>. SUFFICES ASSUME ~(UNCHANGED nodes /\ Key(Current) \in failures')
                  PROVE  NoneUnannounced'
      BY <2>f
    <2>1. PICK n \in job.nodes : /\ n \in Known
                                 /\ Upsert(n)
                                 /\ job'.created = job.created \cup ({n} \ DOMAIN nodes)
                                 /\ job'.at = "minimal" /\ job'.msg = job.msg
      BY <1>0, <1>11, Upserting DEF At
    <2>2. /\ DOMAIN nodes' = DOMAIN nodes \cup {n}
          /\ \A k \in DOMAIN nodes : nodes'[k] = nodes[k]
          /\ n \notin DOMAIN nodes => nodes'[n] = Current
          /\ job.msg = {Current} /\ Current \in messages /\ At("minimal")
      BY <1>0, <1>11, <2>1, Upserting, UpsertAddsRow
    <2>3. UNCHANGED discovered
      BY <1>11 DEF UpsertMinimal
    <2>4. \A k \in DOMAIN nodes : Own(k)' = Own(k)
      BY <1>0, <2>1, <2>2, <2>3, UpsertKeepsOwn
    <2>5. \A k \in DOMAIN nodes : Due(k) => Due(k)'
      BY <2>1, <2>2 DEF Due, Ahead, At
    <2>6. n \notin DOMAIN nodes => Due(n)'
      BY <2>1, <2>2 DEF Due, Ahead, At
    <2>7. \A k : Own(k)' => k \in DOMAIN nodes \cup {n}
      BY <2>2 DEF Own
    <2>. QED  BY <1>0, <1>1, <2>2, <2>3, <2>4, <2>5, <2>6, <2>7 DEF NoneUnannounced
  <1>12. CASE LogPacket
    BY <1>0, <1>4, <1>12, Going DEF LogPacket, KeepsLists, At
  <1>13. CASE PersistEdges
    BY <1>0, <1>4, <1>f, <1>13, Persisting DEF PersistEdges, KeepsLists, At
  <1>14. CASE ApplyPolicy
    <2>1. /\ job.msg = {Current} /\ Current \in Message /\ At("policy")
          /\ UNCHANGED <<nodes, discovered>>
      BY <1>0, <1>14, Applying DEF ApplyPolicy, tables
    <2>2. ASSUME NEW n \in DOMAIN nodes, Own(n), Due(n)
          PROVE  n = Current.from /\ Allowed(Current) /\ n # NoNode /\ n \in job.created
      BY <1>1, <2>1, <2>2 DEF Own, Due, Known, At
    <2>3. CASE job' = Idle
      <3>1. ~(Allowed(Current) /\ Current.from # NoNode)
        BY <1>0, <1>14, <2>3, Applying DEF Idle
      <3>. QED  BY <1>2, <2>1, <2>2, <3>1
    <2>4. CASE job' # Idle
      <3>1. /\ job'.at = "authoritative" /\ job'.nodes = Evidence(Current) /\ job'.msg = {Current}
            /\ job'.created = job.created /\ Current.from # NoNode
        BY <1>0, <1>14, <2>1, <2>4, Applying DEF KeepsLists
      <3>2. Current.from \in Evidence(Current)
        BY <2>1, <3>1, EvidenceIsKnown
      <3>3. ASSUME NEW n \in DOMAIN nodes, Own(n), Due(n)
            PROVE  Due(n)'
        BY <2>1, <2>2, <3>1, <3>2, <3>3 DEF Due, Ahead, At
      <3>. QED  BY <1>2, <2>1, <3>3
    <2>. QED  BY <2>3, <2>4
  <1>15. CASE UpsertAuthoritative
    <2>f. ASSUME UNCHANGED nodes, Key(Current) \in failures'
          PROVE  NoneUnannounced'
      BY <1>0, <1>15, <1>f, <2>f, UpsertingAgain DEF UpsertAuthoritative
    <2>. SUFFICES ASSUME ~(UNCHANGED nodes /\ Key(Current) \in failures')
                  PROVE  NoneUnannounced'
      BY <2>f
    <2>1. PICK n \in job.nodes :
             /\ n \in Known
             /\ Upsert(n)
             /\ job'.nodes = job.nodes \ {n}
             /\ job'.at = IF NewSender(n) THEN "discover" ELSE "authoritative"
             /\ job'.msg = job.msg /\ job'.created = job.created
      BY <1>0, <1>15, UpsertingAgain DEF KeepsLists
    <2>2. /\ DOMAIN nodes' = DOMAIN nodes \cup {n}
          /\ \A k \in DOMAIN nodes : nodes'[k] = nodes[k]
          /\ n \notin DOMAIN nodes => nodes'[n] = Current
          /\ job.msg = {Current} /\ Current \in messages /\ At("authoritative")
      BY <1>0, <1>15, <2>1, UpsertingAgain, UpsertAddsRow
    <2>3. UNCHANGED discovered
      BY <1>15 DEF UpsertAuthoritative
    <2>4. \A k \in DOMAIN nodes : Own(k)' = Own(k)
      BY <1>0, <2>1, <2>2, <2>3, UpsertKeepsOwn
    <2>5. ASSUME NEW k \in DOMAIN nodes, Own(k), Due(k)
          PROVE  Due(k)'
      <3>1. k = Current.from /\ k \in job.created /\ k \in job.nodes /\ nodes[k] = Current
        BY <2>2, <2>5 DEF Own, Due, Ahead, At
      <3>2. k \in DOMAIN nodes' /\ nodes'[k] \in job'.msg
        BY <2>1, <2>2, <3>1
      <3>3. CASE n = k
        BY <2>1, <3>1, <3>2, <3>3 DEF NewSender, Due, At
      <3>4. CASE n # k
        BY <2>1, <3>1, <3>2, <3>4 DEF NewSender, Due, Ahead, At
      <3>. QED  BY <3>3, <3>4
    <2>6. ASSUME n \notin DOMAIN nodes, Own(n)'
          PROVE  Due(n)'
      <3>1. nodes'[n] = Current /\ n = Current.from
        BY <2>2, <2>6 DEF Own
      <3>. QED  BY <2>1, <2>2, <2>6, <3>1 DEF NewSender, Due, At
    <2>7. \A k : Own(k)' => k \in DOMAIN nodes \cup {n}
      BY <2>2 DEF Own
    <2>. QED  BY <1>0, <1>1, <2>2, <2>3, <2>4, <2>5, <2>6, <2>7 DEF NoneUnannounced
  <1>16. CASE Discover
    <2>0. PICK f : f = Current.from
      OBVIOUS
    <2>f. ASSUME UNCHANGED discovered, Key(Current) \in failures'
          PROVE  NoneUnannounced'
      BY <1>0, <1>16, <1>f, <2>f, Working DEF Discover, At
    <2>. SUFFICES ASSUME ~(UNCHANGED discovered /\ Key(Current) \in failures')
                  PROVE  NoneUnannounced'
      BY <2>f
    <2>1. /\ At("discover") /\ job.msg = {Current} /\ Current \in messages
          /\ UNCHANGED nodes /\ discovered' = Count(discovered, f)
      BY <1>0, <1>16, <2>0, Working DEF Discover, At, Fails
    <2>2. discovered[f] = 0 /\ f \in Senders /\ discovered \in [Senders -> Nat]
      BY <1>0, <2>0, <2>1, Announcing DEF AnnouncedByJob
    <2>3. /\ DOMAIN discovered' = Senders /\ DOMAIN discovered = Senders
          /\ \A k \in Senders : discovered'[k] = IF k = f THEN 1 ELSE discovered[k]
      BY <2>1, <2>2, CountAddsOne
    <2>4. \A k : Own(k)' = Own(k)
      BY <2>1 DEF Own
    <2>5. ASSUME NEW k \in Senders, Own(k), k # f
          PROVE  discovered[k] = 1 \/ Key(nodes[k]) \in failures
      <3>1. ~Due(k)
        BY <2>0, <2>1, <2>5 DEF Own, Due
      <3>. QED  BY <1>1, <2>3, <2>5, <3>1
    <2>. QED  BY <1>0, <2>1, <2>3, <2>4, <2>5 DEF NoneUnannounced
  <1>17. CASE Dispatch
    <2>1. \A n \in DOMAIN nodes : ~Due(n)
      BY <1>17 DEF Dispatch, Due, Ahead, At
    <2>. QED  BY <1>2, <1>17, <2>1 DEF Dispatch, tables
  <1>18. CASE StoreRow
    BY <1>3, <1>18 DEF StoreRow, At
  <1>19. CASE Finish
    BY <1>3, <1>19 DEF Finish, At, tables
  <1>20. ASSUME NEW j \in seen, Forget(j)
         PROVE  NoneUnannounced'
    BY <1>5, <1>20 DEF Forget, tables
  <1>. QED  BY <1>0, <1>6, <1>7, <1>8, <1>9, <1>10, <1>11, <1>12, <1>13, <1>14, <1>15, <1>16,
               <1>17, <1>18, <1>19, <1>20 DEF Next, Handler

LEMMA AnnouncedAlways == Spec => []Announced
  <1>1. Init => Announced
    BY DEF Init, Announced, AnnouncedForOwn, AnnouncedByJob, NoneUnannounced, Own, One, Idle
  <1>2. Shape /\ Announced /\ [Next]_vars => Announced'
    BY AnnouncedForOwnStep, AnnouncedByJobStep, NoneUnannouncedStep DEF Announced
  <1>. QED  BY <1>1, <1>2, ShapeAlways, PTL DEF Spec

\* A node is announced once if the packet that made it known was its own and the policy of
\* its channel lets it through, and never otherwise; two passes may create its row.
THEOREM AnnouncedExactly == Spec => []DiscoveryExact
  <1>1. Shape /\ Announced => DiscoveryExact
    <2>. SUFFICES ASSUME Shape, Announced, NEW n \in DOMAIN discovered
                  PROVE  /\ discovered[n] <= IF Own(n) THEN 1 ELSE 0
                         /\ At("idle") /\ crashes = 0 /\ Own(n) =>
                                discovered[n] = 1 \/ Key(nodes[n]) \in failures
      BY DEF DiscoveryExact, Own
    <2>1. discovered[n] <= IF Own(n) THEN 1 ELSE 0
      BY DEF Announced, AnnouncedForOwn, One
    <2>2. At("idle") => ~Due(n)
      BY DEF Due, Ahead, At
    <2>. QED  BY <2>1, <2>2 DEF Announced, NoneUnannounced
  <1>. QED  BY <1>1, ShapeAlways, AnnouncedAlways, PTL

----------------------------------------------------------------------------
(* Nothing lost                                                            *)

\* A call that failed for the packet in hand ends the handler.
GivesUp ==
    /\ job.msg = {Current} /\ job.at \in {"minimal", "lifecycle", "authoritative"}
    /\ Key(Current) \in failures'
    /\ job' = Idle
    /\ unread' = unread \ job.msg

\* How the handler ends: at the end, early, or with a call that failed for its packet.
LEMMA WaysToReturn ==
    ASSUME Shape, [Next]_vars
    PROVE  \/ Drop
           \/ Finish
           \/ Crash
           \/ /\ ApplyPolicy
              /\ ~(Allowed(Current) /\ Current.from # NoNode)
              /\ job' = Idle
              /\ unread' = unread \ job.msg
           \/ GivesUp
           \/ /\ unread' = unread
              /\ job.at \in Marked => job'.at \in Marked /\ job'.msg = job.msg
  <1>0. TypeOK
    BY DEF Shape
  <1>1. ASSUME NEW m \in unread, Receive(m)
        PROVE  unread' = unread /\ job.at \notin Marked
    BY <1>0, <1>1, Receiving DEF At, Marked
  <1>2. Report => unread' = unread /\ job'.at = job.at /\ job'.msg = job.msg
    BY <1>0, Reporting DEF Report
  <1>3. Admit => unread' = unread /\ job.at \notin Marked
    BY DEF Admit, Flushed, At, Marked
  <1>4. UpsertMinimal => GivesUp \/ (unread' = unread /\ job'.at = job.at /\ job'.msg = job.msg)
    BY <1>0, Upserting DEF GivesUp, At
  <1>5. LogPacket => unread' = unread /\ job'.at = "lifecycle" /\ job'.msg = job.msg
    BY <1>0, Going DEF LogPacket, KeepsLists
  <1>6. PersistEdges => GivesUp \/ (unread' = unread /\ job'.at = "policy" /\ job'.msg = job.msg)
    BY <1>0, Persisting DEF KeepsLists, GivesUp, At
  <1>7. ApplyPolicy => \/ unread' = unread /\ job'.at = "authoritative" /\ job'.msg = job.msg
                       \/ /\ ~(Allowed(Current) /\ Current.from # NoNode)
                          /\ job' = Idle
                          /\ unread' = unread \ job.msg
    BY <1>0, Applying DEF KeepsLists
  <1>8. UpsertAuthoritative => \/ GivesUp
                               \/ /\ unread' = unread /\ job'.msg = job.msg
                                  /\ job'.at \in {"authoritative", "discover"}
    BY <1>0, UpsertingAgain DEF KeepsLists, GivesUp, At
  <1>9. Discover => unread' = unread /\ job'.at = "authoritative" /\ job'.msg = job.msg
    BY <1>0, Going DEF Discover, KeepsLists
  <1>10. Dispatch => unread' = unread /\ job'.at = "rows" /\ job'.msg = job.msg
    BY <1>0, Dispatching DEF Dispatch
  <1>11. StoreRow => unread' = unread /\ job'.at = job.at /\ job'.msg = job.msg
    BY <1>0, RowsAdvance DEF StoreRow
  <1>12. ASSUME NEW k \in seen, Forget(k)
         PROVE  unread' = unread /\ job'.at = job.at /\ job'.msg = job.msg
    BY <1>12 DEF Forget
  <1>13. UNCHANGED vars => unread' = unread /\ job'.at = job.at /\ job'.msg = job.msg
    BY DEF vars, volatile
  <1>. QED  BY <1>1, <1>2, <1>3, <1>4, <1>5, <1>6, <1>7, <1>8, <1>9, <1>10, <1>11, <1>12, <1>13
            DEF Next, Handler, Marked

LEMMA UnreadShrinks ==
    ASSUME Shape, [Next]_vars
    PROVE  unread' \subseteq unread
  <1>1. ASSUME NEW m \in unread, Receive(m)
        PROVE  unread' \subseteq unread
    BY <1>1 DEF Receive
  <1>2. ASSUME NEW k \in seen, Forget(k)
        PROVE  unread' \subseteq unread
    BY <1>2 DEF Forget
  <1>3. Drop \/ Admit \/ ApplyPolicy \/ Dispatch \/ Finish \/ UNCHANGED vars \/ Report
        \/ UpsertMinimal \/ LogPacket \/ PersistEdges \/ UpsertAuthoritative
        \/ Discover \/ StoreRow \/ Crash => unread' \subseteq unread
    BY DEF Drop, Admit, ApplyPolicy, Dispatch, Finish, vars, Report, UpsertMinimal, LogPacket,
           PersistEdges, UpsertAuthoritative, Discover, StoreRow, Crash, Return
  <1>. QED  BY <1>1, <1>2, <1>3 DEF Next, Handler

LEMMA SeenGrowsBy ==
    ASSUME Shape, [Next]_vars, NEW k \in seen', k \notin seen
    PROVE  Admit /\ k = Key(Current)
  <1>1. ASSUME NEW m \in unread, Receive(m)
        PROVE  seen' = seen
    BY <1>1 DEF Receive
  <1>2. ASSUME NEW j \in seen, Forget(j)
        PROVE  seen' \subseteq seen
    BY <1>2 DEF Forget
  <1>3. Drop \/ ApplyPolicy \/ Dispatch \/ Finish \/ UNCHANGED vars \/ Report
        \/ UpsertMinimal \/ LogPacket \/ PersistEdges \/ UpsertAuthoritative
        \/ Discover \/ StoreRow \/ Crash => seen' \subseteq seen
    BY DEF Drop, ApplyPolicy, Dispatch, Finish, vars, volatile, Report, UpsertMinimal, LogPacket,
           PersistEdges, UpsertAuthoritative, Discover, StoreRow, Crash
  <1>4. Admit => seen' \subseteq seen \cup {Key(Current)}
    BY DEF Admit
  <1>. QED  BY <1>1, <1>2, <1>3, <1>4 DEF Next, Handler

LEMMA TablesGrow ==
    ASSUME Shape, [Next]_vars
    PROVE  /\ \A k \in Keys : chat'[k] >= chat[k]
           /\ facts \subseteq facts'
           /\ \A k \in Keys : packetLog'[k] >= packetLog[k]
           /\ \A k \in Keys : lifecycles'[k] >= lifecycles[k]
  <1>0. /\ chat \in [Keys -> Nat] /\ packetLog \in [Keys -> Nat] /\ lifecycles \in [Keys -> Nat]
        /\ \A k \in Keys : chat[k] >= chat[k] /\ packetLog[k] >= packetLog[k]
                           /\ lifecycles[k] >= lifecycles[k]
    <2>1. /\ chat \in [Keys -> Nat] /\ packetLog \in [Keys -> Nat] /\ lifecycles \in [Keys -> Nat]
      BY Typed DEF Shape
    <2>2. \A n \in Nat : n >= n
      OBVIOUS
    <2>. QED  BY <2>1, <2>2
  <1>1. CASE UNCHANGED <<chat, facts, packetLog, lifecycles>>
    BY <1>0, <1>1
  <1>2. CASE Report
    <2>1. \E k \in Keys : lifecycles' = lifecycles \/ lifecycles' = Count(lifecycles, k)
      BY <1>2, Reporting DEF Shape
    <2>2. \A k \in Keys : lifecycles'[k] >= lifecycles[k]
      <3>1. CASE lifecycles' = lifecycles
        BY <1>0, <3>1
      <3>2. ASSUME NEW j \in Keys, lifecycles' = Count(lifecycles, j)
            PROVE  \A k \in Keys : lifecycles'[k] >= lifecycles[k]
        <4>1. \A k \in Keys : lifecycles'[k] = IF k = j THEN lifecycles[k] + 1 ELSE lifecycles[k]
          BY <1>0, <3>2, CountAddsOne
        <4>. QED  BY <1>0, <4>1
      <3>. QED  BY <2>1, <3>1, <3>2
    <2>. QED  BY <1>0, <1>2, <2>2 DEF Report
  <1>3. CASE LogPacket
    <2>1. Key(Current) \in Keys
      BY <1>3, Working DEF Shape, LogPacket, At
    <2>2. packetLog' = packetLog \/ packetLog' = Count(packetLog, Key(Current))
      BY <1>3 DEF LogPacket
    <2>3. \A k \in Keys : packetLog'[k] >= packetLog[k]
      BY SMTT(30), <1>0, <2>1, <2>2, CountAddsOne
    <2>. QED  BY <1>0, <1>3, <2>3 DEF LogPacket
  <1>4. CASE StoreRow
    <2>1. Key(Current) \in Keys
      BY <1>4, Working DEF Shape, StoreRow, At
    <2>2. chat' = chat \/ chat' = Count(chat, Key(Current))
      BY <1>4 DEF StoreRow
    <2>3. \A k \in Keys : chat'[k] >= chat[k]
      BY SMTT(30), <1>0, <2>1, <2>2, CountAddsOne
    <2>. QED  BY <1>0, <1>4, <2>3 DEF StoreRow
  <1>5. ASSUME NEW m \in unread, Receive(m)
        PROVE  UNCHANGED <<chat, facts, packetLog, lifecycles>>
    BY <1>5 DEF Receive, tables
  <1>6. ASSUME NEW j \in seen, Forget(j)
        PROVE  UNCHANGED <<chat, facts, packetLog, lifecycles>>
    BY <1>6 DEF Forget, tables
  <1>7. Drop \/ Admit \/ ApplyPolicy \/ Dispatch \/ Finish \/ UNCHANGED vars \/ UpsertMinimal
        \/ PersistEdges \/ UpsertAuthoritative \/ Discover \/ Crash
            => UNCHANGED <<chat, facts, packetLog, lifecycles>>
    BY DEF Drop, Admit, ApplyPolicy, Dispatch, Finish, vars, UpsertMinimal,
           PersistEdges, UpsertAuthoritative, Discover, Crash, tables
  <1>. QED  BY <1>1, <1>2, <1>3, <1>4, <1>5, <1>6, <1>7 DEF Next, Handler

\* What is stored stays stored.
LEMMA StoredStays ==
    ASSUME Shape, [Next]_vars, NEW m \in messages
    PROVE  /\ \A row : StoredRow(m, row) => StoredRow(m, row)'
           /\ Settled(m) => Settled(m)'
  <1>1. Key(m) \in Keys /\ chat[Key(m)] \in Nat /\ chat'[Key(m)] \in Nat
        /\ chat'[Key(m)] >= chat[Key(m)] /\ facts \subseteq facts'
    <2>1. Key(m) \in Keys /\ TypeOK /\ TypeOK'
      BY Published, ShapeStep DEF Shape, TypeOK
    <2>2. chat \in [Keys -> Nat] /\ chat' \in [Keys -> Nat]
      BY <2>1, SameKeys DEF TypeOK
    <2>. QED  BY <2>1, <2>2, TablesGrow
  <1>2. \A row : StoredRow(m, row) => StoredRow(m, row)'
    BY <1>1 DEF StoredRow
  <1>3. Stored(m) => Stored(m)'
    BY <1>1 DEF Stored
  <1>4. failures \subseteq failures'
    BY FailuresGrow
  <1>. QED  BY <1>2, <1>3, <1>4 DEF Settled

LEMMA StoredIsRows ==
    ASSUME NEW m \in Message
    PROVE  Stored(m) <=> \A i \in 1..Len(Rows(m)) : StoredRow(m, Rows(m)[i])
  <1>1. DOMAIN Rows(m) = 1..Len(Rows(m))
    BY RowsOfKind
  <1>. QED  BY <1>1 DEF Stored, StoredRow

\* Copies that are read alike tell the same.
LEMMA AlikeStoreTheSame ==
    ASSUME NEW m \in Message, NEW c \in Message, Key(c) = Key(m), c.kind = m.kind,
           c.carries = m.carries
    PROVE  Rows(c) = Rows(m) /\ (Stored(c) <=> Stored(m)) /\ c.from = m.from
  <1>1. Rows(c) = Rows(m)
    BY DEF Rows, NodeInfoRows, PositionRows
  <1>2. c.from = m.from
    BY DEF Key
  <1>. QED  BY <1>1, <1>2 DEF Stored

LEMMA RowsKeptStep ==
    ASSUME Shape, [Next]_vars, RowsKept
    PROVE  RowsKept'
  <1>0. TypeOK /\ failures \subseteq failures'
    BY FailuresGrow DEF Shape
  <1>1. CASE job'.at # "rows"
    BY <1>1 DEF RowsKept, At
  <1>2. CASE Dispatch
    <2>1. job'.msg = {Current} /\ job'.rows = Rows(Current)
      BY <1>0, <1>2, Dispatching
    <2>. QED  BY <2>1 DEF RowsKept
  <1>3. ASSUME NEW m \in job.msg
        PROVE  m \in messages /\ m \in Message
    BY <1>0, Published DEF TypeOK, Job
  <1>4. CASE UNCHANGED job
    BY <1>0, <1>3, <1>4, StoredStays DEF RowsKept, At
  <1>5. CASE StoreRow
    <2>1. /\ At("rows") /\ job.msg = {Current} /\ Current \in messages
          /\ job.rows \in Seq(RowNames) /\ job.rows # <<>>
          /\ chat \in [Keys -> Nat] /\ Key(Current) \in Keys
      BY <1>0, <1>5, Working, Typed DEF StoreRow, At
    <2>. SUFFICES ASSUME Key(Current) \notin failures'
                  PROVE  RowsKept'
      <3>1. job'.msg = {Current}
        BY <1>0, <1>5, <2>1, RowsAdvance
      <3>. QED  BY <3>1 DEF RowsKept
    <2>3. /\ job'.msg = job.msg
          /\ Len(job'.rows) = Len(job.rows) - 1
          /\ \A i \in 1..Len(job.rows) - 1 : job'.rows[i] = job.rows[i + 1]
      BY <1>0, <1>5, RowsAdvance
    <2>4. Len(job.rows) \in Nat /\ Head(job.rows) = job.rows[1]
      BY <2>1
    <2>5. IF job.rows[1] = "chat" THEN chat' = Count(chat, Key(Current))
          ELSE facts' = facts \cup {<<Current.from, job.rows[1]>>}
      BY <1>0, <1>5, <2>4 DEF StoreRow, Fails
    <2>. SUFFICES ASSUME NEW m \in job'.msg, NEW i \in 1..Len(Rows(m))
                  PROVE  \/ StoredRow(m, Rows(m)[i])'
                         \/ \E j \in 1..Len(job'.rows) : job'.rows[j] = Rows(m)[i]
      BY DEF RowsKept
    <2>6. m = Current /\ m \in messages
      BY <2>1, <2>3
    <2>7. CASE StoredRow(m, Rows(m)[i])
      BY <2>6, <2>7, StoredStays
    <2>8. ASSUME NEW j \in 1..Len(job.rows), job.rows[j] = Rows(m)[i]
          PROVE  \/ StoredRow(m, Rows(m)[i])'
                 \/ \E l \in 1..Len(job'.rows) : job'.rows[l] = Rows(m)[i]
      <3>1. CASE j = 1
        <4>1. CASE Rows(m)[i] = "chat"
          <5>1. chat'[Key(m)] = chat[Key(m)] + 1 /\ chat[Key(m)] \in Nat
            BY <2>1, <2>5, <2>6, <2>8, <3>1, <4>1, CountAddsOne
          <5>. QED  BY <4>1, <5>1 DEF StoredRow
        <4>2. CASE Rows(m)[i] # "chat"
          <5>1. <<m.from, Rows(m)[i]>> \in facts'
            BY <2>5, <2>6, <2>8, <3>1, <4>2
          <5>. QED  BY <4>2, <5>1 DEF StoredRow
        <4>. QED  BY <4>1, <4>2
      <3>2. CASE j # 1
        <4>1. j - 1 \in 1..Len(job'.rows) /\ job'.rows[j - 1] = job.rows[j]
          BY <2>3, <2>4, <3>2
        <4>. QED  BY <2>8, <4>1
      <3>. QED  BY <3>1, <3>2
    <2>9. \/ StoredRow(m, Rows(m)[i])
          \/ \E j \in 1..Len(job.rows) : job.rows[j] = Rows(m)[i]
      BY <1>0, <2>1, <2>6 DEF RowsKept
    <2>. QED  BY <2>7, <2>8, <2>9
  <1>6. job'.at # "rows" \/ Dispatch \/ StoreRow \/ UNCHANGED job
    <2>1. ASSUME NEW m \in unread, Receive(m)
          PROVE  job'.at # "rows"
      BY <1>0, <2>1, Receiving
    <2>2. ASSUME NEW j \in seen, Forget(j)
          PROVE  UNCHANGED job
      BY <2>2 DEF Forget
    <2>3. UNCHANGED vars => UNCHANGED job
      BY DEF vars, volatile
    <2>4. Report => job'.at # "rows"
      BY <1>0, Reporting
    <2>5. Drop \/ Finish \/ Crash => job'.at # "rows"
      BY Returning DEF Drop, Finish, Crash, Return
    <2>6. Admit => job'.at # "rows"
      BY <1>0, AdmitStarts
    <2>7. UpsertMinimal => job'.at # "rows"
      BY <1>0, Upserting, Returning DEF At
    <2>8. LogPacket \/ Discover => job'.at # "rows"
      BY <1>0, Going DEF LogPacket, Discover
    <2>9. PersistEdges => job'.at # "rows"
      BY <1>0, Persisting, Returning
    <2>10. ApplyPolicy => job'.at # "rows"
      BY <1>0, Applying, Returning
    <2>11. UpsertAuthoritative => job'.at # "rows"
      BY <1>0, UpsertingAgain, Returning
    <2>. QED  BY <2>1, <2>2, <2>3, <2>4, <2>5, <2>6, <2>7, <2>8, <2>9, <2>10, <2>11 DEF Next, Handler
  <1>. QED  BY <1>1, <1>2, <1>4, <1>5, <1>6

\* When the handler has done its work, all the message tells is stored or a call failed.
LEMMA DoneIsSettled ==
    ASSUME Shape, RowsKept, Finish
    PROVE  Settled(Current)
  <1>1. At("rows") /\ job.rows = <<>> /\ job.msg = {Current} /\ Current \in Message
    BY Working DEF Finish, Shape, At
  <1>2. Key(Current) \notin failures => \A i \in 1..Len(Rows(Current)) : StoredRow(Current, Rows(Current)[i])
    BY <1>1 DEF RowsKept
  <1>. QED  BY <1>1, <1>2, StoredIsRows DEF Settled

\* What is dropped has a copy that was handled, and tells no more than it or is eclipsed.
LEMMA DroppedIsSettled ==
    ASSUME Shape, SeenKept, Drop, Admissible(Current)
    PROVE  Settled(Current) \/ Eclipsed(Current, Welcome)
  <1>1. /\ At("flush") /\ job.msg = {Current} /\ Current \in Message
        /\ Key(Current) \in seen /\ Current.id # 0
    BY Working DEF Drop, Flushed, Shape, At, Duplicate
  <1>2. PICK c \in messages : Key(c) = Key(Current) /\ Admissible(c) /\ c \notin unread /\ Settled(c)
    BY <1>1, KeyFields DEF SeenKept, Marked, At
  <1>3. c \in Message
    BY Published DEF Shape, TypeOK
  <1>4. CASE c \in Welcome /\ c.kind = Current.kind /\ c.request = Current.request
             /\ c.carries = Current.carries
    <2>1. (Stored(c) <=> Stored(Current)) /\ c.from = Current.from
      BY <1>1, <1>2, <1>3, <1>4, AlikeStoreTheSame
    <2>. QED  BY <1>2, <1>4, <2>1 DEF Settled, Welcome
  <1>5. CASE ~(c \in Welcome /\ c.kind = Current.kind /\ c.request = Current.request
               /\ c.carries = Current.carries)
    BY <1>2, <1>5 DEF Eclipsed
  <1>. QED  BY <1>4, <1>5

LEMMA AckedKeptStep ==
    ASSUME Shape, [Next]_vars, AckedKept, SeenKept, RowsKept
    PROVE  AckedKept'
  <1>0. /\ unread' \subseteq unread /\ messages' = messages /\ Welcome' = Welcome /\ TypeOK
    BY UnreadShrinks, SameKeys DEF Shape
  <1>. SUFFICES ASSUME NEW m \in messages \ unread', Admissible(m)
                PROVE  Settled(m)' \/ Eclipsed(m, Welcome)'
    BY <1>0 DEF AckedKept
  <1>1. Settled(m) => Settled(m)'
    BY StoredStays
  <1>2. Eclipsed(m, Welcome) => Eclipsed(m, Welcome)'
    BY <1>0 DEF Eclipsed
  <1>3. CASE m \notin unread
    BY <1>1, <1>2, <1>3 DEF AckedKept
  <1>4. CASE m \in unread
    <2>1. unread' # unread
      BY <1>4
    <2>2. CASE Drop
      <3>1. m = Current
        BY <1>0, <1>4, <2>2, Working DEF Drop, Flushed, Return, At
      <3>. QED  BY <1>1, <1>2, <2>2, <3>1, DroppedIsSettled
    <2>3. CASE Finish
      <3>1. m = Current
        BY <1>0, <1>4, <2>3, Working DEF Finish, Return, At
      <3>. QED  BY <1>1, <2>3, <3>1, DoneIsSettled
    <2>4. CASE ApplyPolicy /\ ~(Allowed(Current) /\ Current.from # NoNode) /\ unread' = unread \ job.msg
      <3>1. m = Current
        BY <1>0, <1>4, <2>4, Applying
      <3>. QED  BY <1>1, <2>4, <3>1 DEF Settled
    <2>5. CASE Crash
      BY <2>1, <2>5 DEF Crash
    <2>6. CASE GivesUp
      <3>1. m = Current /\ Key(Current) \in failures'
        BY <1>4, <2>6 DEF GivesUp
      <3>. QED  BY <3>1 DEF Settled
    <2>. QED  BY <2>1, <2>2, <2>3, <2>4, <2>5, <2>6, WaysToReturn
  <1>. QED  BY <1>3, <1>4

LEMMA SeenKeptStep ==
    ASSUME Shape, [Next]_vars, AckedKept, SeenKept, RowsKept
    PROVE  SeenKept'
  <1>0. /\ unread' \subseteq unread /\ messages' = messages /\ TypeOK
    BY UnreadShrinks, SameKeys DEF Shape
  <1>. SUFFICES ASSUME NEW k \in seen', k[2] # 0
                PROVE  \E c \in messages : /\ Key(c) = k /\ Admissible(c)
                                           /\ \/ c \notin unread' /\ Settled(c)'
                                              \/ c \in job'.msg /\ job'.at \in Marked
    BY <1>0 DEF SeenKept
  <1>1. CASE k \notin seen
    <2>1. Admit /\ k = Key(Current)
      BY <1>1, SeenGrowsBy
    <2>2. Current \in messages /\ Current \in job'.msg /\ job'.at \in Marked /\ Admissible(Current)
      BY <1>0, <2>1, Working, AdmitStarts DEF Admit, Flushed, At, Marked
    <2>. QED  BY <2>1, <2>2
  <1>2. CASE k \in seen
    <2>1. PICK c \in messages : /\ Key(c) = k /\ Admissible(c)
                                /\ \/ c \notin unread /\ Settled(c)
                                   \/ c \in job.msg /\ job.at \in Marked
      BY <1>2 DEF SeenKept
    <2>2. CASE c \notin unread /\ Settled(c)
      BY <1>0, <2>1, <2>2, StoredStays
    <2>3. CASE c \in job.msg /\ job.at \in Marked
      <3>1. CASE job'.at \in Marked /\ job'.msg = job.msg
        BY <2>1, <2>3, <3>1
      <3>2. CASE Drop
        BY <2>3, <3>2 DEF Drop, Flushed, At, Marked
      <3>3. CASE Finish
        <4>1. c = Current /\ unread' = unread \ job.msg
          BY <1>0, <2>3, <3>3, Working DEF Finish, Return, At
        <4>2. Settled(c)'
          BY <3>3, <4>1, DoneIsSettled, StoredStays
        <4>. QED  BY <2>1, <2>3, <4>1, <4>2
      <3>4. CASE ApplyPolicy /\ ~(Allowed(Current) /\ Current.from # NoNode) /\ unread' = unread \ job.msg
        <4>1. c = Current
          BY <1>0, <2>3, <3>4, Applying
        <4>2. Settled(c)'
          BY <3>4, <4>1 DEF Settled
        <4>. QED  BY <2>1, <2>3, <3>4, <4>2
      <3>5. CASE Crash
        BY <3>5 DEF Crash
      <3>6. CASE GivesUp
        <4>1. c = Current /\ Key(Current) \in failures' /\ unread' = unread \ job.msg
          BY <2>3, <3>6 DEF GivesUp
        <4>2. Settled(c)'
          BY <4>1 DEF Settled
        <4>. QED  BY <2>1, <2>3, <4>1, <4>2
      <3>. QED  BY <2>3, <3>1, <3>2, <3>3, <3>4, <3>5, <3>6, WaysToReturn
    <2>. QED  BY <2>1, <2>2, <2>3
  <1>. QED  BY <1>1, <1>2

LEMMA KeptAlways == Spec => []Kept
  <1>1. Init => Kept
    BY DEF Init, Kept, AckedKept, SeenKept, RowsKept, Idle, At
  <1>2. Shape /\ Kept /\ [Next]_vars => Kept'
    BY AckedKeptStep, SeenKeptStep, RowsKeptStep DEF Kept
  <1>. QED  BY <1>1, <1>2, ShapeAlways, PTL DEF Spec

\* Everything an acknowledged message tells is stored, whenever the process stops, however
\* often the filter forgets and whichever calls of the store fail for other packets.
THEOREM AllIsStored == Spec => []NothingLost
  <1>1. Kept => NothingLost
    BY DEF Kept, AckedKept, NothingLost, Settled, Welcome
  <1>. QED  BY <1>1, KeptAlways, PTL

----------------------------------------------------------------------------
(* The log accounts for all                                                *)

\* A lifecycle that is about to be reported is reported, or still about to be, or a call
\* failed for its request or for another packet of the same traceroute.
LEMMA ReportsEnd ==
    ASSUME Shape, [Next]_vars, OwnReports, crashes' = 0, NEW k \in job.reports
    PROVE  \/ lifecycles'[k] >= 1
           \/ k \in job'.reports
           \/ k \in failures'
           \/ \E c \in messages : Traceroute(c) /\ c.request = k[2] /\ Key(c) \in failures'
  <1>0. /\ TypeOK /\ Locals /\ ~Crash
        /\ job.reports # {} /\ k \in Keys /\ lifecycles \in [Keys -> Nat]
    BY CrashesStay, Typed DEF Shape
  <1>1. job.at \in {"flush", "minimal", "lifecycle"}
    BY <1>0 DEF Locals
  <1>2. CASE Report
    <2>1. PICK j \in job.reports : /\ j \in Keys
                                   /\ job'.reports = job.reports \ {j}
                                   /\ lifecycles' = Count(lifecycles, j) \/ j \in failures'
      BY <1>0, <1>2, Reporting
    <2>2. j = k /\ j \notin failures' => lifecycles'[k] = lifecycles[k] + 1 /\ lifecycles[k] \in Nat
      BY <1>0, <2>1, CountAddsOne
    <2>. QED  BY <2>1, <2>2
  <1>3. ASSUME NEW m \in unread, Receive(m)
        PROVE  FALSE
    BY <1>0, <1>3, Receiving
  <1>4. ~Drop /\ ~Admit /\ ~PersistEdges
    BY <1>0 DEF Drop, Admit, PersistEdges, Flushed
  <1>5. ~ApplyPolicy /\ ~UpsertAuthoritative /\ ~Discover /\ ~Dispatch /\ ~StoreRow /\ ~Finish
    BY <1>1 DEF ApplyPolicy, UpsertAuthoritative, Discover, Dispatch, StoreRow, Finish, At
  <1>6. CASE UpsertMinimal
    <2>1. CASE Key(Current) \in failures'
      <3>1. At("minimal") /\ job.msg = {Current} /\ Current \in messages
        BY <1>0, <1>6, Upserting
      <3>2. Traceroute(Current) /\ Current.request = k[2]
        BY <3>1 DEF OwnReports
      <3>. QED  BY <2>1, <3>1, <3>2
    <2>2. CASE job'.reports = job.reports
      BY <2>2
    <2>. QED  BY <1>0, <1>6, <2>1, <2>2, Upserting
  <1>7. LogPacket => job'.reports = job.reports
    BY <1>0, Going DEF LogPacket, KeepsLists
  <1>8. ASSUME NEW j \in seen, Forget(j)
        PROVE  job'.reports = job.reports
    BY <1>8 DEF Forget
  <1>9. UNCHANGED vars => job'.reports = job.reports
    BY DEF vars, volatile
  <1>. QED  BY <1>0, <1>2, <1>3, <1>4, <1>5, <1>6, <1>7, <1>8, <1>9 DEF Next, Handler

\* The tracker ends no entry it does not report, and makes none final that was not open.
LEMMA EntriesEnd ==
    ASSUME Shape, [Next]_vars, crashes' = 0, NEW i \in RequestIds
    PROVE  /\ Open(i) => Open(i)' \/ tracker[i].key \in job'.reports
           /\ Final(i)' => Final(i) \/ Open(i)
  <1>0. TypeOK /\ ~Crash
    BY CrashesStay DEF Shape
  <1>1. CASE UNCHANGED tracker
    BY <1>1 DEF Open, Final
  <1>2. ASSUME NEW m \in unread, Receive(m)
        PROVE  /\ Open(i) => Open(i)' \/ tracker[i].key \in job'.reports
               /\ Final(i)' => Final(i) \/ Open(i)
    <2>1. CASE tracker'[i] = NoEntry /\ ~Open(i)
      BY <2>1, EntryFields DEF Final
    <2>2. CASE tracker'[i] = tracker[i]
      BY <2>2 DEF Open, Final
    <2>3. CASE Open(i) /\ tracker[i].key \in job'.reports
      BY <2>3
    <2>. QED  BY <1>0, <1>2, <2>1, <2>2, <2>3, SweepEnds
  <1>3. CASE Admit
    <2>1. Current \in messages /\ Current.request \in RequestIds /\ Key(Current) \in Keys
          /\ tracker \in [RequestIds -> Entries]
      BY <1>0, <1>3, Working, TrackerIsTable DEF Admit, Flushed, At
    <2>2. CASE UNCHANGED tracker
      BY <1>1, <2>2
    <2>3. CASE tracker' = [tracker EXCEPT ![Current.request] = [key |-> Key(Current), final |-> FALSE]]
      <3>1. CASE i = Current.request
        <4>1. tracker'[i] = [key |-> Key(Current), final |-> FALSE]
          BY <2>1, <2>3, <3>1
        <4>2. tracker'[i] # NoEntry /\ ~tracker'[i].final
          BY <2>1, <4>1, EntryFields
        <4>. QED  BY <4>2 DEF Open, Final
      <3>2. CASE i # Current.request
        <4>1. tracker'[i] = tracker[i]
          BY <2>1, <2>3, <3>2
        <4>. QED  BY <4>1 DEF Open, Final
      <3>. QED  BY <3>1, <3>2
    <2>4. CASE /\ Open(Current.request)
               /\ tracker' = [tracker EXCEPT ![Current.request] =
                                [key |-> tracker[Current.request].key, final |-> TRUE]]
               /\ job'.reports = {tracker[Current.request].key}
      <3>1. CASE i = Current.request
        BY <2>4, <3>1
      <3>2. CASE i # Current.request
        <4>1. tracker'[i] = tracker[i]
          BY <2>1, <2>4, <3>2
        <4>. QED  BY <4>1 DEF Open, Final
      <3>. QED  BY <3>1, <3>2
    <2>. QED  BY <1>0, <1>3, <2>1, <2>2, <2>3, <2>4, AdmitStarts, TrackerTakes
  <1>4. Report \/ Drop \/ UpsertMinimal \/ LogPacket \/ PersistEdges \/ ApplyPolicy
        \/ UpsertAuthoritative \/ Discover \/ Dispatch \/ StoreRow \/ Finish \/ UNCHANGED vars
           => UNCHANGED tracker
    BY DEF Report, Drop, UpsertMinimal, LogPacket, PersistEdges, ApplyPolicy, UpsertAuthoritative,
           Discover, Dispatch, StoreRow, Finish, vars, volatile
  <1>5. ASSUME NEW j \in seen, Forget(j)
        PROVE  UNCHANGED tracker
    BY <1>5 DEF Forget
  <1>. QED  BY <1>0, <1>1, <1>2, <1>3, <1>4, <1>5 DEF Next, Handler

LEMMA SpokenStays ==
    ASSUME Shape, [Next]_vars, OwnReports, crashes' = 0, NEW i \in RequestIds, Spoken(i)
    PROVE  Spoken(i)'
  <1>0. messages' = messages /\ TypeOK
    BY SameKeys DEF Shape
  <1>1. CASE Open(i)
    <2>1. CASE Open(i)'
      BY <2>1 DEF Spoken
    <2>2. CASE tracker[i].key \in job'.reports
      <3>1. PICK r \in messages : r.kind = "request" /\ r.request = i /\ tracker[i].key = Key(r)
        BY <1>1 DEF Open, Shape, Requested
      <3>. QED  BY <1>0, <2>2, <3>1 DEF Spoken
    <2>. QED  BY <1>1, <2>1, <2>2, EntriesEnd
  <1>2. ASSUME NEW r \in messages, r.kind = "request", r.request = i,
               lifecycles[Key(r)] >= 1 \/ Key(r) \in job.reports
        PROVE  Spoken(i)'
    <2>1. Key(r) \in Keys /\ lifecycles[Key(r)] \in Nat /\ lifecycles'[Key(r)] \in Nat
      <3>1. Key(r) \in Keys /\ TypeOK'
        BY <1>0, Published, ShapeStep DEF Shape, TypeOK
      <3>2. lifecycles \in [Keys -> Nat] /\ lifecycles' \in [Keys -> Nat]
        BY <1>0, <3>1, SameKeys DEF TypeOK
      <3>. QED  BY <3>1, <3>2
    <2>2. lifecycles'[Key(r)] >= lifecycles[Key(r)]
      BY <2>1, TablesGrow
    <2>3. PICK k \in Keys : k = Key(r)
      BY <2>1
    <2>4. k[2] = i /\ Traceroute(r)
      BY <1>0, <1>2, <2>3, Published, KeyFields DEF TypeOK, Traceroute
    <2>5. \/ lifecycles'[k] >= 1
          \/ k \in job'.reports
          \/ \E c \in messages : Traceroute(c) /\ c.request = i /\ Key(c) \in failures'
      <3>1. CASE lifecycles[k] >= 1
        BY <2>1, <2>2, <2>3, <3>1
      <3>2. CASE k \in job.reports
        <4>1. CASE k \in failures'
          BY <1>2, <2>3, <2>4, <4>1
        <4>2. CASE k \notin failures'
          BY <2>4, <3>2, <4>2, ReportsEnd
        <4>. QED  BY <4>1, <4>2
      <3>. QED  BY <1>2, <2>3, <3>1, <3>2
    <2>. QED  BY <1>0, <1>2, <2>3, <2>5 DEF Spoken
  <1>3. ASSUME NEW c \in messages, Traceroute(c), c.request = i, Key(c) \in failures
        PROVE  Spoken(i)'
    <2>1. Key(c) \in failures'
      BY <1>3, FailuresGrow
    <2>. QED  BY <1>0, <1>3, <2>1 DEF Spoken
  <1>. QED  BY <1>1, <1>2, <1>3 DEF Spoken

LEMMA VisibleStays ==
    ASSUME Shape, [Next]_vars, OwnReports, crashes' = 0, NEW m \in messages, Visible(m)
    PROVE  Visible(m)'
  <1>1. Key(m) \in Keys /\ m.request \in RequestIds /\ TypeOK /\ TypeOK'
    BY Published, ShapeStep DEF Shape, TypeOK
  <1>2. packetLog[Key(m)] \in Nat /\ packetLog'[Key(m)] \in Nat
    <2>1. packetLog \in [Keys -> Nat] /\ packetLog' \in [Keys -> Nat]
      BY <1>1, SameKeys DEF TypeOK
    <2>. QED  BY <1>1, <2>1
  <1>3. packetLog'[Key(m)] >= packetLog[Key(m)]
    BY <1>1, TablesGrow
  <1>4. failures \subseteq failures'
    BY FailuresGrow
  <1>. QED  BY <1>1, <1>2, <1>3, <1>4, SpokenStays DEF Visible

LEMMA FinalSpokenStep ==
    ASSUME Shape, [Next]_vars, OwnReports, crashes' = 0, FinalSpoken
    PROVE  FinalSpoken'
  <1>. SUFFICES ASSUME NEW i \in RequestIds, Final(i)'
                PROVE  Spoken(i)'
    BY SameKeys DEF FinalSpoken
  <1>1. Spoken(i)
    BY EntriesEnd DEF FinalSpoken, Spoken
  <1>. QED  BY <1>1, SpokenStays

\* What the tracker keeps out of the log belongs to a traceroute that is spoken for.
LEMMA SuppressedIsSpoken ==
    ASSUME Shape, [Next]_vars, OwnReports, crashes' = 0, FinalSpoken, Admit,
           NEW m \in messages, m = Current, LogAllowed(m), job'.suppress
    PROVE  Traceroute(m) /\ Spoken(m.request)'
  <1>0. TypeOK /\ Key(m) \in Keys /\ tracker \in [RequestIds -> Entries]
    BY Published, TrackerIsTable DEF Shape, TypeOK
  <1>1. PICK i \in RequestIds : i = m.request
    BY <1>0, Published DEF TypeOK
  <1>2. tracker' = Tracked(m).table /\ Tracked(m).suppress
    BY <1>0, AdmitStarts
  <1>3. CASE /\ m.kind = "request"
             /\ tracker' = [tracker EXCEPT ![i] = [key |-> Key(m), final |-> FALSE]]
    <2>1. tracker'[i] = [key |-> Key(m), final |-> FALSE]
      BY <1>0, <1>3
    <2>2. tracker'[i] # NoEntry /\ ~tracker'[i].final
      BY <1>0, <2>1, EntryFields
    <2>3. Spoken(i)'
      BY <2>2 DEF Spoken, Open
    <2>. QED  BY <1>1, <1>3, <2>3 DEF Traceroute
  <1>4. CASE m.kind \in {"reply", "routing_error"} /\ Open(i)
    <2>1. Spoken(i)'
      BY <1>4, SpokenStays DEF Spoken
    <2>. QED  BY <1>1, <1>4, <2>1 DEF Traceroute
  <1>5. CASE Traceroute(m) /\ tracker[i] # NoEntry
    <2>1. Open(i) \/ Final(i)
      BY <1>0, <1>5, TrackerIsTable
    <2>2. Spoken(i)
      BY <2>1 DEF FinalSpoken, Spoken
    <2>. QED  BY <1>1, <1>5, <2>2, SpokenStays
  <1>6. \/ /\ m.kind = "request"
           /\ tracker' = [tracker EXCEPT ![i] = [key |-> Key(m), final |-> FALSE]]
        \/ m.kind \in {"reply", "routing_error"} /\ Open(i)
        \/ Traceroute(m) /\ tracker[i] # NoEntry
    BY <1>0, <1>1, <1>2, TrackerTakes
  <1>. QED  BY <1>3, <1>4, <1>5, <1>6

\* How the handler comes past the log.
LEMMA WaysPastLog ==
    ASSUME Shape, [Next]_vars, job'.at \in Logged
    PROVE  \/ job.at \in Logged /\ job'.msg = job.msg
           \/ LogPacket
           \/ Admit /\ ~LogAllowed(Current)
  <1>0. TypeOK /\ ~Crash
    BY Returning DEF Shape, Crash, Logged, Marked
  <1>1. ASSUME NEW m \in unread, Receive(m)
        PROVE  FALSE
    BY <1>0, <1>1, Receiving DEF Logged, Marked
  <1>2. Report => job'.at = job.at /\ job'.msg = job.msg
    BY <1>0, Reporting
  <1>3. ~Drop /\ ~Finish
    BY Returning DEF Drop, Finish, Return, Logged, Marked
  <1>4. Admit => ~LogAllowed(Current)
    BY <1>0, AdmitStarts DEF Logged, Marked
  <1>5. UpsertMinimal => job'.at = job.at /\ job'.msg = job.msg
    BY <1>0, Upserting, Returning DEF Logged, Marked
  <1>6. PersistEdges => job.at \in Logged /\ job'.msg = job.msg
    BY <1>0, Persisting, Returning DEF KeepsLists, At, Logged, Marked
  <1>7. ApplyPolicy => job.at \in Logged /\ job'.msg = job.msg
    BY <1>0, Applying, Returning DEF KeepsLists, At, Logged, Marked
  <1>8. UpsertAuthoritative => job.at \in Logged /\ job'.msg = job.msg
    BY <1>0, UpsertingAgain, Returning DEF KeepsLists, At, Logged, Marked
  <1>9. Discover => job.at \in Logged /\ job'.msg = job.msg
    BY <1>0, Going DEF Discover, KeepsLists, At, Logged, Marked
  <1>10. Dispatch => job.at \in Logged /\ job'.msg = job.msg
    BY <1>0, Dispatching DEF At, Logged, Marked
  <1>11. StoreRow => job.at = job'.at /\ job'.msg = job.msg
    BY <1>0, RowsAdvance DEF StoreRow
  <1>12. ASSUME NEW j \in seen, Forget(j)
         PROVE  job.at = job'.at /\ job'.msg = job.msg
    BY <1>12 DEF Forget
  <1>13. UNCHANGED vars => job.at = job'.at /\ job'.msg = job.msg
    BY DEF vars, volatile
  <1>. QED  BY <1>0, <1>1, <1>2, <1>3, <1>4, <1>5, <1>6, <1>7, <1>8, <1>9, <1>10, <1>11, <1>12,
               <1>13 DEF Next, Handler

\* How it comes to the log.
LEMMA WaysToLog ==
    ASSUME Shape, [Next]_vars, job'.at = "minimal"
    PROVE  \/ /\ At("minimal") /\ job'.msg = job.msg /\ job'.suppress = job.suppress
              /\ job'.reports = job.reports
           \/ Admit /\ LogAllowed(Current) /\ job'.msg = job.msg
  <1>0. TypeOK /\ ~Crash
    BY Returning DEF Shape, Crash
  <1>1. ASSUME NEW m \in unread, Receive(m)
        PROVE  FALSE
    BY <1>0, <1>1, Receiving
  <1>2. ~Report
    BY <1>0, Reporting
  <1>3. ~Drop /\ ~Finish
    BY Returning DEF Drop, Finish, Return
  <1>4. Admit => LogAllowed(Current) /\ job'.msg = job.msg
    BY <1>0, AdmitStarts
  <1>5. UpsertMinimal => /\ At("minimal") /\ job'.msg = job.msg /\ job'.suppress = job.suppress
                         /\ job'.reports = job.reports
    BY <1>0, Upserting, Returning
  <1>6. ~LogPacket /\ ~Discover
    BY <1>0, Going DEF LogPacket, Discover
  <1>7. ~PersistEdges
    BY <1>0, Persisting, Returning
  <1>8. ~ApplyPolicy
    BY <1>0, Applying, Returning
  <1>9. ~UpsertAuthoritative
    BY <1>0, UpsertingAgain, Returning
  <1>10. ~Dispatch
    BY <1>0, Dispatching
  <1>11. ~StoreRow
    BY <1>0, RowsAdvance DEF StoreRow, At
  <1>12. (\E j \in seen : Forget(j)) \/ UNCHANGED vars =>
             /\ At("minimal") /\ job'.msg = job.msg /\ job'.suppress = job.suppress
             /\ job'.reports = job.reports
    BY DEF Forget, vars, volatile, At
  <1>. QED  BY <1>0, <1>1, <1>2, <1>3, <1>4, <1>5, <1>6, <1>7, <1>8, <1>9, <1>10, <1>11, <1>12
            DEF Next, Handler

\* What the tracker wants reported on account of a packet is what the packet names.
LEMMA OwnReportsStep ==
    ASSUME Shape, [Next]_vars, OwnReports
    PROVE  OwnReports'
  <1>. SUFFICES ASSUME job'.at = "minimal", NEW m \in job'.msg, NEW k \in job'.reports
                PROVE  Traceroute(m) /\ m.request = k[2]
    BY DEF OwnReports, At
  <1>0. TypeOK
    BY DEF Shape
  <1>1. CASE At("minimal") /\ job'.msg = job.msg /\ job'.reports = job.reports
    BY <1>1 DEF OwnReports
  <1>2. CASE Admit /\ LogAllowed(Current) /\ job'.msg = job.msg
    <2>1. m = Current /\ m \in messages /\ m.request \in RequestIds
      BY <1>0, <1>2, Working DEF Admit, Flushed, At
    <2>2. PICK i \in RequestIds : i = m.request
      BY <2>1
    <2>3. job'.reports = Tracked(m).reports
      BY <1>0, <1>2, <2>1, AdmitStarts
    <2>4. m.kind \in {"reply", "routing_error"} /\ Open(i) /\ k = tracker[i].key
      BY <1>0, <2>1, <2>2, <2>3, TrackerTakes
    <2>5. PICK r \in messages : r.kind = "request" /\ r.request = i /\ tracker[i].key = Key(r)
      BY <2>4 DEF Open, Shape, Requested
    <2>6. k[2] = i
      BY <1>0, <2>4, <2>5, Published, KeyFields DEF TypeOK
    <2>. QED  BY <2>2, <2>4, <2>6 DEF Traceroute
  <1>. QED  BY <1>1, <1>2, WaysToLog

LEMMA JobVisibleStep ==
    ASSUME Shape, [Next]_vars, OwnReports, crashes' = 0, FinalSpoken, JobVisible
    PROVE  JobVisible'
  <1>0. TypeOK /\ (\A m \in job.msg : m \in messages /\ m.request \in RequestIds)
    BY Published DEF Shape, TypeOK, Job
  <1>. SUFFICES ASSUME NEW m \in job'.msg
                PROVE  /\ job'.at \in Logged => Visible(m)'
                       /\ job'.at = "minimal" /\ job'.suppress => Traceroute(m) /\ Spoken(m.request)'
    BY DEF JobVisible, At
  <1>1. ASSUME job'.at \in Logged
        PROVE  Visible(m)'
    <2>1. CASE job.at \in Logged /\ job'.msg = job.msg
      BY <1>0, <2>1, VisibleStays DEF JobVisible
    <2>2. CASE LogPacket
      <3>1. /\ At("minimal") /\ job.msg = {Current} /\ job'.msg = job.msg
            /\ Key(Current) \in Keys /\ packetLog \in [Keys -> Nat] /\ m = Current
        BY <1>0, <2>2, Working, Going, Typed DEF LogPacket, At, KeepsLists
      <3>2. CASE ~Loggable(m)
        BY <3>2 DEF Visible
      <3>3. CASE Loggable(m) /\ job.suppress
        <4>1. Traceroute(m) /\ Spoken(m.request)
          BY <3>1, <3>3 DEF JobVisible
        <4>2. Spoken(m.request)'
          BY <1>0, <3>1, <4>1, SpokenStays
        <4>. QED  BY <4>1, <4>2 DEF Visible
      <3>4. CASE Loggable(m) /\ ~job.suppress
        <4>1. packetLog' = Count(packetLog, Key(m)) \/ Key(m) \in failures'
          BY <1>0, <2>2, <3>1, <3>4 DEF LogPacket, Fails
        <4>2. CASE packetLog' = Count(packetLog, Key(m))
          <5>1. packetLog'[Key(m)] = packetLog[Key(m)] + 1 /\ packetLog[Key(m)] \in Nat
            BY <3>1, <4>2, CountAddsOne
          <5>. QED  BY <5>1 DEF Visible
        <4>3. CASE Key(m) \in failures'
          BY <4>3 DEF Visible
        <4>. QED  BY <4>1, <4>2, <4>3
      <3>. QED  BY <3>2, <3>3, <3>4
    <2>3. CASE Admit /\ ~LogAllowed(Current)
      <3>1. m = Current
        BY <1>0, <2>3, Working, AdmitStarts DEF Admit, Flushed, At
      <3>. QED  BY <2>3, <3>1 DEF Visible
    <2>. QED  BY <1>1, <2>1, <2>2, <2>3, WaysPastLog
  <1>2. ASSUME job'.at = "minimal", job'.suppress
        PROVE  Traceroute(m) /\ Spoken(m.request)'
    <2>1. CASE At("minimal") /\ job'.msg = job.msg /\ job'.suppress = job.suppress
      BY <1>0, <1>2, <2>1, SpokenStays DEF JobVisible
    <2>2. CASE Admit /\ LogAllowed(Current) /\ job'.msg = job.msg
      <3>1. m = Current /\ m \in messages
        BY <1>0, <2>2, Working DEF Admit, Flushed, At
      <3>2. LogAllowed(m)
        BY <2>2, <3>1
      <3>. QED  BY <1>2, <2>2, <3>1, <3>2, SuppressedIsSpoken
    <2>. QED  BY <1>2, <2>1, <2>2, WaysToLog
  <1>. QED  BY <1>1, <1>2

\* What is dropped has a copy that was handled, and is shown as it is or eclipsed by it.
LEMMA DroppedIsVisible ==
    ASSUME Shape, SeenVisible, Drop, Admissible(Current)
    PROVE  Visible(Current) \/ Eclipsed(Current, LogWelcome)
  <1>1. /\ At("flush") /\ job.msg = {Current}
        /\ Key(Current) \in seen /\ Current.id # 0
    BY Working DEF Drop, Flushed, Shape, At, Duplicate
  <1>2. PICK c \in messages : Key(c) = Key(Current) /\ Admissible(c) /\ c \notin unread /\ Visible(c)
    BY <1>1, KeyFields DEF SeenVisible, Marked, At
  <1>3. CASE c \in LogWelcome /\ c.kind = Current.kind /\ c.request = Current.request
    <2>1. LogAllowed(c) /\ (Loggable(c) <=> Loggable(Current))
          /\ (Traceroute(c) <=> Traceroute(Current))
      BY <1>3 DEF LogWelcome, Loggable, Traceroute
    <2>. QED  BY <1>2, <1>3, <2>1 DEF Visible
  <1>4. CASE ~(c \in LogWelcome /\ c.kind = Current.kind /\ c.request = Current.request)
    BY <1>2, <1>4 DEF Eclipsed
  <1>. QED  BY <1>3, <1>4

\* The handler gives a message back only dropped or past the log.
LEMMA ReturnedIsVisible ==
    ASSUME Shape, [Next]_vars, OwnReports, crashes' = 0, JobVisible, unread' # unread
    PROVE  /\ job.msg = {Current}
           /\ unread' = unread \ job.msg
           /\ Drop \/ Visible(Current) \/ Key(Current) \in failures'
  <1>0. TypeOK /\ ~Crash
    BY CrashesStay DEF Shape
  <1>1. CASE Drop
    BY <1>0, <1>1, Working DEF Drop, Flushed, Return, At
  <1>2. CASE Finish
    <2>1. At("rows") /\ job.msg = {Current} /\ unread' = unread \ job.msg
      BY <1>0, <1>2, Working DEF Finish, Return, At
    <2>. QED  BY <2>1 DEF JobVisible, Logged, Marked, At
  <1>3. CASE ApplyPolicy /\ unread' = unread \ job.msg
    <2>1. At("policy") /\ job.msg = {Current}
      BY <1>0, <1>3, Applying
    <2>. QED  BY <1>3, <2>1 DEF JobVisible, Logged, Marked, At
  <1>4. CASE GivesUp
    BY <1>4 DEF GivesUp
  <1>. QED  BY <1>0, <1>1, <1>2, <1>3, <1>4, WaysToReturn

LEMMA AckedVisibleStep ==
    ASSUME Shape, [Next]_vars, OwnReports, crashes' = 0, AckedVisible, SeenVisible, JobVisible
    PROVE  AckedVisible'
  <1>0. unread' \subseteq unread /\ messages' = messages /\ LogWelcome' = LogWelcome
    BY UnreadShrinks, SameKeys
  <1>. SUFFICES ASSUME NEW m \in messages \ unread', Admissible(m)
                PROVE  Visible(m)' \/ Eclipsed(m, LogWelcome)'
    BY <1>0 DEF AckedVisible
  <1>1. Eclipsed(m, LogWelcome) => Eclipsed(m, LogWelcome)'
    BY <1>0 DEF Eclipsed
  <1>2. CASE m \notin unread
    BY <1>1, <1>2, VisibleStays DEF AckedVisible
  <1>3. CASE m \in unread
    <2>1. m = Current /\ (Drop \/ Visible(Current) \/ Key(Current) \in failures')
      BY <1>3, ReturnedIsVisible
    <2>2. CASE Key(m) \in failures'
      BY <2>2 DEF Visible
    <2>3. CASE Key(m) \notin failures'
      <3>1. Visible(m) \/ Eclipsed(m, LogWelcome)
        BY <2>1, <2>3, DroppedIsVisible
      <3>. QED  BY <1>1, <3>1, VisibleStays
    <2>. QED  BY <2>2, <2>3
  <1>. QED  BY <1>2, <1>3

LEMMA SeenVisibleStep ==
    ASSUME Shape, [Next]_vars, OwnReports, crashes' = 0, SeenVisible, JobVisible
    PROVE  SeenVisible'
  <1>0. /\ unread' \subseteq unread /\ messages' = messages /\ TypeOK /\ ~Crash
    BY UnreadShrinks, SameKeys, CrashesStay DEF Shape
  <1>. SUFFICES ASSUME NEW k \in seen', k[2] # 0
                PROVE  \E c \in messages : /\ Key(c) = k /\ Admissible(c)
                                           /\ \/ c \notin unread' /\ Visible(c)'
                                              \/ c \in job'.msg /\ job'.at \in Marked
    BY <1>0 DEF SeenVisible
  <1>1. CASE k \notin seen
    <2>1. Admit /\ k = Key(Current)
      BY <1>1, SeenGrowsBy
    <2>2. Current \in messages /\ Current \in job'.msg /\ job'.at \in Marked /\ Admissible(Current)
      BY <1>0, <2>1, Working, AdmitStarts DEF Admit, Flushed, At, Marked
    <2>. QED  BY <2>1, <2>2
  <1>2. CASE k \in seen
    <2>1. PICK c \in messages : /\ Key(c) = k /\ Admissible(c)
                                /\ \/ c \notin unread /\ Visible(c)
                                   \/ c \in job.msg /\ job.at \in Marked
      BY <1>2 DEF SeenVisible
    <2>2. CASE c \notin unread /\ Visible(c)
      BY <1>0, <2>1, <2>2, VisibleStays
    <2>3. CASE c \in job.msg /\ job.at \in Marked
      <3>1. CASE job'.at \in Marked /\ job'.msg = job.msg
        BY <2>1, <2>3, <3>1
      <3>2. CASE unread' = unread \ job.msg /\ (Finish \/ ApplyPolicy)
        <4>1. job.msg = {Current} /\ job.at \in {"rows", "policy"}
          BY <1>0, <3>2, Working, Applying DEF Finish, At
        <4>2. Visible(c)'
          BY <2>1, <2>3, <4>1, VisibleStays DEF JobVisible, Logged, Marked
        <4>. QED  BY <2>1, <2>3, <3>2, <4>2
      <3>3. ~Drop /\ (Finish => unread' = unread \ job.msg)
        BY <2>3 DEF Drop, Finish, Return, Flushed, At, Marked
      <3>4. CASE GivesUp
        <4>1. c = Current /\ Key(Current) \in failures' /\ unread' = unread \ job.msg
          BY <2>3, <3>4 DEF GivesUp
        <4>2. Visible(c)'
          BY <4>1 DEF Visible
        <4>. QED  BY <2>1, <2>3, <4>1, <4>2
      <3>. QED  BY <1>0, <2>3, <3>1, <3>2, <3>3, <3>4, WaysToReturn
    <2>. QED  BY <2>1, <2>2, <2>3
  <1>. QED  BY <1>1, <1>2

LEMMA AccountedAlways == Spec => []Accounted
  <1>1. Init => Accounted
    <2>1. Init => OwnReports
      BY DEF Init, OwnReports, Idle, At
    <2>2. Init => Visibility
      BY DEF Init, Visibility, FinalSpoken, AckedVisible, SeenVisible, JobVisible, Idle, Final, NoEntry
    <2>. QED  BY <2>1, <2>2 DEF Accounted
  <1>2. Shape /\ Accounted /\ [Next]_vars => Accounted'
    <2>. SUFFICES ASSUME Shape, Accounted, [Next]_vars
                  PROVE  OwnReports' /\ (crashes' = 0 => Visibility')
      BY DEF Accounted
    <2>1. OwnReports
      BY DEF Accounted
    <2>2. ASSUME crashes' = 0
          PROVE  Visibility'
      <3>1. FinalSpoken /\ AckedVisible /\ SeenVisible /\ JobVisible
        BY <2>2, CrashesStay DEF Accounted, Visibility
      <3>. QED  BY <2>1, <2>2, <3>1, FinalSpokenStep, AckedVisibleStep, SeenVisibleStep, JobVisibleStep
                DEF Visibility
    <2>. QED  BY <2>1, <2>2, OwnReportsStep
  <1>. QED  BY <1>1, <1>2, ShapeAlways, PTL DEF Spec

\* What the tracker keeps out of the log is not lost to its reader: after a handler every
\* packet the log may show has its row, or its traceroute has one, or is open; a call of the
\* store that fails hides its own packet, or packets of the traceroute it was made for.
THEOREM LogIsComplete == Spec => []LogAccountsForAll
  <1>1. Shape /\ Accounted => LogAccountsForAll
    <2>. SUFFICES ASSUME Shape, Accounted, At("idle"), crashes = 0,
                         NEW m \in messages \ unread, Admissible(m), LogAllowed(m), Loggable(m)
                  PROVE  \/ packetLog[Key(m)] >= 1
                         \/ Traceroute(m) /\ (SpokenFor(m) \/ Struck(m))
                         \/ Key(m) \in failures
                         \/ Eclipsed(m, LogWelcome)
      BY DEF LogAccountsForAll, LogWelcome
    <2>1. job.reports = {}
      BY DEF Shape, TypeOK, Idle
    <2>2. Spoken(m.request) => SpokenFor(m) \/ Struck(m)
      BY <2>1 DEF Spoken, SpokenFor, Struck
    <2>3. AckedVisible
      BY DEF Accounted, Visibility
    <2>. QED  BY <2>2, <2>3 DEF AckedVisible, Visible
  <1>. QED  BY <1>1, ShapeAlways, AccountedAlways, PTL

=============================================================================
