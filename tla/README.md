# A formal model of meshmap-lite

meshmap-lite listens to a Meshtastic MQTT broker, keeps what it hears in SQLite and
shows it on a map, in a chat, in a log and in statistics. It is one Go process with
one SQLite connection, and a web client. This directory holds TLA+ modules of the
parts of both whose behaviour over time can go wrong, TLC configurations that check
them on small instances, and TLAPS proofs for every value of their constants.

Paths below are relative to the root of the repository.

1. [The system](#1-the-system)
2. [The modules and the code](#2-the-modules-and-the-code)
3. [What the runs check](#3-what-the-runs-check)
4. [Fairness](#4-fairness)
5. [What is proved](#5-what-is-proved)
6. [Where code and documents disagree](#6-where-code-and-documents-disagree)
7. [What is not modelled](#7-what-is-not-modelled)
8. [Plan](#8-plan)
9. [Running it](#9-running-it)

## 1. The system

    broker --> MQTT client --> ingest.Service --> sqlite.Store <-- HTTP endpoints <-- browser
                                |   |    |            ^  ^               ^   (caches)    ^
                       dedup <--+   |    +--> hub ----|--|---------------|---------------+
              traceroute tracker <--+                 |  |               |   (websocket)
                             snapshot jobs (firmware, hardware) -- OnSnapshot

Goroutines: the MQTT client's callback goroutine, which runs the whole of
`HandleMessage` for one message after another; one per HTTP request; one per
websocket client; the two snapshot jobs; the update check; the heartbeat ticker.
They meet in the store (a single connection, so statements are serial, not
handlers), in the hub, in the response caches and in the update manager. The web client
has one thread, and what overlaps there are requests under way, effects that run a while
after the change that calls for them, timers, and the events of the websocket.

| component | state it keeps | operations | what is hard | what makes it correct |
| --- | --- | --- | --- | --- |
| duplicate filter `internal/dedup` | a list of keys, the last asked first, and a map into it | `CheckAndMark` | wall clock going back, expiry beside eviction | says "duplicate" exactly for a key asked within the time to live and among the last `Size` keys; list and map agree |
| traceroute tracker `internal/ingest/traceroute_tracker.go` | request id -> entry with status and two times | `OnRequest`, `OnReply`, `OnRouting`, `Sweep` | reply, error and timeout race; ids are reused; the table is full; the clock goes back | at most one lifecycle event for a request; nothing lost but under pressure; entries are released |
| ingest `internal/ingest/service.go` | none of its own; uses filter, tracker and store | `HandleMessage` with up to a dozen store calls | a call that fails in the middle, a crash and a redelivery, copies over several gateways in any order | announced, stored and logged once; nothing acknowledged is lost, and a call that fails costs its own packet only; edges and the log refer to nodes that exist |
| event log `sqlite/logs.go` | table `log_events`, the id of the next prune | `InsertLogEvent`, `ListLogEvents` | a failed prune, a restart that forgets the threshold, a client paging meanwhile | bounded; the newest rows stay; paging shows each row once |
| snapshot jobs `internal/stats` | tables `node_firmware_history`, `node_hardware_history`; a timer | `Start`, `runOnceResult`, `nextWait` | a round over the boundary of a week, a stop between insert and callback, a clock set back | a week is recorded once, in order, and none is slept through |
| statistics endpoints `internal/api/http/firmware.go`, `hardware.go`, `cache.go` | a cache with a time to live | history, snapshot, invalidation | query and `Set` are not one step | an answer is stale only for a bounded time and only because of a race |
| node tables `sqlite/nodes.go`, `telemetry.go`, `domain/merge.go` | nodes, positions, telemetry, names | upserts and merges | an old or partial packet against a newer row; a dropped read error | values never go back to older ones; the name history has each name once |
| topology `sqlite/topology.go`, `neighbors.go` | edges between nodes, by channel | `UpsertTopologyEdges` and queries | foreign keys, reuse of an edge, observations out of order | each edge refers to rows; first and last seen are ordered |
| chat table `sqlite/chat.go` | messages and announcements of nodes | insert, list | paging as in the log | as in the log |
| MQTT client `internal/mqttclient` | the lifecycle state | `Start`, its callbacks | a connect that times out and then succeeds | the status tells of the last thing that happened |
| websocket hub `internal/api/ws` | the set of clients | `register`, `Emit`, `unregister` | a snapshot of clients used outside the lock, a write that fails | a client gets the events of a goroutine in order and without a gap; dead clients go |
| update check `internal/updatecheck` | the last snapshot of each source, a cache, subscribers | `fetch`, `Subscribe`, `publish`, `unsubscribe` | a slow subscriber is pruned and not told; cache and publication are two steps | no send on a closed channel; nobody but the pruned misses a snapshot for good |
| migrations `sqlite/migrations` | the version of the schema | `Apply` | a stop between two statements, databases without a version, an older release on a newer file | each step is applied exactly once |
| read endpoints `internal/api/http` | caches of activity and topology | queries | a query outside the lock of its slot, a clock set back | an answer fits the question it is given to, and no older one takes its place |
| navigation `App.tsx`, `utils/urlState.ts` | the page, its filters, the fragment of the URL | a dozen handlers; back, forward, an edited address, a reload | each handler changes some of the state and writes the URL from the rest, also before the bootstrap is done | a reload, a link and a step back show what was shown |
| map `maps/leafletMap.ts`, `MapPage.tsx` | selection, popups, clusters, circles, markers, lines | select, hover, zoom, place nodes, prune | a popup that closes for another calls back, a zoom opens its popup late; ages are rendered once a minute | the popup, the URL and the store name the same node; a marker is as fresh as its node |
| all links `stores/topologyAll.ts`, `leafletMap.ts` | mode, links, error, lines on the map | turn on and off, refresh, leave the map, place nodes | requests are never aborted and come in any order; lines are drawn once, from the positions of that moment | the links were asked for since the mode was turned on; the lines are those of the links, as far as the map had the nodes |
| node details `utils/nodeDetailsCache.ts`, `App.tsx`, `NodesPage.tsx` | a cache, the requests under way, the node shown | select, hover, merge the neighbours of both ends | a request that was aborted is handed out again; answers come in any order; names are known from three places | what is shown is of the selected node, and comes in the end |
| node store `stores/nodes.ts`, `utils/relevance.ts` | nodes on the map, summaries | bootstrap, live upserts, pruning | late answers and lost events beside a pruning by age | what is recent is shown, what is old goes |
| chat `stores/chat.ts`, `utils/chat.ts` | messages of a channel | load, older page, live row | an answer for a channel that was left; the page overwrites what came live | the list is that of the channel, without holes; every row is told once |
| log `LogPage.tsx`, `stores/log.ts` and its views | rows, filters, the opened event | load, older page, live row, set a filter | filters are decided twice, in SQL and in the browser; rows fall off the end while a page is on its way | each matching row once and in order; every field of an event told |
| statistics page `StatsPage.tsx` | five feeds with timers, one error | load, refresh, plot | a feed that fails starts no timer; a success of another hides the error | the data are as old as they may be; a tooltip says what is plotted |
| notices `AppModal.tsx`, `UpdatesPanel.tsx` | modal, tab, dismissals in cookies | open, change tabs, dismiss | an address, a first visit and stored dismissals each open it; requests are given up | what was dismissed stays so, and what is asked for is shown |
| websocket client `api/ws.ts` | the socket, its retries | connect, events, reconnect | what was emitted meanwhile is gone | a gap only where the code leaves one |
| wiring `internal/app`, `cmd/server` | the process | start, shutdown | order of start and stop | every setting reaches its component |
| packet decoding `internal/meshtastic` | none | topic, envelope, payload | none over time | pure functions |
| configuration, logging, static content, debug tool, generated code | none that changes | | | |

`PROJECT.json` lists the same components with what is modelled of each, and every
hazard with the line where it bites.

## 2. The modules and the code

| module | extends / instantiates | what it models |
| --- | --- | --- |
| `RecencyWindow` | | the promise of the duplicate filter, without bookkeeping |
| `Dedup` | instance of `RecencyWindow` | `internal/dedup/store.go`: list, map, expiry, eviction; with all keys ever asked, the refinement |
| `RequestTable` | | the promise of the traceroute tracker: the table of requests, without ages and statuses |
| `TracerouteTracker` | `RequestTable` | `internal/ingest/traceroute_tracker.go`; with the steps of the table, the refinement |
| `Ingest` | `RequestTable` | `internal/ingest/service.go`, with the tables it writes, the broker and the crash |
| `LogStore` | | `internal/persistence/sqlite/logs.go`: insert, prune, a page below a cursor |
| `LogFilters` | | the filters of the log, once as SQL and once as the browser has them |
| `LogTab` | `LogStore`, `LogFilters` | the log page: first page, older pages, live rows, filters |
| `SnapshotJob` | | `internal/stats/firmware_snapshot.go` |
| `StatsCache` | | `internal/api/http/cache.go` as `firmware.go` and `hardware.go` use it |
| `Statistics` | `SnapshotJob`, instance of `StatsCache` | job, cache, requests and process together |
| `ResponseCaches` | | `internal/api/http/topology.go` and `activity.go` |
| `UpdateCheck` | | `internal/updatecheck`: fetching, cache, subscriptions |
| `Migrations` | | `internal/persistence/sqlite/migrations/runner.go` |
| `Hub` | | `internal/api/ws` |
| `MQTTLifecycle` | | the state of `internal/mqttclient` and the library's callbacks |
| `Realtime` | `Hub`, `MQTTLifecycle` | ingest, heartbeat ticker, hub and one browser: `ws.ts`, the stores of chat and status, the chat effect of `App.tsx` |
| `Fragment` | `LogFilters` | `utils/urlState.ts`: parse and serialize |
| `Navigation` | `Fragment` | the handlers of `App.tsx` that change page and URL, and what the browser does to both |
| `MapSelection` | | the selected node in the store, the URL and the popups of `leafletMap.ts` |
| `MapMarkers` | | how fresh a marker looks, from the packet to the icon |
| `TopologyAll` | | the map with all links: its store, effects, cache and layer |
| `NodeLinks` | | the merge of neighbours and the lines drawn of them |
| `NodeDetails` | | the details of the selected and the hovered node, with their cache and requests |
| `NodeNames` | | the history of names, and which name and fields are told of a node |
| `NodeStore` | | `stores/nodes.ts` and the pruning by relevance |
| `ChatTab`, `ChatTimeline` | | the list of a channel; how it is told with reactions and days |
| `LogPage` | `LogFilters` | the controls of the filters, the rows with their days, the opened event and its views |
| `JsonDetails` | | the details of an event as lines of JSON that can be collapsed |
| `StatsPage` | | the feeds of the statistics page; what its charts plot and say |
| `Notices` | | the modal of the site's information and of updates |
| `TableProofs` | `Dedup`, `TracerouteTracker` | proofs about the two tables in memory |
| `IngestProofs`, `StatisticsProofs`, `RealtimeProofs` | the module of that name | the proofs about it and the modules it extends |
| `LogStoreProofs`, `ServiceProofs` | `LogTab`; `MCService` | proofs about `LogStore` and `LogTab`; about `Migrations`, `ResponseCaches`, `UpdateCheck` |
| `ClientProofs` | `TopologyAll`, `MapSelection`, `NodeStore`, `NodeDetails`, `StatsPage`, `Navigation`, `Notices`, `ChatTab` | proofs about them |
| `ViewProofs` | `MapMarkers`, `NodeLinks`, `NodeNames`, `LogPage` | proofs about the marker, the links and the names of a node, and the page of the log |
| `MCTables`, `MCService`, `MCWebClient` | several modules | parts that do not interact, each in behaviours of its own |
| `MCLogTab`, `MCIngest`, `MCRealtime` | the module checked | messages, channels and bounds for TLC |

Operators named "Mutant: ..." are not part of any specification. Each is a plausible
mistake in the definition that follows it; put in its place it must break the
property it is listed with in `PROJECT.json`, which shows that the property is not
true for the wrong reason. A property made of several parts has several of them.

`MCTables`, `MCService` and `MCWebClient` have a variable `part` that is chosen at the
start and never changes: it says which of their modules a behaviour is about, and the
variables of the others stay at one initial value. Nothing is claimed of them together.

### Duplicate filter

`order` is the `container/list`, front first, and `items` the set of keys of the map;
`verdict` is the question last asked and its answer. `CheckAndMark(k, now)` is one call
under the mutex: an entry that has not expired is renewed and moved to the front, an
expired one is removed and the key pushed again, and the back goes while the list is
longer than the capacity. `now` is any instant, since the caller passes wall clock
times (`time.Now().UTC()` has no monotonic reading): the clock may go either way. The
store raises a size below one to one, which is `Capacity`.

### Traceroute tracker

An entry has the request it belongs to, its status, and how long ago it was started and
updated; the code subtracts instants and does nothing else with them. `Tick` makes them
older and `SetBack` younger. `EvictForInsert` gives the set of tables `evictForInsert`
may leave, because the code walks a Go map and takes any of the oldest. `emissions` is a
history variable: how many lifecycle events were returned for each request. Paths and
signal figures are content of the event.

`RequestTable` is what is left of the tracker for the one that calls it: requests under ids,
open or final, and for each operation the table it leaves, whether the packet is kept out of
the log, and which requests it reports. Which open requests are overdue, which final ones are
spent and who is evicted is any choice; that nobody is evicted while there is room is not.
`Outcome` is the tracker's state seen as one of those (a request is known by its number), and
`ImplementsTable` says that every step of the tracker is a step of the table.

### Ingest

`job` is the set of locals of `HandleMessage` and where it is. What happens in memory
between two store calls is one step; every store call is a step that succeeds or fails,
with the code's consequence: an evidence upsert or the topology transaction that fails
ends the handler, a failed log row or announcement is only logged, and a failed row of
the handler of a kind takes those with it that come after an early return (`Given`).
Each path ends in `Return`, because the client acknowledges the message whatever came
of it. `Crash` may happen between any two steps and empties filter, tracker and locals;
the message stays in `unread` and is delivered again (QoS 1, `CleanSession` false).

`failures` is a history: the keys of the packets for which a call failed, a lifecycle row
counting for its request. The bound is on how many packets have failing calls, not on how many
calls fail, and every property is claimed while calls fail: only the packet in hand, or its
traceroute, may be the worse for it. Packets without an id of one sender share a key, and so
do copies of a packet.

Filter and tracker appear here by their contracts, which their own modules show: a set
of keys from which one may be forgotten (`Forget`), and the operations of `RequestTable`, in
which any open request may be overdue and any final one spent at a sweep. A tracker that is
full is not part of `Ingest`; requests without a packet id, which all share the id 0, are left
to `TracerouteTracker` (an assumption of the module says so).

A message is what parsing makes of it: kind, ends, path on the way there and back,
neighbors, and what its rows depend on. Realtime events follow the store calls they
tell of and are left out.

### Event log

`rows` is the set of ids in the table, `lastID` its AUTOINCREMENT counter, `nextPrune`
the threshold in memory, `pc` where `InsertLogEvent` is. The insert commits on its own;
whether a prune is due is decided in memory, and the prune may succeed, fail or be cut
off by a restart, which forgets the threshold. `Pruned` has both offsets of the DELETE.

`LogTab` puts the browser on top. `Page` is `ListLogEvents` with `before_id` and the
WHERE clause, newest first; `request` and `older` are the loads under way, `emitted` the
rows announced, of which `delivered` tells how many came over the socket, `items` the list
that is shown. A handler runs to
its end and the effect its changes call for runs later, so that an answer or a live row
may come between. The filters are modelled twice, as in the code: `StoredMatches` for the
SQL and `LiveMatches` for the browser. `notes` remembers which of the races the code
leaves open has happened, so that the properties can name them and claim the rest.

`LogPage` has the form of the filters (two sliders, a list of kinds, Reset), the table and
the cards with the days above them, and the event that is opened. The details of an event
are the set of the fields the server writes for its kind, and the four views tell of the
fields they name. `JsonDetails` is the raw view: a recursive component, modelled as the
lines it makes of a value for what is collapsed. It is the one module with a `RECURSIVE`
operator, and there are no proofs about it.

### Statistics

`SnapshotJob` has a round as it is in the code: the first reading of the clock and the
look at the table (`Check`), the insert (`Record`), the callback (`Announce`), and the
second reading (`Schedule`), with a stop possible between any two. Statements may fail.
The timer is monotonic, the wall clock may be set back. `StatsCache` has a request as
three steps, the question to the cache, the query and `Set`, which any number of
requests run at the same time. `Statistics` joins them: the callback of the job is the
invalidation of the cache (`app.go`), a tick ages the cache, and a stop of the process
drops cache and requests. The hardware job and endpoint are copies of the firmware ones
with other columns; the map names the lines of the firmware ones.

### Response caches, update check, schema

`ResponseCaches` has a request as its steps: reading the clock, looking at the cache,
querying, writing the cache, answering. The topology has one slot whose key has the
filters and the instant the handler read before, the
activity an entry for each period, loaded one after the other with one reading of the
clock. The clock may be set back between any two steps.

`UpdateCheck` numbers the snapshots of a source. `Fetch` puts one into the cache and
`Publish` sends it to each subscriber, without waiting: one whose channel is full is
dropped from the list. `Subscribe`, `LookAtCache` and `Unsubscribe` come at any time. In the code the handlers only read the cache; subscriptions are made by
tests and offered to later consumers.

`Migrations` is the runner statement by statement: it reads the version, looks for the
tables of a database from before versions, marks it, and applies one step in each
transaction. The process may stop anywhere, and each start may be of another release.

### The web client's parts

- **Navigation**. `app` holds the state the URL is made of, `history` the entries of the
  tab. Each handler is an action with the arguments the pages give it, and writes the
  URL as the code does, by `pushState` or `replaceState` and from the state it was
  rendered with. `late` and `forced` remember an address that was written before the
  bootstrap ended and what the bootstrap set over it. Numbers keep their decimals, and
  an empty text is 0 as `Number` has it.
- **Map**. `MapSelection` runs the adapter's calls to their ends, callbacks included:
  opening a popup first closes the other, whose handler clears the selection. Zooms
  come back later. The map library and the clusters are external and modelled from the
  calls made of them. `MapMarkers` follows one node from the packet the server hears
  (its own over MQTT, heard by a gateway, or merely mentioned) over the event to the
  icon and popup, which are only rendered again by an event, a selection or the pruning.
- **Links**. `TopologyAll` numbers the requests, none of which is aborted, and knows a
  snapshot by the request that brought it. `drawnLinks` is the layer of the map: lines of a
  snapshot from one position to another. `RunTopologyEffects` is one run of the effects of the
  page and of `App.tsx`: the map is made anew, and empty, when meta brings another clustering
  or another mode of the circles (`MapMadeAnew`); the lines are drawn when the mode or the
  snapshot changes or the page is opened (`LinesAreDrawn`), each if both ends have a position
  just then (`Lines`). Nodes that come, move or go later change `nodePositions` and no line.
  `NodeLinks` has the answers for several nodes merged into one cache, both ends of each link.
- **Node details**. `RunDetailsEffects` is one run of the effects of `App.tsx` in their
  order, with the cleanups before. An aborted request is rejected in a later step and
  handed out again until then, as `inFlightNodeDetails` is a map by id.
- **Names**. `NodeNames` has the server's row and its history, the list, the map's
  entry and the details, each read at another time, and the page that chooses.
- **Node store, chat, statistics, notices**: stores and effects in the same manner. Ages
  are counted in ticks, timers in ticks left, and an answer has what the server has as it
  comes. Rows of the chat without a channel, which the discovery of a node by a map report
  writes, are listed with every channel.

### Live updates

`Hub` has a record for each connection: how far `ServeHTTP` is with it, the event of the
connect hook between being built and being written, the frames on their way, and whether
it was closed by the server or broke without a word. `register` comes a step after the
upgrade, because a browser may be told of the upgrade first. `Emit` is a snapshot of
`clients` and then a step for each client of it, in any order; a write that fails
unregisters the client and closes it. Unregistering and the sticky failure of a connection
are one step with the failed write, since no later write can succeed. The timeout of a write
is its failure when `Capacity` frames wait; how long it takes is left out.

`MQTTLifecycle` has the library's connection, the callbacks it still has to make, and
`Start`, whose `WaitTimeout` and the `setLifecycleState` after it are two steps. The
callbacks of one event after another are taken to run in that order; the library gives
each a goroutine, and the code would not notice another order.

`Realtime` puts them between the ingest goroutine, which inserts a message and then emits
it, the ticker, and one browser. The browser starts where the metadata is there: `startWS`
has been called, and the chat effect will ask for the newest page once. `ws` is the socket
with its retries, `messages` the chat store, `shown` the status in the header. The page
takes the place of the messages shown (`setMessages`), live messages are put before them
(`pushChatMessage`), and nothing is asked for again after a reconnection. `mix` bounds what
the environment does in one behaviour.

## 3. What the runs check

All figures are distinct states; each run ends within five minutes with two workers.

| run | checks | bounds | states |
| --- | --- | --- | --- |
| `tables` | `Coherent`, `AnswersLikeWindow`; `ImplementsTable`, `OneLifecycleEach`, `LeavesForReason`, `EverythingReleased`; `ShowsSelected`, `DetailsCome` | filter: 4 keys, a capacity of 2, times 0 to 3, TTL 1. Tracker: 3 ids (0 among them) for a table of 2, timeout 1, retention 1, 3 requests, 1 set-back. Details: 3 nodes, 2 of which the server knows, a cache of 2 | 213,159 |
| `service` | `LooksEveryOtherWeek`, `StaleOnlyByOverlap`, `StaleAtMostTTL`, `WrittenOnce`; `ResponsesRight`; `TellsAndStarts` | statistics: 1 node, 2 requests, weeks of 2 ticks up to tick 6, TTL 2, 1 set-back, 1 failure, 1 stop. Caches: 2 requests at a time, 2 filters, buckets of 1 and 2 instants, 1 set-back. Updates: 2 sources, 2 consumers with channels of 2, 4 snapshots. Schema: 4 steps, 4 starts | 5,470,324 |
| `logtab` | `RowsBounded`, `NewestKept`, `AnnouncedInOrder`; `ShownOnceInOrder`, `NothingSkipped`, `LoadsEnd` | cap 2, batch 2, pages of 2, 12 ids, 2 missed prunes in a row; 3 rows shown, 2 filters, 2 loads of older rows at once, 1 live row watched | 3,500,915 |
| `ingest` | `DiscoveryExact`, `StoredOncePerLapse`, `NothingLost`, `LogAccountsForAll`, `NodesKnown`, `AllHandled` | traffics of 3 to 7 messages (chat over two gateways, a traceroute, what nodes tell, what cannot be read), with calls that fail for one packet (for two in the answered traceroute), a crash and a forgotten key | 2,276,096 |
| `realtime` | `NoGapWhileConnected`, `TwiceOnlyIfPaged`, `StatusTruthful`, `EventsConsecutive`, `DeadClientsLeave`, `StatusCatchesUp` | 2 connections of 1 frame, 1 retry, pages of 2, 3 messages shown; 2 links to the broker, or 3 messages, or 1 message and 1 broken connection | 688,006 |
| `webclient` | `UrlAgrees`, `MapAgrees`, `TopologyAgrees`, `NodesCurrent`, `ChatShowsChannel`, `StatsCurrent`, `NoticesAgree`, `ViewsTell` | fifteen parts, see below | 1,277,893 |
| `ingest_families` | `EventFamiliesRespected` is violated | 1 message | |
| `logstore_allowance` | `RowsWithinAllowance` is violated | cap 3, batch 2 | |
| `statistics_week` | `SleepsThroughRecordedWeek` is violated | no failures, set-backs or stops | |
| `statistics_fresh` | `VisibleOnNextRequest` is violated | no failures, set-backs or stops | |
| `web_polling` | `FeedsFollowTTL` is violated | 1 feed with a TTL of 3 | |
| `topology_cache` | `SlotServesItsTTL` is violated | 2 requests, no set-back | |

What they show:

- **`tables`**, packets. The filter implements a window that never forgets anything
  (`AnswersLikeWindow`): a first sighting is never called a duplicate, and a repetition
  is let through only if it is older than the TTL or the capacity's worth of other keys
  came between. Four keys for a list of two make keys that were evicted come back; the
  times go up and down by more than the TTL.
- **`tables`**, traceroutes. The tracker implements the table that `Ingest` is built on
  (`ImplementsTable`), its capacity with it. However replies, errors, timeouts, evictions and
  reused ids mix, a request is reported at most once, is lost only to a full table or a request of
  the same id, and what is finished keeps its outcome for the retention
  (`LeavesForReason`); each is released in the end. Three requests for two places reach
  every branch of the eviction; with the id 0 in the set, requests without an id share an
  entry.
- **`tables`**, details. When its effects have run the page shows the details of the
  selected node or none, and a node that stays selected gets them or an error, though
  its request may be aborted and handed out again, and though an entry that a neighbour's
  answer left in the cache counts as fresh.
- **`service`**, statistics. A recorded week is never written again, also not by a job that
  was stopped between insert and callback or whose clock went back; the job looks at the
  table at least every other week; a stale answer in the cache comes from a request that
  was under way during the announcement and is gone after TTL and the duration of a
  request. Three weeks of two ticks let the boundary fall into every step of a round,
  and two requests suffice for one to fill the cache while the other was answered from it.
- **`service`**, caches. A request is told the links of its own filters and of each period
  all buckets that were complete when it came, whichever request filled the cache, and no
  older answer takes the place of a newer one, also with a clock that goes back.
- **`service`**, updates and schema (`TellsAndStarts`). A consumer gets the snapshots of a
  source without a gap from its subscription on; one that subscribed and then read the
  cache is behind only if it was pruned; the goroutine that publishes never sends on a
  closed channel. Wherever the process stops, no step of the schema is applied twice or
  left out, and a release only serves a file that has its steps.
- **`logtab`**. The rows the table can hold grow by one interval for each prune in a
  row that is missed, and no prune deletes one of the newest rows up to the cap. A
  row whose prune failed is stored and not announced: `AnnouncedInOrder` says that what
  is announced comes in order and is in the table. The list in the browser falls from the
  newest row to the oldest and skips none that matches, but in the races the properties
  name: a row whose event comes after a page that has it, older rows that were asked for
  another list or twice, a row that came live while the filters had changed or after the
  first page under way was read, one that was cut off the list, and what the two filters
  disagree about (section 6). Loading ends, and the list at rest is that of the
  filters. Twelve ids are two prunes after the first, with two missed ones and a restart
  between; the browser finds three rows and watches the fourth come, one of another
  case of the channel and without hops, which the two filters decide differently.
- **`ingest`**. Two copies of a message over two gateways, one over a channel that
  is not configured, a message of another sender with the same packet id, and a map
  report of a node known before as a gateway. A node is announced exactly when its own
  packet made it known, unless a call failed for that packet; each packet is stored once for every time its key is in the
  filter; and what an acknowledged message tells is stored unless a call failed for this
  very packet, with one exception that the property names. A request, its reply, a routing
  error, an acknowledgement on another channel and neighbor info: what the tracker keeps out of
  the log is in it as a lifecycle event or will be, or a call failed for a packet of that
  traceroute. Calls fail as often as they like for the packets that the failures are for, while
  other packets are open or wait: they lose nothing by it. Every end of an edge has a row
  when the edge is written, and the log names no node without a row, except a lifecycle whose
  own request had a failed upsert (`NodesKnown`). The remaining kinds (node info, position, a position of
  0, 0, telemetry, encrypted and PKI packets, a routing packet with a route back, a packet
  that cannot be read) run with a crash at any point. Every message is handled in the end.
- **`realtime`**. While the browser's connection is in the hub it misses no event and gets
  none twice or out of order from one goroutine, whoever joins, leaves or fails meanwhile.
  What it shows has a gap only where the code leaves one: an event that came while the page
  was under way is overwritten by it, one emitted before the connection was in the hub or
  while it was down is lost until a reload. A message is shown twice only if the page had
  it before its event came; nothing in the client looks for that. Dead connections leave
  the hub, because the heartbeat never stops writing to them, and a browser that stays
  connected comes to show the right status, also after the connect hook wrote an older one
  last. The status itself is right but for one race in `Start`, see section 6. Three
  messages make a gap possible, two connections a reconnection, one frame a full buffer;
  a full buffer is also a reason to reconnect, so that it happens in each mix.
- **`webclient`**, where the client is and what it shows. `UrlAgrees`: page, node, filters,
  event, view and channel are those the URL names, after any sequence of handlers, steps
  back and forward, edited addresses and reloads, but for what the bootstrap sets late.
  `MapAgrees`: popup, URL and store name one node at rest, and the circles are those of
  the mode. `TopologyAgrees`: with everything answered, the links in the store were asked
  for since the mode was turned on, or an error is told, or an older answer came last; the lines
  are of that snapshot and where the nodes are, all of them unless nodes or meta came since
  the last answer, turn or opening. One link, one position that a node has or has not, and
  four requests are enough for a line that is never drawn and one that stays; that
  nodes move is in the proof. `NodesCurrent`: recent positions the
  client was told of are on the map and outdated ones go within a minute of pruning.
- **`webclient`**, what is asked for again. `ChatShowsChannel`: the list at rest is that of
  the channel and has no holes, but in the races the property names. `StatsCurrent`: the
  activity is asked for again whatever failed, and a feed whose timer runs is at most the
  server's TTL and one interval old. `NoticesAgree`: what a tab is for is there, awaited
  or replaced by an error, dismissals survive a reload, and what an address asks for is
  shown.
- **`webclient`**, what the pages tell (`ViewsTell`, the conjunction of eight properties,
  each defined in its module). `LinksAgree`: answers merged in any order leave both ends
  of a link with the best evidence. `FormTells`: filters pass what their labels promise.
  `EventsTell`: every field the server writes for an event is told. `ChartsTell`: a tooltip
  says what is plotted. `TimelineTells`: each message and reaction once. `MarkersTell`: a
  marker is never brighter or duller than its node was within a minute. `NamesTell`: no
  name is lost, and an old one is shown only for a reason. `JsonTells`: the lines are the
  JSON of the value.

`CHECK_DEADLOCK FALSE` stands where a run really ends: the messages of `Ingest` are used
up, the clock of `Statistics`, the requests of the caches, the starts of the schema and
the bounded environment of the web client run out. `realtime` and `logtab` go on for ever
and deadlock is checked. The type invariants are not part of the runs: a value of another
type would be an error of TLC in the operators that use it, and the proofs have them where
they need them.

**Why bounds of this size.** The behaviours are about one thing overlapping another:
a full table needs one request more than it has places, a duplicate two copies, a lost
mark one crash, a race of query and invalidation one request and one round. Each bound
lets the overlap happen and leaves room for an event after it, and under these bounds
every mutant of `PROJECT.json` breaks its property. Fields that count without end are bounded in guards
(`MaxRequests`, `MaxID`, `MaxWall`, `MaxSetbacks`, `MaxFailures`, `MaxStops`, `MaxMisses`,
`MaxFlight`, `Slow`, `MaxLinks`, `Mixes`, `Traffics`, `LastInstant`, `MaxClockSetbacks`,
`MaxSnapshotsMade`, `MaxStarts`, `MaxWatchedID`, `MaxHistory`, `MaxPlacings`, `MaxRows`,
`MaxSnapshots`, `MaxRenames` and others),
each a constant that is
commented in the module that declares it. `MaxFlight` and `Slow` are more
than bounds on the state space: they say that a request and a round of the job last
less than a given time, and `StaleAtMostTTL` and `LooksEveryOtherWeek` rest on it.

## 4. Fairness

Three runs state fairness, and each only what the runtime gives.

- `Ingest!FairSpec`, weak fairness of `Handler`: the client's goroutine is scheduled
  whenever it has a message or is in the middle of one. Nothing is assumed about
  crashes or failures; they are bounded, so they end.
- `MCTables!MCSpec`, for the tracker weak fairness of `Tick` and `Sweep`: time passes, and
  messages of some kind keep arriving. The second is a real assumption. The sweep is
  called by `HandleMessage` and by no timer, so on a silent broker a request that has
  timed out is not reported until the next message. Nothing in the code promises more: the
  hazard is listed, and no property covers it.
- `MCTables!MCSpec`, for the details weak fairness of the effects, of time and of
  `Reject`: the browser runs the effects of a change, and an aborted request is rejected.
  Strong fairness of `Settle`, the server's answer or its word that there is no such node:
  requests are aborted now and then, but one that is sent again and again is answered at
  some time. A server that always fails is thereby ruled out; then an error is shown, and
  what is claimed is that there is something to show.
- `Realtime!FairSpec`, weak fairness of `Tick`, of each `Broadcast` and `Serve`, and of
  `Browse`: goroutines are scheduled, the ticker ticks until the process ends, and the
  browser's event loop runs. Nothing is assumed of the network, of requests, of the broker
  or of new messages. A write to a broken connection succeeds or fails as it likes until the
  buffer is full.

All other properties are safety properties of specifications without fairness.

## 5. What is proved

TLAPS checks the following for every value of the constants that the assumptions admit.

| theorem | says | from |
| --- | --- | --- |
| `TableProofs!TypesHold`, `StoreIsCoherent` | `[]DedupTypeOK`, `[]Coherent` | `DedupAssumption` |
| `TableProofs!FilterImplementsWindow` | `AnswersLikeWindow`: the filter implements `RecencyWindow` | the same |
| `TableProofs!TableIsBounded`, `ReportedOnce` | `[]Bounded`, `[]OneLifecycleEach` | `TrackerAssumption` |
| `TableProofs!TrackerImplementsTable` | `ImplementsTable`: the tracker implements `RequestTable` | the same |
| `TableProofs!NoneLeavesWithoutReason` | `LeavesForReason` | the same |
| `IngestProofs!TypeCorrect`, `StoredOnce` | `[]TypeOK`, `[]StoredOncePerLapse` | `IngestAssumption` |
| `IngestProofs!NodesAreKnown`, `AnnouncedExactly` | `[]NodesKnown`, `[]DiscoveryExact` | the same |
| `IngestProofs!AllIsStored`, `LogIsComplete` | `[]NothingLost`, `[]LogAccountsForAll` | the same |
| `LogStoreProofs!RowsAreBounded`, `NewestRowsStay` | `[]RowsBounded`, `NewestKept` | `LogStoreAssumption` |
| `LogStoreProofs!AnnouncedAsStored` | `AnnouncedInOrder` | the same |
| `LogStoreProofs!PageLoadsEnd` | `[]LoadsEnd` | nothing |
| `LogStoreProofs!LogGoesDown`, `LogHasNoGaps` | `[]ShownOnceInOrder`, `[]NothingSkipped` | `LogStoreAssumption`, `LogTabAssumption` |
| `StatisticsProofs!WeeksWrittenOnce`, `NeverTwoWeeksBlind` | `WrittenOnce`, `[]LooksEveryOtherWeek` | `SnapshotAssumption` |
| `StatisticsProofs!StaleByRaceOnly`, `StaleForTTLOnly` | `[]StaleOnlyByOverlap`, `[]StaleAtMostTTL` | `StatisticsAssumption` |
| `RealtimeProofs!StatusIsTruthful` | `[]StatusTruthful` | nothing |
| `RealtimeProofs!MessagesComeConsecutively` | `EventsConsecutive` | `HubAssumption`, `RealtimeAssumption` |
| `RealtimeProofs!NothingMissingWhileConnected`, `TwiceAtMost` | `[]NoGapWhileConnected`, `[]TwiceOnlyIfPaged` | the same |
| `ServiceProofs!SchemaStaysWhole`, `UpdatesAreTold` | `[]SchemaWhole`, `[]UpdatesTold` | `MigrationsAssumption`, `UpdatesAssumption` |
| `ServiceProofs!ServiceTellsAndStarts` | `[]TellsAndStarts`, of the specification the run checks | both |
| `ServiceProofs!CachesAnswerRight` | `ResponsesRight` | `ResponsesAssumption` |
| `ClientProofs!LinksOfTheNetwork` | `[]TopologyAgrees` | `TopologyAssumption` |
| `ClientProofs!OneNodeIsSelected` | `[]MapAgrees` | `SelectionAssumption` |
| `ClientProofs!NodesAreCurrent` | `[]NodesCurrent` | `NodeStoreAssumption` |
| `ClientProofs!DetailsAreOfTheSelected` | `[]ShowsSelected` | `DetailsAssumption` |
| `ClientProofs!DataAreCurrent` | `[]StatsCurrent` | `StatsPageAssumption` |
| `ClientProofs!UrlSaysWhatIsShown` | `[]UrlAgrees` | `NavigationAssumption` |
| `ClientProofs!NoticesAreConsistent` | `[]NoticesAgree` | `NoticesAssumption` |
| `ClientProofs!ChatIsOfChannel` | `[]ChatShowsChannel` | `ChatAssumption` |
| `ViewProofs!MarkersAreFresh` | `[]MarkersTell` | `MarkersAssumption` |
| `ViewProofs!BothEndsAgree` | `[]LinksAgree` | `LinksAssumption` |
| `ViewProofs!NamesAreTold` | `[]NamesTell` | `NamesAssumption`, `FieldsAssumption` |
| `ViewProofs!HopsAreTold`, `DetailsAreTold` | `[]HopsTell`, `[]DetailsTell` | `LogPageAssumption` |

The assumptions are in the modules that declare the constants, and TLC evaluates them on
each run. Most say that sizes, times and bounds are natural numbers and that a capacity or
a page has at least one place. Those that say more:

- `IngestAssumption`: a request is known by its packet id, which is not 0. The tracker
  goes by packet ids, so this is what makes a request of a message; requests without an id
  are `TracerouteTracker`'s.
- `SnapshotAssumption`: a round takes less than a week, and two rounds with a retry
  between them take no more than two weeks. In the code a round is a few statements and the
  retry an hour; without it `LooksEveryOtherWeek` is false.
- `NodeStoreAssumption`: ages are told apart up to a pruning beyond the limits, so that
  `OldestAge`, at which the model stops counting, is outdated for each of them.
- `LogTabAssumption`: the list has room for a row, and the filters that are set have a range
  of hops as `normalizeLogHopRange` leaves it.
- `StatsPageAssumption`: the clock of the model starts anew after a common multiple of the
  buckets, which any buckets have; `activity` is none of the other feeds.
- `NavigationAssumption`: what stands for "no number" is none, views and filters that
  are set are those the controls can set, and addresses have numbers where the code reads
  numbers.
- `NoticesAssumption`: a server has the fields the client reads, no source of updates has the
  name of the tab of the information, and the hash of a page is not the empty one.
- `ChatAssumption`: a page and the list have room for a row, and what stands for "no
  channel" and for the channel of a row that has none are not channels.
- `TopologyAssumption`: the time to live and the number of requests are numbers; nothing is assumed
  of links and positions.
- `DetailsAssumption`: what can be hovered is on the map and therefore known to the server.
- `MarkersAssumption`: the thresholds are in the order the code has them, and the model stops
  counting an age beyond them and below the number that stands for "not seen".
- `LinksAssumption`: there are finitely many nodes, and an answer lists the kinds of evidence the
  server knows.
- `NamesAssumption`: the empty name is none, a name contains itself, and the times of changes
  are numbers.
- `FieldsAssumption`: what may be known of a node are the fields of the API's types.
- `LogPageAssumption`: sliders and addresses have numbers where the code reads numbers (what is
  no number is read as none), and the list has room for a row.

**Duplicate filter.** Types and coherence are inductive together (`IInv`). Coherence
says that `items` is the set of keys of `order` and that no key is there twice. The
lemmas follow the call: removing an expired entry, moving one to the front and pushing
a new one each keep list and map together, and removing the back takes out a key that
occurs nowhere else, which is where the uniqueness is needed.

That the filter implements the window needs what the list does not say of keys it no longer
has. `history` remembers for each key when it was last asked and which others were since, and
`Ranked` relates the two: the keys before an entry in the list are those asked since, and a
key that left the list has had a capacity's worth of others. The capacity is then a
cardinality (`PlaceCounts` turns a place in the list into the number of keys before
it), and the step of the window follows by the four ways a call can go.

**Tracker.** `OneLifecycleEach` says two more things than that a request is reported
once: an entry is final exactly when its request was reported, and no two entries have
the same request. Without them it is not inductive: a final entry could be ended again,
or a request reported through another entry. `Sound` adds that the table is finite and
that its entries have their fields. `EvictionMakesRoom` is the lemma for the
bound: whichever victim is taken, the table has room for one. `LeavesForReason` is then
proved action by action (`Reasoned`): each entry either stays under its key, or is the
victim of a full table, or is replaced by a request with the same id, or is swept in time.

`TrackerImplementsTable` goes action by action too: each is one operation of the table, and
what it returns is what the table reports and suppresses (one step per action, and a tick or
a set-back of the clock is a stutter but for what the last operation returned). It rests on
`OneLifecycleEach`, which makes the number of a request its name: a new one is nowhere in the
table, and a sweep reports as many as were overdue. An eviction maps to spent entries that
go, and evicted ones only if the spent ones did not make room (`EvictionSpares`). With it what is proved of
`Ingest` holds of the tracker it calls, up to the two limits named in section 2.

**Ingest.** Each of the five theorems has an invariant of its own over `Shape`, which says
what the locals of `HandleMessage` hold at each point and that an entry of the tracker
belongs to a request that was published. What they share is that the rows a handler has
still to write count as written:

- `Paid`: each time the filter lets a key through pays for one row of each table; the row is
  there or ahead, in the handler or, for a lifecycle, in the tracker. A crash gives up what
  is ahead and forgets the key, so it is paid for again.
- `Grounded`: a node has its row, or the minimal pass writes it before what refers to it. For
  a lifecycle, which is written long after, the tracker's entry carries this along
  (`Vouched`): the requester has its row, will get it, or a call failed for the request.
- `Announced`: the row a sender's own packet created is announced once, or its message is
  still at work before the announcement; it is not both.
- `Kept`: a key is in the filter because of a message that is stored or being stored. This
  is the invariant the property needs for a copy that is acknowledged as a duplicate.
- `Accounted`: what was kept out of the log belongs to a traceroute that is open, has ended by
  a row, has its row ahead, or has a packet for which a call failed (`Spoken`; `OwnReports` says
  that what is reported along with a packet is of the packet's traceroute). It is claimed without crashes, as the property is.

A call that fails adds the key of its packet to `failures` (`GivesUp`), and what was ahead for
that packet need not come any more; what was claimed of other packets stays as it was, since
keys never leave `failures` (`FailuresGrow`).

**Log.** The bound on rows needs to know what the table looks like. `Shape` says that
`rows` is an interval of ids ending at `lastID` (inserts add at the top, prunes cut at
the bottom) and that its length fits the threshold: as long as the next prune is not
due, the rows are fewer than what the last one left plus an interval, and each missed
prune adds one more. Cardinalities of intervals then do the rest, and `NewestRowsStay`
follows from the offset of the DELETE. `AnnouncedInOrder` needs only that what was announced
is below the row whose insert is under way. `LoadsEnd` is inductive with the shape of the
records and with the key of a request being the one its effect last ran with.

For the list of the log page (`TabInv`) the point is that it is two falling runs: its first
`c` rows came live and are above what had been delivered when the page came, `d`; those
after them are rows of pages (`Live(c, d)`). A row that a page had before its event came is
in `notes.early`, together with all that are to come before it (`EarlyNext`), so that a row
that comes live is above everything but those. From the last row up to each end of a run every row
that is due is shown or accounted for (`WholeFrom`, `LiveWhole`). A page is what the table
has below a cursor without a hole (`Contiguous`), also when the table has been pruned since,
and a request for older rows that was not overtaken belongs below the last row
(`Belongs`), of which there is one. That the SQL filter and the one of the browser agree on a
row, up to what section 6 lists, is `LiveFindsStored`. `DescendingLists` gets the order of a
page from the cardinalities that define it.

**Statistics.** `WrittenOnce` needs one fact about the control of the job (`Ready`): in
"record" the week it read is due. Only `Check` enters "record", and between the two no
step changes the table, since there is one job. For the cache, `StaleOnlyByOverlap` is
inductive with two facts: announced weeks are in the table (`InTable`), so that a query
after the announcement sees them, and an answer on its way into the cache lacks only
weeks that were announced since it left (`OnItsWay`). `Timely` puts times on both: such a
week was announced no longer ago than the request runs, and what an entry lacks was announced
no longer ago than its age and a request allow. `OnTime` is a bound on the next look from
each point of the round: asleep, the wait and a slow round end before the third Monday
after the week last looked at. None depends on how many requests run or how long a week is.

**Live updates.** `StatusTruthful` holds because the callback that will run last tells the
truth (`Told`), for any number of links. For the events, `Wires` says of each connection
that the ids on the wire rise, that none is missing between two of them, and that the last
one inserted is on the wire of a sound connection in the hub or still owed to it by the
`Emit` under way. Steps are classified by what they do to one connection (`Moves`), so that the
dozen actions of the hub are gone through once. `EventsConsecutive` follows for any number
of connections and emitters. `Gapless` adds the browser: its list is a part that was pushed
and a part that is the page (`Parted`), what is newer than the page comes while it is under
way (`Awaited`), and the page was read under the connection it is counted for (`Under`).

**Caches, updates, schema.** `CachesRight` says for which filters and which boundary the
answer in each slot and at each step of a request is; that an end is a multiple of its bucket
makes the comparisons of the activity cache monotonic. `UpdatesInv` says of a consumer that
what is in its channel, after what it received, is a run of consecutive numbers that ends with
the last one published, unless it was pruned. `PublishedFollows` says that the cache is
ahead by one snapshot at most, so that one who looked is behind by what comes next only.
`RunnerAgrees` adds to `SchemaWhole` that what a runner read is still so when it acts on it:
one that marks an old file found it without a version and with the tables of the first step,
and one that goes through the steps has the file's version, and the first step undone if that
is 0. Nobody else writes the file meanwhile, which the one process of a deployment gives.

**Web client.** `TopologyInv`: while the mode is on, a request sent since it was turned on is
due, was answered last, or has failed last, or an older one came after it. Its part `LinesInv`
says of the lines that they are those of what the effects last ran with, and which change
the effects have yet to see explains a difference. `SelectionInv`: one
chain of callbacks keeps URL, selection and circles together, as it is one call of the
adapter; between chains an open popup is that of the selected node, or a zoom will bring it
out, or the effects have yet to run. `StoreInv`: what is shown is older than the limits by the
time since the last pruning, and from the snapshot on as the client was told. `DetailsInv`:
what is shown is of the node the effects last ran with, and only an answer that makes them run
again may be of another. `StatsInv`: what a timer has left and the age of what is shown add up
to the delay it was started with, and the timer of the activity ends no later than the
buckets that are not complete. `NavInv`: the entry of the history that is shown `Tells` the
state. One that was written does because reading it gives back what was written up to
decimals (`MapWritten` and its like), one that was read because the state is what was read
(`ApplyRight`); the bootstrap may come between, and relies on the canonical name of a channel
being its own canonical name (`CanonicalOnce`). Each handler is then shown to fit (`Fits`).
`NoticesInv`: each effect has left things as `NoticesAgree` wants them for as long as what it
looks at is what it has seen; a source whose request was given up stays marked as loading,
and is asked for again. `ChatInv`: a list that is not mixed goes down and has every row of its
channel from its last one on (`ListIsWhole`), and all of them once no more is offered
(`EndIsReached`). A request for older rows is for what follows the last row, or marked stale
(`MoreContinues`), so what it brings continues the list or marks it mixed. `PageIsNewest` has the
step from cardinalities to order: a page has what is newer than any of its rows, and one that is
not full has all.

**What the pages tell of a node.** `MarkersInv`: what is drawn was right as it was rendered, so
it lies between what the row says now and what it said as many ticks ago as have passed since
(`DrawnInTime`); age never makes a row brighter (`OlderIsDuller`), and what the client was
told is never newer than what the server heard. `LinksInv`: the rank that an end has of a link
is the lower of the best it told itself and of the best the other end told, without its signal
(`Known`). `ChooseBetterNeighbor` takes the neighbour with the lower rank, which is all of it
the order of the answers cannot change (`RanksMerged`). `NamesInv`: what is held in the
history, the list or the map was read from the server, and a name that was given is never
taken back. So a list from before names the node as now or names it less, and less is what the
next source in the line makes up for. That no former name is lost goes by `BorneKnown`: every
pair of names the row ever had is the present one or the `from` of a row of the history.
`HistoryByTime` shows that ordering the rows by how many come later loses none and leaves none
twice; `SectionsAre` that no field is in two sections.

**What the page of the log tells.** `FormInv`: the range of hops is in order after each slider
and each address, since `NormalizeLogHopRange` leaves such a range alone. The label's promise
then follows from the four classes of labels. For the details, that every field is in a view is
by the lists of names in the views alone, whatever an event has (`FieldsAreShown`): what a view
does not name it leaves to the JSON below it, or there is a raw view. That no empty string
becomes a link needs that the list has the server's events only (`EventsInv`).

**Only model-checked.**

- Liveness: `AllHandled`, `EverythingReleased`, `DetailsCome`, `DeadClientsLeave`,
  `StatusCatchesUp`. Liveness under fairness and `ENABLED` are beyond the prover.
- `ViewsTell` as a whole. Of its eight properties `LinksAgree`, `MarkersTell` and `NamesTell`
  are proved, and of `FormTells` and `EventsTell` the parts `HopsTell` and `DetailsTell`. The
  rest (`KindsTell`, `DaysTell`, `ChartsTell`, `TimelineTells`) is about functions that fold,
  sort and filter lists with an operator as a parameter. What these compute is an induction
  over the list, again with an operator as a parameter; and `JsonTells` is about a
  `RECURSIVE` operator.

What induction is used goes by the least counterexample, which needs no parameter
(`LeastExists` in `ClientProofs`).

**What the proofs changed.** Three attempts failed for a reason, and the reason was in the
model. Older rows of the log may be asked for twice at once, since the effect that reloads
the list resets the flag `loadMoreLogs` looks at; the model had one such request, and TLC
finds the doubled rows with two. The rows of the page that are still to come live are
not one but all between the delivered ones and the newest of the page. And `NothingSkipped`
excused every row above the first page that came live while it was under way; it now
excuses those the page could not have, because they came after it was read.

## 6. Where code and documents disagree

Six runs end in a counterexample on purpose; each checks a sentence of the repository.

1. **Event families of a channel are not applied** (`ingest_families`). `README.md`
   calls `channels[].ChannelName.events` the "Enabled event families" of a channel.
   `ingestChannels` (`internal/app/app.go`) copies PSK and Primary only; `allowEvent`
   decides by kind and Primary. A text message on a channel without `text_message` is
   stored.
2. **The log exceeds its allowance without a failure** (`logstore_allowance`). The
   README says `log_prune_batch_rows` rows are allowed above the cap before a prune.
   After the first prune the next is due an interval of ids later. One that comes due
   when there are not yet enough rows deletes nothing and moves the threshold on, so that
   the table is over the allowance until the next. `RowsBounded` is the bound that holds.
3. **A week is slept through** (`statistics_week`). The comment of `FirmwareSnapshotJob` says the job
   catches up on the current week and sleeps until the next Monday. The clock is read
   before the statements and again after them; when Monday 00:00 falls between, the job
   has dealt with the old week and sleeps through the new one, of which it records
   nothing unless the process restarts. `LooksEveryOtherWeek` is what holds.
4. **A new week may stay invisible for the time to live** (`statistics_fresh`). The
   comment of `InvalidateFirmwareCaches` says the week is visible on the next request. A
   request that queried before the insert and calls `Set` after the invalidation puts the
   old answer back. `StaleOnlyByOverlap` and `StaleAtMostTTL` are what holds.
5. **A feed of the statistics page ends with its first failed refresh** (`web_polling`). The
   comment at `StatsPage.tsx:1257` says the UI honours the server's TTL "instead of the UI
   staying stale". The timer is set by an effect that depends on the answer; a failure
   changes no answer, so nothing asks again, and the next success of another feed clears
   the error. `StatsCurrent` is what holds.
6. **The cached links are hardly ever served** (`topology_cache`). The README calls
   `topology_cache_ttl` the TTL of the backend's snapshot cache, and `topology.go` says that
   requests that differ only in unset fields share a slot. The handler puts its own reading
   of the clock into the query, which is part of the key: only a request of the same
   instant finds the slot.

Others were met and have no run of their own:

- `status.go` says that `ConnectionStatusConnected` "means the app is currently connected
  to the broker". When `WaitTimeout` has given up and the library connects before `Start`
  writes "disconnected", the status stays "disconnected" while messages come in, until the
  connection is lost and made again. `StatusTruthful` names it as the exception.
- The comment of `classifyHops` (`utils/signal.ts`) counts `hop_start=0, hop_limit=0` as a
  direct transmission with a badge; the code gives no badge. It calls the last two hops of
  the budget weak; the code does so for the last one. `LogPage` has what the code does.
- The comment at `App.tsx:317` says that the links of the map are dropped when the user
  navigates away; the effect runs when the whole page is unmounted. `TopologyAll` drops
  them there only.
- The switch tells how many links there are, and the map may show fewer or none, for good.
  `renderAllTopology` leaves out a link with an end that has no position yet, and the effect
  that calls it (`MapPage.tsx:356`) does not run for nodes: who turns the mode on while the
  bootstrap waits may see no line until the next answer or turn. Nor does it run when
  meta has other options than the defaults the page started with (`defaults.go:97` has no
  clustering, `App.tsx:1009` assumes it), which makes the map anew without lines. Lines to a node
  that has moved or was taken out stay. `TopologyAgrees` names these cases (`stirred`).
- `serialize` of `urlState.ts` encodes the source of `#updates/...` and `parse` does not
  decode it. `Fragment` has both.
- The filter of live rows compares channels as they are written, the SQL without case; a
  row whose header started without hops passes one and not the other, and so does a node id
  typed with blanks around it. `NothingSkipped` leaves them out.
- A node without an uptime has a row "Uptime" with a dash, while other fields without a
  value have no row (`NodesPage.tsx:177`).

## 7. What is not modelled

- **Content**: most columns of rows, the merges of telemetry and positions, edge
  attributes. A dropped read error in `telemetry.go` makes a merge start from nothing: the
  hazard is listed, and a property of a model with one telemetry column would restate the
  line.
- **Decoding**: protobuf, encryption, topics. Pure conversions of one message.
- **What a snapshot of the update check says** (versions, hashes, Markdown), the
  registration of sources at the start, the SQL of the migration steps.
- **A failed subscription** (`onConnectHandler` only logs it) and several browsers at once:
  connections of other browsers differ from a broken one of the same browser only in being
  read.
- **What lines look like** and how they are cut when there are too many (`truncated`).
- **Session storage** behind the cache of node details, dragging and panning of the map,
  the drawing of charts, wording and layout.
- **The parts of the web client together**: each has its own copy of what it shares with
  others (the selected node, meta, the page). What they share changes only by the
  handlers that each of them has.
- **Order of shutdown**: the process of the models stops at any point, which includes
  every order in which its parts may be stopped.
- **Static content, API documentation, logging, debug tool, configuration
  parsing, the shell of the web client, generated code**: nothing in them changes over time or interleaves.
- **SQLite** itself is taken to do what it says: a statement or a transaction is one
  step that happens or does not. Of a call that reports an error, only that nothing
  was written is modelled, but for `InsertLogEvent`, which may return an error after its
  insert.
- **Several processes on one database**: the deployment has one.

## 8. Plan

In the order of what matters most to a user of the system. The modules of the first ten are
there, and so are the proofs that were planned for them; what is left of each is a part.

1. `RecencyWindow`, `Dedup`: the filter and its promise. *Proved: types, coherence and the
   refinement of the window.*
2. `RequestTable`, `TracerouteTracker`. *Proved: bound, single report, `LeavesForReason`, and
   that the tracker implements the table `Ingest` is built on.* Left: `Ingest` with a full
   table and with requests without an id.
3. `Ingest`. *All its safety properties proved*, for any set of messages.
4. `LogStore`, `SnapshotJob`, `StatsCache`, `Statistics`. *All proved.*
5. `Hub`, `MQTTLifecycle`, `Realtime`: live updates from the table to the browser. *All
   safety properties proved*, with any number of links and connections.
6. `LogFilters`, `LogTab`: the log of the web client over `LogStore`. *All proved.* Left: the
   lost connection, which `Realtime` has for the chat.
7. `ResponseCaches`, `UpdateCheck`, `Migrations`. *All proved*, for any number of requests,
   consumers and steps.
8. `Navigation` with `Fragment`, `MapSelection`, `NodeDetails`, `TopologyAll`. *Safety
   proved.* Left: the session storage behind the cache.
9. `NodeStore`, `StatsPage`, `ChatTab`, `Notices`: *proved*. Left: a lost connection in
   `ChatTab`.
10. `NodeLinks`, `NodeNames`, `MapMarkers`: what is told of a node. *Proved.* `LogPage`: *the
    hops and the details proved*. The kinds and the days of `LogPage`, `ChatTimeline`,
    the charts of `StatsPage`, `JsonDetails`: only model-checked.
11. The merges of `telemetry.go` and `domain/merge.go` with packets out of order: each
    column is a register that keeps the value of the latest packet that has one.
12. Edges with direct and reported observations in any order, joined with `Ingest`
    through the rows of the nodes.

## 9. Running it

    tlc -workers 2 -config MCIngest.cfg MCIngest
    tlc -workers 2 -config MCService.cfg MCService
    tlapm StatisticsProofs.tla

`PROJECT.json` lists for each run its module, its configuration and what to expect,
for each definition the lines of the source it stands for, and for each property the
mutant that breaks it.
