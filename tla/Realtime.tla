------------------------------ MODULE Realtime ------------------------------
(***************************************************************************)
(* Live updates from end to end.  The ingest goroutine inserts a chat      *)
(* message and emits it; the heartbeat ticker emits the status of the MQTT *)
(* client; the hub writes both to the browser, which reads the last page   *)
(* of the chat over HTTP once, while the websocket connects, breaks and    *)
(* connects again (web/src/api/ws.ts, the chat effect of App.tsx).         *)
(*                                                                         *)
(* The browser is taken from where the metadata is loaded: startWS has     *)
(* been called and the page is asked for.  One browser, which stays open,  *)
(* and one channel; other event types go the same way.                     *)
(*                                                                         *)
(* A behaviour draws on one of the Mixes: how often the broker is reached, *)
(* how many messages come, how often the network breaks.  With no message  *)
(* to come the page is not asked for, with no link to make the MQTT client *)
(* stays where it starts.                                                  *)
(***************************************************************************)
EXTENDS Hub, MQTTLifecycle, SequencesExt

CONSTANTS Mixes,       \* bounds: links, messages and cuts of a behaviour
          MaxRetries,  \* maxRetries
          PageSize,    \* meta.show_recent_messages
          MaxShown     \* messages pushChatMessage keeps

ASSUME RealtimeAssumption == /\ {"ingest", "ticker"} \subseteq Emitters
                             /\ Mixes \subseteq [links: 0..MaxLinks, messages: Nat, cuts: Nat]
                             /\ MaxRetries \in Nat
                             /\ {PageSize, MaxShown} \subseteq Nat \ {0}

VARIABLES mix,      \* the bounds of this behaviour
          table,    \* table chat_events: the last id inserted
          cuts,     \* how often the network broke
          ws,       \* startWS: its socket, state and retries
          shown,    \* the WSStore's mqttStatus
          messages, \* the ChatStore's messages
          load,     \* the request for the last page
          last      \* history: the last id received over the current socket

browser == <<ws, shown, messages, load, last>>

vars == <<hubVars, mqttVars, mix, table, cuts, browser>>

NoSocket == 0

Unknown == "unknown"

Chat(id)     == <<"chat", id>>
Heartbeat(s) == <<"heartbeat", s>>

Events == {Chat(id) : id \in 1..table} \cup {Heartbeat(s) : s \in {"connected", "disconnected"}}

----------------------------------------------------------------------------
(* The server                                                              *)

Emits(e, event) == emitters' = [emitters EXCEPT ![e] = [@ EXCEPT !.at = "ready", !.event = event]]

\* handleChat: the row is in the table before its event is emitted.
Insert ==
    /\ emitters["ingest"].at = "idle"
    /\ table < mix.messages
    /\ table' = table + 1
    /\ Emits("ingest", Chat(table + 1))
    /\ UNCHANGED <<clients, conns, mqttVars, mix, cuts, browser>>

\* StartHeartbeatTicker: the status is read when the event is built.
Tick ==
    /\ emitters["ticker"].at = "idle"
    /\ Emits("ticker", Heartbeat(Status))
    /\ UNCHANGED <<clients, conns, mqttVars, mix, table, cuts, browser>>

Emit(e) == Snapshot(e) \/ \E c \in Conns : WriteTo(e, c)

Others == <<mqttVars, mix, table, cuts, browser>>

\* The goroutine of a connection, from the upgrade on.
Serve(c) ==
    /\ Register(c) \/ Greet(c, Heartbeat(Status)) \/ SendGreeting(c) \/ ReadEnds(c)
    /\ UNCHANGED Others

Broadcast(e) == Emit(e) /\ UNCHANGED Others

Accept(c) == ws.socket = c /\ Upgrade(c)

\* The network between the two ends breaks; neither is told.
Cut(c) ==
    /\ cuts < mix.cuts
    /\ cuts' = cuts + 1
    /\ conns[c].at \notin {"none", "gone"}
    /\ ~conns[c].cut
    /\ conns' = [conns EXCEPT ![c].cut = TRUE, ![c].wire = <<>>]
    /\ UNCHANGED <<clients, emitters>>

\* The upgrade of a browser's request, and a broken connection that the server finds.
Network == \/ (\E c \in Conns : Accept(c) \/ ReadBreaks(c)) /\ UNCHANGED Others
           \/ (\E c \in Conns : Cut(c)) /\ UNCHANGED <<mqttVars, mix, table, browser>>

----------------------------------------------------------------------------
(* The browser                                                             *)

Frames == conns[ws.socket].wire

\* connect: "connecting" the first time, "reconnecting" after.
Connect(c) ==
    /\ ws.socket = NoSocket
    /\ ws.state # "disconnected"
    /\ conns[c] = Unused
    /\ \A d \in 1..c - 1 : conns[d] # Unused
    /\ ws' = [ws EXCEPT !.socket = c, !.open = FALSE,
                        !.state = IF ws.retries = 0 THEN "connecting" ELSE "reconnecting"]
    /\ shown' = Unknown
    /\ UNCHANGED <<messages, load, last>>

OnOpen ==
    /\ ws.socket # NoSocket
    /\ ~ws.open
    /\ conns[ws.socket].at # "none"
    /\ ~conns[ws.socket].cut
    /\ ws' = [ws EXCEPT !.open = TRUE, !.retries = 0, !.state = "connected"]
    /\ UNCHANGED <<conns, shown, messages, load, last>>

\* Mutant: a status is only taken when none is shown.
ShowFirst(status) == shown' = IF shown = Unknown THEN status ELSE shown

\* setMQTTStatus
Show(status) == shown' = status

\* pushChatMessage, with no look at what is shown already.
Push(id) ==
    LET all == <<id>> \o messages
    IN  messages' = SubSeq(all, 1, IF Len(all) > MaxShown THEN MaxShown ELSE Len(all))

Outdated == [load EXCEPT !.under = NoSocket]

OnMessage ==
    /\ ws.open
    /\ Frames # <<>>
    /\ ~conns[ws.socket].cut
    /\ conns' = [conns EXCEPT ![ws.socket].wire = Tail(@)]
    /\ IF Head(Frames)[1] = "chat"
       THEN /\ Push(Head(Frames)[2])
            /\ last' = Head(Frames)[2]
            /\ load' = IF load.at = "answered" THEN Outdated ELSE load
            /\ UNCHANGED shown
       ELSE Show(Head(Frames)[2]) /\ UNCHANGED <<messages, load, last>>
    /\ UNCHANGED ws

ClosedState(retries) == IF retries > MaxRetries THEN "disconnected" ELSE "reconnecting"

\* onclose, also after onerror: what was still on its way is lost.
OnClose ==
    /\ ws.socket # NoSocket
    /\ ws' = [socket |-> NoSocket, open |-> FALSE, retries |-> ws.retries + 1,
              state |-> ClosedState(ws.retries + 1)]
    /\ shown' = Unknown
    /\ conns' = [conns EXCEPT ![ws.socket].wire = <<>>]
    /\ load' = Outdated
    /\ last' = 0
    /\ UNCHANGED messages

Closed == ws.socket # NoSocket /\ conns[ws.socket].closed /\ ~conns[ws.socket].cut /\ OnClose

\* The server cannot be reached, or the browser finds the connection broken.
Fails == ws.socket # NoSocket /\ (conns[ws.socket].at = "none" \/ conns[ws.socket].cut) /\ OnClose

\* api.chatMessages: the newest rows, newest first.  A request that fails has no more
\* effect than one that is never answered.
Page == [i \in 1..(IF load.upto < PageSize THEN load.upto ELSE PageSize) |-> load.upto - i + 1]

Query ==
    /\ load.at = "asked"
    /\ mix.messages > 0
    /\ load' = [at |-> "answered", upto |-> table,
                under |-> IF ws.socket \in clients THEN ws.socket ELSE NoSocket]
    /\ UNCHANGED <<conns, ws, shown, messages, last>>

\* setMessages: the page takes the place of what is shown.
SetMessages ==
    /\ load.at = "answered"
    /\ messages' = Page
    /\ load' = [load EXCEPT !.at = "done"]
    /\ UNCHANGED <<conns, ws, shown, last>>

Attempt == (\E c \in Conns : Connect(c)) /\ UNCHANGED conns

\* What the browser's event loop does.
Browse ==
    /\ OnOpen \/ OnMessage \/ Closed
    /\ UNCHANGED <<clients, emitters, mqttVars, mix, table, cuts>>

\* What depends on the network or a timer.
Try ==
    /\ Attempt \/ Fails \/ Query \/ SetMessages
    /\ UNCHANGED <<clients, emitters, mqttVars, mix, table, cuts>>

----------------------------------------------------------------------------
(* The specification                                                       *)

Init ==
    /\ HubInit
    /\ MQTTInit
    /\ mix \in Mixes
    /\ table = 0
    /\ cuts = 0
    /\ ws = [socket |-> NoSocket, open |-> FALSE, retries |-> 0, state |-> "connecting"]
    /\ shown = Unknown
    /\ messages = <<>>
    /\ load = [at |-> "asked", upto |-> 0, under |-> NoSocket]
    /\ last = 0

Lifecycle ==
    /\ mix.links > 0
    /\ MQTT
    /\ links' <= mix.links
    /\ UNCHANGED <<hubVars, mix, table, cuts, browser>>

Next ==
    \/ Insert
    \/ Tick
    \/ \E e \in Emitters : Broadcast(e)
    \/ \E c \in Conns : Serve(c)
    \/ Network
    \/ Browse
    \/ Try
    \/ Lifecycle

Spec == Init /\ [][Next]_vars

\* The server's goroutines and the browser's event loop are scheduled, and the ticker
\* ticks for ever.  Nothing is assumed of the network, the broker or new messages.
FairSpec ==
    /\ Spec
    /\ WF_vars(Tick)
    /\ \A e \in Emitters : WF_vars(Broadcast(e))
    /\ \A c \in Conns : WF_vars(Serve(c))
    /\ WF_vars(Browse)

----------------------------------------------------------------------------
(* Properties                                                              *)

TypeOK ==
    /\ HubTypeOK(Events)
    /\ MQTTTypeOK
    /\ mix \in Mixes
    /\ table \in 0..mix.messages
    /\ cuts \in 0..mix.cuts
    /\ ws.socket \in Conns \cup {NoSocket}
    /\ ws.open => ws.socket # NoSocket /\ ws.state = "connected"
    /\ ws.retries \in 0..MaxRetries + 1
    /\ shown \in {Unknown, "connected", "disconnected"}
    /\ Len(messages) <= IF MaxShown > PageSize THEN MaxShown ELSE PageSize
    /\ load.upto \in 0..table /\ load.under \in Conns \cup {NoSocket}
    /\ last \in 0..table
    /\ load.at \in {"asked", "answered", "done"}

\* Over one connection the events of the ingest goroutine come in order and without a
\* gap, from the first one on, although clients join and are dropped in the middle of a
\* broadcast, another goroutine writes in between, and writes fail.
EventsConsecutive == [][last # 0 /\ last' # 0 => last' \in {last, last + 1}]_vars

\* The event of a message has not reached the browser yet and still will.
Pending(id) ==
    LET ingest == emitters["ingest"]
    IN  \/ Chat(id) \in Range(Frames)
        \/ ingest.event = Chat(id) /\ (ingest.at = "ready" \/ ws.socket \in ingest.left)

\* No message newer than the oldest one shown is missing if the browser's connection
\* was in the hub before the page was read and still is, unbroken, and no event came between page
\* and answer.  Otherwise one may be missing until the page is reloaded: a message that
\* came while the answer was under way is replaced by it, and after a reconnection
\* nothing is read again.
NoGapWhileConnected ==
    load.at = "done" /\ ws.socket = load.under /\ ws.socket \in clients /\ ~conns[ws.socket].cut =>
        \A id \in 1..table :
            \/ id \in Range(messages)
            \/ messages # <<>> /\ \A i \in DOMAIN messages : id < messages[i]
            \/ Pending(id)

Times(id) == Cardinality({i \in DOMAIN messages : messages[i] = id})

\* A message is shown twice only if the page had it before its event came, and never
\* three times, whatever happens to connections meanwhile.
TwiceOnlyIfPaged ==
    \A id \in Range(messages) : Times(id) <= IF id \in Range(Page) THEN 2 ELSE 1

\* A connection that was closed or that broke without a word, before it was in the hub or
\* after, is out of the hub in the end, and its goroutine has returned: the heartbeats
\* fill its buffers until a write times out.  (Closed, broken and gone are for ever.)
DeadClientsLeave ==
    []<>(\A c \in Conns : conns[c].closed \/ conns[c].cut => conns[c].at = "gone" /\ c \notin clients)

Connected == ws.state = "connected" /\ ~conns[ws.socket].cut

\* A browser that stays connected comes to show the status of the MQTT client, and comes
\* back to it after an older one was written after a newer, as the hook of its connection
\* may do.
StatusCatchesUp == []<>(Connected => shown = Status)

=============================================================================
