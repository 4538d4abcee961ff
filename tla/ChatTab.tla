------------------------------ MODULE ChatTab ------------------------------
(***************************************************************************)
(* The chat of the web client with several channels: the effect of App.tsx *)
(* that loads the newest messages of a channel, loadMoreChat for the older *)
(* ones, and stores/chatState.ts.  What the websocket loses is in          *)
(* Realtime; here each row arrives as it is written, and an answer has the *)
(* rows there as it comes.  A row is known by its id, its place in the     *)
(* table, and has a channel; the discovery of a node by a map report has   *)
(* none, and is listed with every channel.                                 *)
(***************************************************************************)
EXTENDS Integers, SequencesExt, FiniteSetsExt

CONSTANTS ChatChannels,
          PageSize,    \* show_recent_messages
          Capacity,    \* messages pushChatMessage keeps
          FirstRows,   \* what the table may hold at first
          MaxRows      \* bound: rows of the table

NoChat == "no channel"
Unnamed == "unnamed"   \* the channel of a row that has none
RowChannels == ChatChannels \cup {Unnamed}

ASSUME ChatAssumption == /\ PageSize \in Nat \ {0} /\ Capacity \in Nat \ {0}
                         /\ {NoChat, Unnamed} \cap ChatChannels = {}
                         /\ FirstRows \subseteq Seq(RowChannels)

VARIABLES chatTable,     \* the channels of the server's rows, the oldest first
          chatChannel,   \* useChatStore.channel
          chatMessages,  \* useChatStore.messages, as ids, the newest first
          chatHasMore, chatLoadingMore,
          loadedFor,     \* loadedMessagesFor, NoChat at first
          chatRequest,   \* the channel whose newest messages are asked for
          moreRequest,   \* [channel, before, stale]; stale: made from another list than is shown
          effectChannel, \* the channel the effect last ran with
          unloaded,      \* the channel whose request failed last: its banner is shown
          mixed,         \* an answer to a stale request was appended to the list
          turnedBack,    \* the channel was taken again while that of another was awaited
          cutOff         \* rows fell off the end of the list as no more was offered

chatVars == <<chatTable, chatChannel, chatMessages, chatHasMore, chatLoadingMore, loadedFor,
              chatRequest, moreRequest, effectChannel, unloaded, mixed, turnedBack, cutOff>>

NoMore == [channel |-> NoChat, before |-> 0, stale |-> FALSE]

----------------------------------------------------------------------------
(* The store and the server                                                *)

\* pushChatMessage
Push(messages, id) ==
    LET all == <<id>> \o messages IN SubSeq(all, 1, Min({Len(all), Capacity}))

\* The one list that has the ids, the newest first.
NewestFirst(ids) ==
    {rows \in [1..Cardinality(ids) -> ids] :
        /\ ToSet(rows) = ids
        /\ \A i, j \in DOMAIN rows : i < j => rows[i] > rows[j]}

\* Mutant: older rows are appended as they come.
AppendAll(messages, older) == {messages \o rows : rows \in NewestFirst(older)}

\* appendOlderChatMessages
AppendOlder(messages, older) ==
    {messages \o rows : rows \in NewestFirst(older \ ToSet(messages))}

ListedIn(channel, id) == chatTable[id] \in {channel, Unnamed}

\* The newest rows of a channel among some ids, a page of them.
ChatPage(channel, ids) ==
    LET rows == {i \in ids : ListedIn(channel, i)}
    IN  {i \in rows : Cardinality({j \in rows : i < j}) < PageSize}

----------------------------------------------------------------------------
(* The newest messages                                                     *)

ChangeChannel(c) ==
    /\ effectChannel = chatChannel
    /\ c # chatChannel
    /\ chatChannel' = c
    /\ UNCHANGED <<chatTable, chatMessages, chatHasMore, chatLoadingMore, loadedFor, chatRequest,
                   moreRequest, effectChannel, unloaded, mixed, turnedBack, cutOff>>

\* Mutant: the request of the channel before is not aborted.
RunChatEffectNoAbort ==
    /\ effectChannel # chatChannel
    /\ effectChannel' = chatChannel
    /\ IF loadedFor = chatChannel \/ chatRequest # NoChat
       THEN UNCHANGED <<chatRequest, chatHasMore>>
       ELSE chatRequest' = chatChannel /\ chatHasMore' = FALSE
    /\ turnedBack' = (loadedFor = chatChannel)
    /\ UNCHANGED <<chatTable, chatChannel, chatMessages, chatLoadingMore, loadedFor, moreRequest,
                   unloaded, mixed, cutOff>>

\* The request of the channel before is aborted; a channel that was loaded last is not
\* loaded again, and has no more to load from here on.
RunChatEffect ==
    /\ effectChannel # chatChannel
    /\ effectChannel' = chatChannel
    /\ IF loadedFor = chatChannel
       THEN chatRequest' = NoChat /\ UNCHANGED chatHasMore
       ELSE chatRequest' = chatChannel /\ chatHasMore' = FALSE
    /\ turnedBack' = (loadedFor = chatChannel)
    /\ UNCHANGED <<chatTable, chatChannel, chatMessages, chatLoadingMore, loadedFor, moreRequest,
                   unloaded, mixed, cutOff>>

AnswerChat ==
    /\ chatRequest # NoChat
    /\ LET page == ChatPage(chatRequest, DOMAIN chatTable)
       IN  /\ chatMessages' \in NewestFirst(page)
           /\ chatHasMore' = (Cardinality(page) >= PageSize)
    /\ loadedFor' = chatRequest
    /\ chatRequest' = NoChat
    /\ unloaded' = IF unloaded = chatRequest THEN NoChat ELSE unloaded
    /\ mixed' = FALSE /\ turnedBack' = FALSE /\ cutOff' = FALSE
    /\ moreRequest' = IF moreRequest = NoMore THEN NoMore ELSE [moreRequest EXCEPT !.stale = TRUE]
    /\ UNCHANGED <<chatTable, chatChannel, chatLoadingMore, effectChannel>>

FailChat ==
    /\ chatRequest # NoChat
    /\ unloaded' = chatRequest
    /\ chatRequest' = NoChat
    /\ UNCHANGED <<chatTable, chatChannel, chatMessages, chatHasMore, chatLoadingMore, loadedFor,
                   moreRequest, effectChannel, mixed, turnedBack, cutOff>>

----------------------------------------------------------------------------
(* The older messages                                                      *)

LoadMoreChat ==
    /\ effectChannel = chatChannel
    /\ ~chatLoadingMore /\ chatHasMore /\ chatMessages # <<>>
    /\ moreRequest' = [channel |-> chatChannel, before |-> Last(chatMessages),
                       stale |-> loadedFor # chatChannel]
    /\ chatLoadingMore' = TRUE
    /\ UNCHANGED <<chatTable, chatChannel, chatMessages, chatHasMore, loadedFor, chatRequest,
                   effectChannel, unloaded, mixed, turnedBack, cutOff>>

\* The answer is appended to the list that is shown by then.
AnswerMoreChat ==
    /\ moreRequest # NoMore
    /\ LET page == ChatPage(moreRequest.channel, 1..(moreRequest.before - 1))
       IN  /\ chatMessages' \in AppendOlder(chatMessages, page)
           /\ chatHasMore' = (Cardinality(page) >= PageSize)
    /\ mixed' = (mixed \/ moreRequest.stale)
    /\ moreRequest' = NoMore /\ chatLoadingMore' = FALSE
    /\ UNCHANGED <<chatTable, chatChannel, loadedFor, chatRequest, effectChannel, unloaded,
                   turnedBack, cutOff>>

FailMoreChat ==
    /\ moreRequest # NoMore
    /\ moreRequest' = NoMore /\ chatLoadingMore' = FALSE
    /\ UNCHANGED <<chatTable, chatChannel, chatMessages, chatHasMore, loadedFor, chatRequest,
                   effectChannel, unloaded, mixed, turnedBack, cutOff>>

\* A row is written, and pushed to the list whatever its channel.
WriteRow(channel) ==
    /\ Len(chatTable) < MaxRows
    /\ LET cuts == Len(chatMessages) >= Capacity
       IN  /\ chatTable' = Append(chatTable, channel)
           /\ chatMessages' = Push(chatMessages, Len(chatTable) + 1)
           /\ cutOff' = (cutOff \/ (cuts /\ ~chatHasMore))
           /\ moreRequest' = IF cuts /\ moreRequest # NoMore
                             THEN [moreRequest EXCEPT !.stale = TRUE] ELSE moreRequest
    /\ UNCHANGED <<chatChannel, chatHasMore, chatLoadingMore, loadedFor, chatRequest,
                   effectChannel, unloaded, mixed, turnedBack>>

ChatInit ==
    /\ chatTable \in FirstRows
    /\ chatChannel \in ChatChannels
    /\ effectChannel = NoChat
    /\ chatMessages = <<>> /\ chatHasMore = FALSE /\ chatLoadingMore = FALSE
    /\ loadedFor = NoChat /\ chatRequest = NoChat /\ moreRequest = NoMore
    /\ unloaded = NoChat /\ mixed = FALSE /\ turnedBack = FALSE /\ cutOff = FALSE

ChatNext ==
    \/ \E c \in ChatChannels : ChangeChannel(c)
    \/ \E c \in RowChannels : WriteRow(c)
    \/ RunChatEffect \/ AnswerChat \/ FailChat
    \/ LoadMoreChat \/ AnswerMoreChat \/ FailMoreChat

ChatSpec == ChatInit /\ [][ChatNext]_chatVars

----------------------------------------------------------------------------
(* Properties                                                              *)

ShownIDs == ToSet(chatMessages)
Oldest == Last(chatMessages)
AtRest == effectChannel = chatChannel /\ chatRequest = NoChat /\ moreRequest = NoMore

\* When nothing is under way the list is that of the channel, or a banner says that it could
\* not be loaded; no row is in it twice, and none of the channel is left out between its
\* ends; what is older can still be asked for.  Let out: older messages asked for in one
\* list and appended to another, and a channel taken again while that of another was awaited.
ChatShowsChannel ==
    /\ AtRest => loadedFor = chatChannel \/ unloaded = chatChannel
    /\ \A i, j \in DOMAIN chatMessages : i # j => chatMessages[i] # chatMessages[j]
    /\ (AtRest /\ loadedFor = chatChannel /\ ~mixed /\ chatMessages # <<>>) =>
          \A i \in Oldest..Len(chatTable) :
              ListedIn(chatChannel, i) => i \in ShownIDs
    /\ (AtRest /\ loadedFor = chatChannel /\ ~mixed /\ ~turnedBack /\ ~cutOff /\ ~chatHasMore) =>
          \A i \in DOMAIN chatTable :
              ListedIn(chatChannel, i) /\ i \notin ShownIDs => i > Oldest

=============================================================================
