------------------------------- MODULE LogTab -------------------------------
(***************************************************************************)
(* The log page of the web client on top of the capped event log: App.tsx  *)
(* (the effect that loads the first page, loadMoreLogs, the handlers of    *)
(* the filters), stores/log.ts and stores/logState.ts.  The store writes   *)
(* rows and announces them; a browser has the page open, asks for pages    *)
(* and gets the live rows over its socket, in order and some time later.   *)
(*                                                                         *)
(* A handler runs to its end, and the effect whose dependencies it changed *)
(* runs in a step of its own: an answer may come between the two, but not  *)
(* another handler, as a render runs what the one before it left to run.   *)
(* The socket stays open here; what a lost connection does is in Realtime. *)
(***************************************************************************)
EXTENDS LogStore, LogFilters, SequencesExt

CONSTANTS Content,  \* what the filters read of a row, by its id
          FilterChoices, \* filters a user may set
          MaxItems, \* the cap prependLiveLogItem keeps
          MaxOlder, \* bound: requests for older rows under way
          Clickable, \* bound: rows a user may click
          Early,    \* rows in the table when a browser comes
          MaxWatchedID \* bound: the last id handed out while a browser is there

VARIABLES watched,   \* whether a browser is there at all
          delivered, \* the last announced id its socket brought
          open,      \* page = 'log', the bootstrap being done
          filters,   \* useLogStore.filters
          eventID,   \* selectedLogEventID; 0 is none
          items,     \* useLogStore.items, as ids
          lastKey,   \* lastLoadedLogKey once something was loaded, or none
          loading,   \* logsLoading
          loadError, \* useLogStore.loadError is set
          effect,    \* the dependencies the effect last ran with
          request,   \* the first page it asked for
          older,     \* requests of loadMoreLogs that were not answered; stale: sent for
                     \* another list, or for rows another request will bring
          notes      \* history, see Notes

tabVars == <<watched, delivered, open, filters, eventID, items, lastKey, loading,
             loadError, effect, request, older, notes>>
allVars == <<vars, tabVars>>

\* Rows are counted, times are not: a page is filled, and a list holds a row at least.
\* A filter has its hops in order, and a hop column is a number or NULL.
ASSUME LogTabAssumption ==
    /\ MaxItems \in Nat \ {0}
    /\ Early \in 0..MaxID
    /\ \A id \in 1..MaxID :
          Content[id].hopStart \in Nat \cup {NoHop} /\ Content[id].hopLimit \in Nat \cup {NoHop}
    /\ \A f \in FilterChoices : NormalizeLogHopRange(f.hopRange) = f.hopRange

Row(id) == Content[id]

\* The rows of a page in the order of the query: the k-th has k - 1 newer ones before it.
Descending(ids) ==
    [k \in 1..Cardinality(ids) |-> CHOOSE id \in ids : Cardinality(Newer(ids, id)) = k - 1]

Key == [filters |-> filters, event |-> eventID]
NoKey == [filters |-> DefaultLogFilters, event |-> -1]
Dependencies == [open |-> open, key |-> Key, loadedOnce |-> lastKey # NoKey]

\* upTo: the newest row a page could have, when it was read.
NoRequest == [state |-> "none", key |-> NoKey, page |-> {}, upTo |-> 0]

\* What the run of the page remembers: rows that were written before the newest of the page
\* and whose live event is still to come ("early"), rows the page lost track of ("missed"),
\* and whether older rows were appended that are not the ones below the list ("crossed").
Notes == [early |-> {}, missed |-> {}, crossed |-> FALSE]
Crossed == [Notes EXCEPT !.crossed = TRUE]

----------------------------------------------------------------------------
(* The server's side                                                       *)

\* ListLogEvents for the filters of a request.
Query(f, before) == Page({id \in rows : StoredMatches(f, Row(id))}, before)

\* Bounds: with a browser there are fewer rows, and every prune succeeds.
Write ==
    /\ Next
    /\ watched => lastID' <= MaxWatchedID /\ misses' = 0 /\ nextPrune' >= nextPrune
    /\ UNCHANGED tabVars

----------------------------------------------------------------------------
(* Live rows                                                               *)

\* What the live filter takes otherwise than the WHERE clause: a header that started
\* without hops, blanks around a node id, another case of a channel.
Blind(f, row) ==
    \/ f.padded
    \/ f.channel # NoChannel /\ f.channel # row.channel
    \/ ~IsDefaultLogHopRange(f.hopRange) /\ row.hopStart = 0

Capped(seq) == SubSeq(seq, 1, IF Len(seq) < MaxItems THEN Len(seq) ELSE MaxItems)

\* prependLive: the row next in line reaches the list, whatever page is shown.
Deliver ==
    /\ watched
    /\ \E id \in emitted :
          /\ id > delivered
          /\ \A j \in emitted : j <= delivered \/ id <= j
          /\ delivered' = id
          /\ LET shown == LiveMatches(filters, Row(id))
                 next  == IF shown THEN Capped(<<id>> \o items) ELSE items
                 cut   == Range(items) \ Range(next)
                 blind == ~shown /\ (filters # lastKey.filters \/ Blind(filters, Row(id)))
             IN  /\ items' = next
                 /\ notes' = IF notes.crossed THEN Crossed
                             ELSE [notes EXCEPT !.missed = @ \cup (IF older # {} THEN cut ELSE {})
                                                             \cup (IF blind THEN {id} ELSE {})]
    /\ UNCHANGED <<vars, watched, open, filters, eventID, lastKey, loading, loadError,
                   effect, request, older>>

----------------------------------------------------------------------------
(* The handlers                                                            *)

Set(isOpen, f, e) ==
    /\ watched
    /\ effect = Dependencies
    /\ <<isOpen, f, e>> # <<open, filters, eventID>>
    /\ open' = isOpen /\ filters' = f /\ eventID' = e
    /\ UNCHANGED <<vars, watched, delivered, items, lastKey, loading, loadError, effect,
                   request, older, notes>>

\* navigateToPage to the log and away from it.
OpenLog == ~open /\ Set(TRUE, filters, 0)
LeaveLog == open /\ Set(FALSE, filters, 0)

\* changeLogFilters and resetLogFilters; from another page, openNodeLog.
ChangeFilters(f) == Set(TRUE, f, 0)

\* selectLogEvent, closeLogEvent
SelectEvent(id) == open /\ id \in Range(items) /\ Set(TRUE, filters, id)
CloseEvent == open /\ eventID # 0 /\ Set(TRUE, filters, 0)

----------------------------------------------------------------------------
(* The first page                                                          *)

Before(key) == IF key.event = 0 THEN 0 ELSE key.event + 1

\* The effect runs again: its last request is aborted, and a new one is sent unless the
\* page is another or the list is the one asked for.
Effect ==
    /\ watched
    /\ effect # Dependencies
    /\ effect' = Dependencies
    /\ IF open /\ lastKey # Key
       THEN /\ request' = [state |-> "sent", key |-> Key, page |-> {}, upTo |-> 0]
            /\ loading' = TRUE
       ELSE /\ request' = NoRequest
            /\ loading' = IF request = NoRequest THEN loading ELSE FALSE
    /\ UNCHANGED <<vars, watched, delivered, open, filters, eventID, items, lastKey,
                   loadError, older, notes>>

QueryInitial ==
    /\ request.state = "sent"
    /\ request' = [request EXCEPT !.state = "read",
                                  !.page  = Query(request.key.filters, Before(request.key)),
                                  !.upTo  = IF request.key.event = 0 THEN lastID
                                            ELSE request.key.event]
    /\ UNCHANGED <<vars, watched, delivered, open, filters, eventID, items, lastKey, loading,
                   loadError, effect, older, notes>>

\* setInitial.  Older rows asked for before this moment will belong to another list, and what
\* came live since the page was read goes with the list it takes the place of.
AnswerInitial ==
    /\ request.state = "read"
    /\ items' = Descending(request.page)
    /\ lastKey' = request.key
    /\ loadError' = FALSE
    /\ loading' = FALSE
    /\ request' = NoRequest
    /\ older' = {[o EXCEPT !.stale = TRUE] : o \in older}
    /\ notes' = [early   |-> {id \in 1..lastID : id > delivered /\ \E j \in request.page : id <= j},
                 missed  |-> {id \in emitted : id <= delivered /\ id > request.upTo},
                 crossed |-> FALSE]
    /\ UNCHANGED <<vars, watched, delivered, open, filters, eventID, effect>>

\* Mutant: the error is not shown.
FailInitialQuietly ==
    /\ request.state # "none"
    /\ request' = NoRequest
    /\ loading' = FALSE
    /\ UNCHANGED <<vars, watched, delivered, open, filters, eventID, items, lastKey, effect,
                   older, loadError, notes>>

FailInitial ==
    /\ request.state # "none"
    /\ request' = NoRequest
    /\ loadError' = TRUE
    /\ loading' = FALSE
    /\ UNCHANGED <<vars, watched, delivered, open, filters, eventID, items, lastKey, effect,
                   older, notes>>

----------------------------------------------------------------------------
(* loadMoreLogs                                                            *)

\* The request is not tied to the effect: nothing aborts it, and an effect that runs while it
\* is under way resets loading, so that the rows below the list can be asked for again.
LoadMore ==
    /\ open
    /\ effect = Dependencies
    /\ ~loading
    /\ items # <<>>
    /\ Cardinality(older) < MaxOlder
    /\ loading' = TRUE
    /\ older' = older \cup
          {[number |-> CHOOSE n \in 1..MaxOlder : \A o \in older : o.number # n,
            state |-> "sent", filters |-> filters, before |-> Last(items), page |-> {},
            stale |-> \E o \in older : ~o.stale]}
    /\ UNCHANGED <<vars, watched, delivered, open, filters, eventID, items, lastKey,
                   loadError, effect, request, notes>>

QueryMore(o) ==
    /\ o.state = "sent"
    /\ older' = (older \ {o}) \cup
           {[o EXCEPT !.state = "read", !.page = Query(o.filters, o.before)]}
    /\ UNCHANGED <<vars, watched, delivered, open, filters, eventID, items, lastKey, loading,
                   loadError, effect, request, notes>>

\* appendOlder, with whatever list and filters are there now.
AnswerMore(o) ==
    /\ o.state = "read"
    /\ older' = older \ {o}
    /\ items' = items \o Descending(o.page)
    /\ loadError' = FALSE
    /\ loading' = FALSE
    /\ notes' = IF o.stale \/ o.filters # lastKey.filters \/ o.filters # filters
                THEN Crossed ELSE notes
    /\ UNCHANGED <<vars, watched, delivered, open, filters, eventID, lastKey, effect, request>>

FailMore(o) ==
    /\ older' = older \ {o}
    /\ loadError' = TRUE
    /\ loading' = FALSE
    /\ UNCHANGED <<vars, watched, delivered, open, filters, eventID, items, lastKey, effect,
                   request, notes>>

----------------------------------------------------------------------------

\* A browser comes to a table with some rows, or never.
TabInit ==
    /\ watched \in BOOLEAN
    /\ IF watched
       THEN /\ rows = 1..Early /\ emitted = rows /\ lastID = Early
            /\ nextPrune = FirstPrune /\ pc = "idle" /\ misses = 0
       ELSE Init
    /\ delivered = lastID
    /\ open \in BOOLEAN /\ (open => watched)
    /\ filters = DefaultLogFilters
    /\ eventID = 0
    /\ items = <<>>
    /\ lastKey = NoKey
    /\ loading = FALSE
    /\ loadError = FALSE
    /\ effect = [open |-> FALSE, key |-> NoKey, loadedOnce |-> FALSE]
    /\ request = NoRequest
    /\ older = {}
    /\ notes = Notes

TabNext ==
    \/ Write
    \/ Deliver
    \/ OpenLog
    \/ LeaveLog
    \/ \E f \in FilterChoices : ChangeFilters(f)
    \/ \E id \in Clickable : SelectEvent(id)
    \/ CloseEvent
    \/ Effect
    \/ QueryInitial
    \/ AnswerInitial
    \/ FailInitial
    \/ LoadMore
    \/ \E o \in older : QueryMore(o) \/ AnswerMore(o) \/ FailMore(o)

TabSpec == TabInit /\ [][TabNext]_allVars

----------------------------------------------------------------------------
(* Properties                                                              *)

\* A row is above all that are older, and in the list once.  Two races are let out: a row
\* whose live event comes after a page that was read with it in the table may be anywhere
\* and twice, and older rows that were asked for another list, or asked for twice, are put
\* below this one (neither prependLive nor appendOlder checks what the list has).
ShownOnceInOrder ==
    ~notes.crossed =>
        /\ \A k, l \in DOMAIN items :
              k < l /\ items[k] \notin notes.early => items[k] > items[l]
        /\ \A id \in notes.early : Cardinality({k \in DOMAIN items : items[k] = id}) <= 2

\* No announced row is left out between the ends of the list, as long as the list is one:
\* every row that matches is shown, unless it came live while the first page was under way
\* or the filters had changed, or above the page of a selected row, or it is one the live
\* filter is blind to, or it was cut off while the rows below it were being asked for.
NothingSkipped ==
    (~notes.crossed /\ items # <<>>) =>
        \A id \in emitted \cap rows :
            (StoredMatches(lastKey.filters, Row(id)) /\ Last(items) <= id /\ id <= items[1])
                => id \in Range(items) \cup notes.missed

\* "Load more" answers no click while loading is set, so it may only be set while a
\* request is under way whose end will reset it.
LoadingHasRequest == loading => (request # NoRequest \/ older # {} )

\* When the page is at rest and shows no error, its rows are those of the filters set.
RestShowsFilters ==
    (open /\ effect = Dependencies /\ request = NoRequest /\ ~loadError /\ ~notes.crossed)
        => lastKey.filters = filters

\* A load that ended, or was given up, leaves nothing of the filters before it behind.
LoadsEnd == LoadingHasRequest /\ RestShowsFilters

=============================================================================
