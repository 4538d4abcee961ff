----------------------------- MODULE StatsPage -----------------------------
(***************************************************************************)
(* StatsPage.tsx: how the page of statistics keeps what it shows current.  *)
(* Five feeds: the activity, which is asked for again as a bucket of it    *)
(* ends, and the snapshots and histories of firmware and hardware, asked   *)
(* for again as long after an answer as the server keeps its own (see      *)
(* StatsCache).  A timer belongs to the answer that started it: only       *)
(* another answer starts the next.  One error is shown for all the feeds.  *)
(*                                                                         *)
(* Time is counted in ticks, and a timer that is due fires before the      *)
(* clock goes on.  A request takes any time.  An answer about the activity *)
(* has the buckets complete as it comes: the server keeps a period until   *)
(* its next bucket is.  Another answer has what the server's cache holds.  *)
(* What the charts make of the answers is in the second half.              *)
(***************************************************************************)
EXTENDS Integers, SequencesExt, FiniteSetsExt

CONSTANTS Feeds,          \* the feeds but the activity that are followed
          TTL,            \* cache_ttl_seconds of each
          Buckets,        \* lengths of the buckets of the activity's periods
          Cycle,          \* bound: a common multiple of the buckets, the clock starts again there
          BoundaryFloor,  \* a second
          PollFloor,      \* a minute, scaled
          DefaultTTL,     \* an hour or a day, scaled: before the first answer
          MaxRequests,    \* bound: requests of a feed under way at once
          MaxAge          \* bound: ages are told apart up to here

ASSUME StatsPageAssumption ==
    /\ {"activity", "none"} \cap Feeds = {} /\ Buckets # {} /\ Buckets \subseteq Nat \ {0}
    /\ Cycle \in Nat \ {0} /\ \A b \in Buckets : (Cycle \div b) * b = Cycle
    /\ TTL \in [Feeds -> Nat]
    /\ {BoundaryFloor, PollFloor, DefaultTTL, MaxAge} \subseteq Nat /\ MaxRequests \in Nat \ {0}

VARIABLES clock,
          requestsOut, \* requests of each feed under way
          timers,      \* ticks until each feed is asked for again, NoTimer
          age,         \* ticks since what is shown was computed, for the activity since it
                       \* came; or NotShown
          cacheAge,    \* ticks since the server computed what its cache holds
          loadError    \* the feed the error on the page is about, or "none"

statsVars == <<clock, requestsOut, timers, age, cacheAge, loadError>>

AllFeeds == Feeds \cup {"activity"}
NoTimer == -1
NotShown == -1

----------------------------------------------------------------------------
(* Delays                                                                  *)

PollDelaySeconds(ttl) == IF ttl <= 0 THEN PollFloor ELSE Max({PollFloor, ttl})

\* How long the bucket that is not complete has lasted.
SinceBoundary(now, bucket) == now - (now \div bucket) * bucket

NextBoundaryDelay(now, bucket) == Max({BoundaryFloor, bucket - SinceBoundary(now, bucket)})

\* Mutant: the longest of the delays.
LatestRefreshDelay(now) == Max({NextBoundaryDelay(now, b) : b \in Buckets})

NextRefreshDelay(now) == Min({NextBoundaryDelay(now, b) : b \in Buckets})

\* The delay after an answer that is shown; an answer without a TTL counts as none.
FeedDelay(f) ==
    IF f = "activity" THEN NextRefreshDelay(clock)
    ELSE IF TTL[f] > 0 THEN PollDelaySeconds(TTL[f]) ELSE DefaultTTL

----------------------------------------------------------------------------
(* The page                                                                *)

\* The page opens: every feed is asked for, and each but the activity has its timer already.
OpenPage ==
    /\ requestsOut = [f \in AllFeeds |-> 1]
    /\ timers = [f \in AllFeeds |-> IF f = "activity" THEN NoTimer ELSE DefaultTTL]
    /\ age = [f \in AllFeeds |-> NotShown]
    /\ loadError = "none"

\* Mutant: any answer takes the error away.
ShowAnswerClears(f, old) ==
    /\ requestsOut' = [requestsOut EXCEPT ![f] = @ - 1]
    /\ age' = [age EXCEPT ![f] = old]
    /\ timers' = [timers EXCEPT ![f] = FeedDelay(f)]
    /\ loadError' = "none"

\* An answer is shown and its timer starts; that of the activity takes any error away.
ShowAnswer(f, old) ==
    /\ requestsOut' = [requestsOut EXCEPT ![f] = @ - 1]
    /\ age' = [age EXCEPT ![f] = old]
    /\ timers' = [timers EXCEPT ![f] = FeedDelay(f)]
    /\ loadError' = IF f = "activity" THEN "none" ELSE loadError

\* The server answers from its cache, or computes anew.
AnswerFeed(f) ==
    /\ requestsOut[f] > 0
    /\ IF f = "activity" THEN ShowAnswer(f, 0) /\ UNCHANGED cacheAge
       ELSE LET old == IF cacheAge[f] \in 0..TTL[f] - 1 THEN cacheAge[f] ELSE 0
            IN  ShowAnswer(f, old) /\ cacheAge' = [cacheAge EXCEPT ![f] = old]
    /\ UNCHANGED clock

\* A request fails: nothing is shown and no timer starts.
FailFeed(f) ==
    /\ requestsOut[f] > 0
    /\ requestsOut' = [requestsOut EXCEPT ![f] = @ - 1]
    /\ loadError' = f
    /\ UNCHANGED <<clock, timers, age, cacheAge>>

\* A timer fires, and is not started again.
Refresh(f) ==
    /\ timers[f] = 0 /\ requestsOut[f] < MaxRequests
    /\ timers' = [timers EXCEPT ![f] = NoTimer]
    /\ requestsOut' = [requestsOut EXCEPT ![f] = @ + 1]
    /\ UNCHANGED <<clock, age, cacheAge, loadError>>

\* The button beside the error asks for all the feeds.
RetryAll ==
    /\ loadError # "none"
    /\ \A f \in AllFeeds : requestsOut[f] < MaxRequests
    /\ loadError' = "none"
    /\ requestsOut' = [f \in AllFeeds |-> requestsOut[f] + 1]
    /\ UNCHANGED <<clock, timers, age, cacheAge>>

\* The page is left and opened again: the answers that are still to come find no page.
ReopenPage ==
    /\ requestsOut' = [f \in AllFeeds |-> 1]
    /\ timers' = [f \in AllFeeds |-> IF f = "activity" THEN NoTimer ELSE DefaultTTL]
    /\ age' = [f \in AllFeeds |-> NotShown]
    /\ loadError' = "none"
    /\ UNCHANGED <<clock, cacheAge>>

Older(n) == IF n = -1 THEN -1 ELSE Min({n + 1, MaxAge})

ClockTick ==
    /\ \A f \in AllFeeds : timers[f] # 0
    /\ clock' = IF clock + 1 = Cycle THEN 0 ELSE clock + 1
    /\ timers' = [f \in AllFeeds |-> IF timers[f] = NoTimer THEN NoTimer ELSE timers[f] - 1]
    /\ age' = [f \in AllFeeds |-> Older(age[f])]
    /\ cacheAge' = [f \in Feeds |-> Older(cacheAge[f])]
    /\ UNCHANGED <<requestsOut, loadError>>

StatsPageInit ==
    /\ clock \in 0..Cycle - 1
    /\ cacheAge = [f \in Feeds |-> NotShown]
    /\ OpenPage

StatsPageNext ==
    \/ \E f \in AllFeeds : AnswerFeed(f) \/ FailFeed(f) \/ Refresh(f)
    \/ RetryAll \/ ReopenPage \/ ClockTick

StatsPageSpec == StatsPageInit /\ [][StatsPageNext]_statsVars

----------------------------------------------------------------------------
(* Properties                                                              *)

Awaited(f) == requestsOut[f] > 0 \/ timers[f] = 0

\* While no error is shown and no answer awaited, the activity came after the last bucket of
\* it was complete, or that was less than a second ago: whatever else failed, and whoever
\* cleared the error, it is asked for again.  Another feed whose timer runs is no
\* older than the time the server may have kept it and the time until it is asked for.
StatsCurrent ==
    /\ (loadError = "none" /\ ~Awaited("activity")) =>
          /\ age["activity"] # NotShown
          /\ \A b \in Buckets : \/ age["activity"] <= SinceBoundary(clock, b)
                                \/ SinceBoundary(clock, b) < BoundaryFloor
    /\ \A f \in Feeds : timers[f] > 0 /\ age[f] # NotShown =>
          age[f] <= TTL[f] + FeedDelay(f)

\* What the comments on the feeds' cadence say: the data follow the server's TTL while
\* nothing tells otherwise.
FeedsFollowTTL ==
    \A f \in Feeds : loadError = "none" /\ ~Awaited(f) => timers[f] > 0

----------------------------------------------------------------------------
(* The charts of the page: what they plot, and what they say of the point  *)
(* under the cursor.  A bucket, a row or a list is the sequence the server *)
(* sent; the cursor is an index from 1.  Drawing (uPlot, colours, sizes)   *)
(* is left out.                                                            *)

CONSTANTS Histories,  \* bound: what the server may send for the chart of a history
          BarSets,    \* bound: the entries it may send for the bars of a snapshot
          ActivityBuckets, \* bound: the buckets it may send, records of counts
          Metric      \* the keys of a chart's series

VARIABLES charted,    \* what the charts of a section were last given: [section, bars,
                      \* history, buckets]
          pointed,    \* the tooltips that are shown: [bars, history, activity]
          replaced    \* other data came since they were made

chartVars == <<charted, pointed, replaced>>

NoTooltip == [at |-> 0, lines |-> <<>>, total |-> 0]
NoStart == -1                    \* a week start that is missing or no date

Total(values) == FoldSeq(+, 0, values)

\* Ticks of the axis of counts: every integer up to 6, else about five steps.
IntegerSplits(max) ==
    LET ceiling == Max({1, max})
        step    == (ceiling + 4) \div 5
    IN  IF ceiling <= 6 THEN [i \in 1..ceiling + 1 |-> i - 1]
        ELSE [i \in 1..(ceiling + step - 1) \div step |-> (i - 1) * step] \o <<ceiling>>

----------------------------------------------------------------------------
(* Activity: buckets are records of counts, a metric a sequence of their keys *)

ActivityData(buckets, metric) ==
    [s \in DOMAIN metric |-> [i \in DOMAIN buckets |-> buckets[i][metric[s]]]]

HasAnyCount(buckets, metric) ==
    \E i \in DOMAIN buckets, s \in DOMAIN metric : buckets[i][metric[s]] > 0

\* All series of a bucket are told, the empty ones too.
ActivityTooltip(buckets, metric, cursor) ==
    IF cursor \notin DOMAIN buckets THEN NoTooltip
    ELSE LET values == [s \in DOMAIN metric |-> ActivityData(buckets, metric)[s][cursor]]
         IN  [at |-> cursor, total |-> Total(values),
              lines |-> [s \in DOMAIN metric |-> [label |-> metric[s], value |-> values[s]]]]

ActivityChart(buckets, metric, cursor) ==
    [plot |-> ActivityData(buckets, metric), empty |-> ~HasAnyCount(buckets, metric),
     legend |-> IF Len(metric) > 1 THEN metric ELSE <<>>,
     tooltip |-> ActivityTooltip(buckets, metric, cursor)]

----------------------------------------------------------------------------
(* Snapshots: the entries of firmware versions or of hardware models, in   *)
(* the order of the server, each with its count                            *)

BarTooltip(entries, cursor) ==
    IF cursor \notin DOMAIN entries THEN NoTooltip
    ELSE [at |-> cursor, total |-> entries[cursor].count,
          lines |-> <<[label |-> entries[cursor].label, value |-> entries[cursor].count]>>]

\* No plot without entries; the sentence below the chart sums them.
BarChart(entries, cursor) ==
    [plot |-> [i \in DOMAIN entries |-> entries[i].count], empty |-> entries = <<>>,
     summary |-> Total([i \in DOMAIN entries |-> entries[i].count]),
     tooltip |-> BarTooltip(entries, cursor)]

FirmwareSnapshotChart(versions, cursor) == BarChart(versions, cursor)
HardwareSnapshotChart(models, cursor) == BarChart(models, cursor)

----------------------------------------------------------------------------
(* Histories: [weeks, names, rows, weekStarts], a row of weeks per name    *)

\* Mutant: a short row is taken as it is.
RowAsSent(row, weeks) == row

\* A row has the length of the axis, whatever the server sent.
PaddedRow(row, weeks) ==
    IF Len(row) >= weeks THEN SubSeq(row, 1, weeks)
    ELSE row \o [i \in 1..weeks - Len(row) |-> 0]

\* firmwareWeekDate: the server's start of the week, else weeks back from now.
WeekDate(history, week, now) ==
    IF week \in DOMAIN history.weekStarts /\ history.weekStarts[week] # NoStart
    THEN history.weekStarts[week]
    ELSE now - (history.weeks - week)

\* The rows that have something in the week; their sum is the total.
HistoryTooltip(history, cursor) ==
    LET value(s) == PaddedRow(history.rows[s], history.weeks)[cursor]
        told == SelectSeq([s \in DOMAIN history.names |-> s],
                          LAMBDA s : s \in DOMAIN history.rows /\ value(s) > 0)
        lines == [k \in DOMAIN told |-> [label |-> history.names[told[k]],
                                         value |-> value(told[k])]]
    IN  IF cursor \notin 1..history.weeks \/ told = <<>> THEN NoTooltip
        ELSE [at |-> cursor, lines |-> lines,
              total |-> Total([k \in DOMAIN lines |-> lines[k].value])]

\* No plot without names or weeks.
HistoryChart(history, cursor, now) ==
    [plot |-> IF history.names = <<>> THEN <<>>
              ELSE [s \in DOMAIN history.rows |-> PaddedRow(history.rows[s], history.weeks)],
     ticks |-> [week \in 1..history.weeks |-> WeekDate(history, week, now)],
     empty |-> history.names = <<>>,
     tooltip |-> HistoryTooltip(history, cursor)]

FirmwareHistoryChart(history, cursor, now) == HistoryChart(history, cursor, now)
HardwareHistoryChart(history, cursor, now) == HistoryChart(history, cursor, now)

----------------------------------------------------------------------------
(* The page with its charts                                                *)

NothingPointed == [bars |-> NoTooltip, history |-> NoTooltip, activity |-> NoTooltip]

\* The sections of the software and of the hardware have a chart of each kind of their own.
BarsAt(cursor) ==
    IF charted.section = "software" THEN FirmwareSnapshotChart(charted.bars, cursor)
    ELSE HardwareSnapshotChart(charted.bars, cursor)
HistoryAt(cursor, now) ==
    IF charted.section = "software" THEN FirmwareHistoryChart(charted.history, cursor, now)
    ELSE HardwareHistoryChart(charted.history, cursor, now)
ActivityAt(cursor) == ActivityChart(charted.buckets, Metric, cursor)

\* The cursor comes over a point, of which there are as many as on the axis, or leaves.
PointAt(index) ==
    /\ pointed' = [bars |-> BarsAt(index).tooltip, history |-> HistoryAt(index, 0).tooltip,
                   activity |-> ActivityAt(index).tooltip]
    /\ replaced' = FALSE
    /\ UNCHANGED charted

\* Other data makes another plot; what is said of the one before stays until the cursor moves.
Replaced == replaced' = (pointed # NothingPointed) /\ UNCHANGED pointed
ShowBars(entries) == charted' = [charted EXCEPT !.bars = entries] /\ Replaced
ShowHistory(history) == charted' = [charted EXCEPT !.history = history] /\ Replaced
ShowBuckets(buckets) == charted' = [charted EXCEPT !.buckets = buckets] /\ Replaced

NoHistory == [weeks |-> 0, names |-> <<>>, rows |-> <<>>, weekStarts |-> <<>>]
ChartsInit ==
    /\ charted \in [section : {"software", "hardware"}, bars : {<<>>}, history : {NoHistory},
                    buckets : {<<>>}]
    /\ pointed = NothingPointed
    /\ replaced = FALSE
ChartsNext ==
    \/ \E index \in 0 .. Max({Len(charted.bars), charted.history.weeks, Len(charted.buckets)}) :
          PointAt(index)
    \/ \E entries \in BarSets : ShowBars(entries)
    \/ \E history \in Histories : ShowHistory(history)
    \/ \E buckets \in ActivityBuckets : ShowBuckets(buckets)

----------------------------------------------------------------------------
(* Properties                                                              *)

\* What a chart says of a point is what it plots there, whatever the server sent: all rows
\* have a point for each week, a week without nodes says nothing, the lines of a week sum up
\* to its total, no counted node is left out, and the ticks name each week once, when the
\* server dates all of them.  The tooltip of data that was replaced may be another's.
ChartsTell ==
    LET h == charted.history
        bars == BarsAt(pointed.bars.at)
        chart == HistoryAt(pointed.history.at, h.weeks)
        activity == ActivityAt(pointed.activity.at)
        column(week) == Total([s \in DOMAIN h.names |->
                                  IF s \in DOMAIN chart.plot THEN chart.plot[s][week] ELSE 0])
        counts(i) == Total([s \in DOMAIN Metric |-> activity.plot[s][i]])
    IN  /\ \A s \in DOMAIN chart.plot : Len(chart.plot[s]) = h.weeks
        /\ h.weeks <= Len(h.weekStarts) /\ (\A w \in 1..h.weeks : h.weekStarts[w] = w) =>
              chart.ticks = [w \in 1..h.weeks |-> w]
        /\ activity.empty <=> \A i \in DOMAIN charted.buckets : counts(i) = 0
        /\ bars.summary = Total(bars.plot)
        /\ ~replaced =>
              /\ pointed = [bars |-> bars.tooltip, history |-> chart.tooltip,
                            activity |-> activity.tooltip]
              /\ pointed.bars # NoTooltip => pointed.bars.total = bars.plot[pointed.bars.at]
              /\ pointed.history # NoTooltip =>
                    /\ pointed.history.total = column(pointed.history.at)
                    /\ pointed.history.total > 0
              /\ pointed.activity # NoTooltip =>
                    pointed.activity.total = counts(pointed.activity.at)
        /\ LET splits == IntegerSplits(h.weeks + Len(charted.buckets))
           IN  \A i \in 1 .. Len(splits) - 1 : splits[i] < splits[i + 1]

=============================================================================
