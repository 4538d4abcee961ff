----------------------------- MODULE LogFilters -----------------------------
(***************************************************************************)
(* What a filter of the log lets through, twice: the WHERE clause of       *)
(* ListLogEvents, which decides for a page, and prependLiveLogItem of the  *)
(* web client, which decides for a row that comes in live.  A row is a     *)
(* record of the columns the filters read; 0 stands for a hop column that  *)
(* is 0 and NoHop for one that is NULL.                                    *)
(***************************************************************************)
EXTENDS Integers, FiniteSets

CONSTANTS NoNode,   \* no node: NULL, or the empty filter
          NoChannel,\* no channel
          Lower     \* LOWER of every channel name

NoHop == -1

LogHopsMin == 0
LogHopsMax == 7
DefaultLogHopRange == [min |-> LogHopsMin, max |-> LogHopsMax]

ClampHopValue(value) ==
    IF value < LogHopsMin THEN LogHopsMin
    ELSE IF value > LogHopsMax THEN LogHopsMax ELSE value

NormalizeLogHopRange(range) ==
    LET a == ClampHopValue(range.min)
        b == ClampHopValue(range.max)
    IN  IF a > b THEN [min |-> b, max |-> a] ELSE [min |-> a, max |-> b]

IsDefaultLogHopRange(range) == range = DefaultLogHopRange

\* What the hop filter says of itself, by the class of its label.
LogHopRangeLabel(range) ==
    IF IsDefaultLogHopRange(range) THEN "all"
    ELSE IF range.max = LogHopsMax THEN "at least"
    ELSE IF range.min = range.max THEN "exactly" ELSE "between"

\* The sliders of the log page stop at each other.
ChangeHopMin(range, value) ==
    NormalizeLogHopRange([range EXCEPT !.min = IF value < range.max THEN value ELSE range.max])
ChangeHopMax(range, value) ==
    NormalizeLogHopRange([range EXCEPT !.max = IF value > range.min THEN value ELSE range.min])

\* classifyHops: the hops a packet took and the class of the badge, or no hops.
ClassifyHops(start, limit) ==
    IF start <= 0 \/ limit < 0 THEN [traversed |-> NoHop, quality |-> ""]
    ELSE IF start <= limit THEN [traversed |-> 0, quality |-> ""]
    ELSE [traversed |-> start - limit,
          quality   |-> IF limit = 0 THEN "exhausted"
                        ELSE IF start - limit <= 2 THEN "strong"
                        ELSE IF limit <= 1 THEN "weak" ELSE "good"]

\* A packet its own node brought to the broker has no hops to speak of.
SelfUpload(row) == row.node # NoNode /\ row.node = row.uploader

EventMatchesLogHopRange(row, range) ==
    \/ IsDefaultLogHopRange(range)
    \/ /\ ~SelfUpload(row)
       /\ LET hops == ClassifyHops(row.hopStart, row.hopLimit).traversed
          IN  hops # NoHop /\ range.min <= hops /\ hops <= range.max

\* The badge in the list of events.
GetHopsBadge(row) ==
    IF SelfUpload(row) THEN [traversed |-> NoHop, quality |-> ""]
    ELSE ClassifyHops(row.hopStart, row.hopLimit)

----------------------------------------------------------------------------
(* The two filters                                                         *)

DefaultLogFilters == [eventKinds |-> {}, channel |-> NoChannel, nodeID |-> NoNode,
                      padded |-> FALSE, hopRange |-> DefaultLogHopRange]

\* prependLiveLogItem; "padded" is a node id typed with blanks around it.
LiveMatches(filters, row) ==
    /\ filters.channel = NoChannel \/ row.channel = filters.channel
    /\ filters.nodeID = NoNode \/ (row.node = filters.nodeID /\ ~filters.padded)
    /\ filters.eventKinds = {} \/ row.kind \in filters.eventKinds
    /\ EventMatchesLogHopRange(row, NormalizeLogHopRange(filters.hopRange))

\* The WHERE clause of ListLogEvents, which trims the node id; the client leaves the
\* default range out.
StoredMatches(filters, row) ==
    /\ filters.channel = NoChannel \/ Lower[row.channel] = Lower[filters.channel]
    /\ filters.nodeID = NoNode \/ row.node = filters.nodeID
    /\ filters.eventKinds = {} \/ row.kind \in filters.eventKinds
    /\ \/ IsDefaultLogHopRange(filters.hopRange)
       \/ /\ row.hopStart # NoHop
          /\ row.hopLimit # NoHop
          /\ ~SelfUpload(row)
          /\ LET hops == IF row.hopStart > row.hopLimit THEN row.hopStart - row.hopLimit ELSE 0
             IN  filters.hopRange.min <= hops /\ hops <= filters.hopRange.max

=============================================================================
