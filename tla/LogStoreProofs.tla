--------------------------- MODULE LogStoreProofs ---------------------------
(***************************************************************************)
(* Proofs about the capped event log, for every cap, batch and page size:  *)
(* how many rows the table can hold, that the newest ones stay, that they  *)
(* are announced in order; and about the page of the web client that shows *)
(* them: its list falls without gaps, and its loads end.                   *)
(*                                                                         *)
(* The ids in the table are an interval that ends at the last id handed    *)
(* out, so the count of rows follows from its lower end.  What keeps it    *)
(* bounded is the distance from the last id to the next threshold.  The    *)
(* list of the page is two falling runs, the rows that came live and those *)
(* of pages (TabInv).                                                      *)
(***************************************************************************)
EXTENDS LogTab, FiniteSetTheorems, SequenceTheorems, TLAPS

Allowance == LogMaxRows + LogPruneBatchRows

\* The rows are the ids from f on.
RowsFrom(f) == f \in 1..lastID + 1 /\ rows = f..lastID

\* With the lower end at f the table respects its bound, as each point of the
\* insert leaves it.
Tight(f) ==
    LET n == lastID - f + 1
    IN  /\ pc = "idle" => n <= Allowance + Interval * misses + Interval - 1
        /\ pc # "idle" => n <= Allowance + Interval * misses + Interval
        /\ pc = "idle" /\ nextPrune # 0 => lastID < nextPrune
        /\ pc = "inserted" /\ nextPrune # 0 => lastID <= nextPrune
        /\ pc # "pruning" /\ nextPrune # 0
              => n <= Allowance + Interval * misses + lastID - (nextPrune - Interval)
        /\ pc = "pruning" => nextPrune = lastID + Interval

Numbers ==
    /\ lastID \in Nat
    /\ nextPrune \in Nat
    /\ misses \in Nat
    /\ pc \in {"idle", "inserted", "pruning"}
    /\ pc = "pruning" => LogMaxRows # 0

\* The inductive invariant.
Shape ==
    /\ Numbers
    /\ \E f \in Nat : RowsFrom(f) /\ (LogMaxRows # 0 => Tight(f))

\* In an interval the rows newer than one of them are the rest of the interval.
LEMMA NewerInInterval ==
    ASSUME NEW f \in Int, NEW l \in Int, NEW id \in f..l
    PROVE  Cardinality(Newer(f..l, id)) = l - id
<1>1. Newer(f..l, id) = (id + 1)..l
  BY DEF Newer
<1> QED
  BY <1>1, FS_Interval

\* What the DELETE leaves of an interval: all of it while it is within the allowance,
\* and otherwise its LogMaxRows newest ids.
LEMMA PrunedInterval ==
    ASSUME NEW f \in Nat, NEW l \in Nat, f >= 1, f <= l + 1
    PROVE  \E g \in Nat : /\ g >= f /\ g <= l + 1
                          /\ Pruned(f..l) = g..l
                          /\ l - g + 1 <= Allowance
<1> DEFINE Trigger == \E id \in f..l : Cardinality(Newer(f..l, id)) = Allowance
<1>0. LogMaxRows \in Nat /\ LogPruneBatchRows \in Nat /\ Allowance \in Nat /\ LogMaxRows <= Allowance
  BY LogStoreAssumption DEF Allowance
<1>1. \A id \in f..l : Cardinality(Newer(f..l, id)) = l - id
  BY NewerInInterval
<1>2. Trigger <=> l - f >= Allowance
  <2>1. ASSUME l - f >= Allowance PROVE l - Allowance \in f..l /\ l - (l - Allowance) = Allowance
    BY <2>1, <1>0
  <2> QED
    BY <2>1, <1>1, <1>0
<1>3. CASE Trigger
  <2>1. Pruned(f..l) = {id \in f..l : l - id < LogMaxRows}
    BY <1>1, <1>3 DEF Pruned, Allowance
  <2>2. {id \in f..l : l - id < LogMaxRows} = (l - LogMaxRows + 1)..l
    BY <1>0, <1>2, <1>3
  <2>3. l - LogMaxRows + 1 \in Nat /\ l - LogMaxRows + 1 >= f /\ l - LogMaxRows + 1 <= l + 1
    BY <1>0, <1>2, <1>3
  <2>4. Pruned(f..l) = (l - LogMaxRows + 1)..l
    BY <2>1, <2>2
  <2>5. l - (l - LogMaxRows + 1) + 1 <= Allowance
    BY <1>0
  <2> QED
    BY <2>3, <2>4, <2>5
<1>4. CASE ~Trigger
  <2>1. Pruned(f..l) = f..l
    BY <1>4 DEF Pruned, Allowance
  <2> QED
    BY <2>1, <1>4, <1>2, <1>0
<1> QED
  BY <1>3, <1>4

\* Initially the table is the empty interval.
LEMMA ShapeInit == Init => Shape
<1> SUFFICES ASSUME Init PROVE Shape
  OBVIOUS
<1>1. Interval \in Nat /\ Interval >= 1 /\ Allowance \in Nat
  BY LogStoreAssumption DEF Interval, Allowance
<1>2. RowsFrom(1) /\ Tight(1)
  <2>1. Interval * 0 = 0
    BY <1>1
  <2> QED
    BY <1>1, <2>1 DEF Init, RowsFrom, Tight
<1> QED
  BY <1>2 DEF Init, Shape, Numbers

\* Every step keeps the shape of the table.
LEMMA ShapeStep == Shape /\ [Next]_vars => Shape'
<1> SUFFICES ASSUME Shape, [Next]_vars PROVE Shape'
  OBVIOUS
<1> DEFINE I == Interval
           A == Allowance
<1>0. I \in Nat /\ I >= 1 /\ A \in Nat /\ A >= LogMaxRows /\ LogMaxRows \in Nat
  BY LogStoreAssumption DEF Interval, Allowance
<1>1. Numbers
  BY DEF Shape
<1>2. PICK f \in Nat : RowsFrom(f) /\ (LogMaxRows # 0 => Tight(f))
  BY DEF Shape
<1>3. I * misses \in Nat /\ I * (misses + 1) = I * misses + I
  BY <1>0, <1>1 DEF Numbers
<1>4. f >= 1 /\ f <= lastID + 1 /\ rows = f..lastID
  BY <1>2 DEF RowsFrom
<1> HIDE DEF I, A
<1>a. CASE Insert
  <2>1. Numbers' /\ RowsFrom(f)'
    BY <1>a, <1>1, <1>4 DEF Insert, Numbers, RowsFrom
  <2>2. LogMaxRows # 0 => Tight(f)'
    BY <1>a, <1>0, <1>1, <1>2, <1>3, <1>4 DEF Insert, Numbers, Tight, I, A
  <2> QED
    BY <2>1, <2>2 DEF Shape
<1>b. CASE SkipPrune
  <2>1. Numbers' /\ RowsFrom(f)'
    BY <1>b, <1>0, <1>1, <1>4 DEF SkipPrune, Return, Threshold, FirstPrune, Numbers, RowsFrom, A, Allowance
  <2>2. ASSUME LogMaxRows # 0, nextPrune = 0 PROVE Tight(f)'
    <3>1. pc' = "idle" /\ lastID' = lastID /\ misses' = misses /\ nextPrune' = A + 1 /\ lastID <= A
      BY <1>b, <1>0, <1>1, <2>2 DEF SkipPrune, Return, Threshold, FirstPrune, Numbers, A, Allowance
    <3> QED
      BY <3>1, <1>0, <1>1, <1>3, <1>4 DEF Numbers, Tight, I, A
  <2>3. ASSUME LogMaxRows # 0, nextPrune # 0 PROVE Tight(f)'
    <3>1. /\ pc = "inserted" /\ pc' = "idle"
          /\ lastID' = lastID /\ misses' = misses /\ nextPrune' = nextPrune /\ lastID < nextPrune
      BY <1>b, <1>0, <1>1, <2>3 DEF SkipPrune, Return, Threshold, Numbers
    <3> QED
      BY <3>1, <2>3, <1>0, <1>1, <1>2, <1>3, <1>4 DEF Numbers, Tight, I, A
  <2> QED
    BY <2>1, <2>2, <2>3 DEF Shape
<1>c. CASE SchedulePrune
  <2>1. Numbers' /\ RowsFrom(f)'
    BY <1>c, <1>0, <1>1, <1>4 DEF SchedulePrune, Numbers, RowsFrom, I
  <2>2. LogMaxRows # 0 => Tight(f)'
    BY <1>c, <1>0, <1>1, <1>2, <1>3, <1>4 DEF SchedulePrune, Numbers, Tight, I, A
  <2> QED
    BY <2>1, <2>2 DEF Shape
<1>d. CASE Prune
  <2>1. PICK g \in Nat : /\ g >= f /\ g <= lastID + 1
                         /\ Pruned(f..lastID) = g..lastID
                         /\ lastID - g + 1 <= A
    BY <1>1, <1>4, PrunedInterval DEF Numbers, A
  <2>2. Numbers' /\ RowsFrom(g)'
    BY <1>d, <1>1, <1>4, <2>1 DEF Prune, Return, Numbers, RowsFrom
  <2>3. I * 0 = 0
    BY <1>0
  <2>4. LogMaxRows # 0 => Tight(g)'
    BY <1>d, <1>0, <1>1, <1>2, <2>1, <2>3 DEF Prune, Return, Numbers, Tight, I, A
  <2> QED
    BY <2>2, <2>4 DEF Shape
<1>e. CASE PruneFails
  <2>1. Numbers' /\ RowsFrom(f)'
    BY <1>e, <1>1, <1>4 DEF PruneFails, Numbers, RowsFrom
  <2>2. LogMaxRows # 0 => Tight(f)'
    BY <1>e, <1>0, <1>1, <1>2, <1>3, <1>4 DEF PruneFails, Numbers, Tight, I, A
  <2> QED
    BY <2>1, <2>2 DEF Shape
<1>f. CASE Restart
  <2>1. Numbers' /\ RowsFrom(f)'
    BY <1>f, <1>1, <1>4 DEF Restart, Numbers, RowsFrom
  <2>2. LogMaxRows # 0 => Tight(f)'
    BY <1>f, <1>0, <1>1, <1>2, <1>3, <1>4 DEF Restart, Numbers, Tight, I, A
  <2> QED
    BY <2>1, <2>2 DEF Shape
<1>g. CASE UNCHANGED vars
  BY <1>g DEF Shape, Numbers, RowsFrom, Tight, vars, Allowance, Interval
<1> QED
  BY <1>a, <1>b, <1>c, <1>d, <1>e, <1>f, <1>g DEF Next

\* The rows the table can hold, for every cap and batch: RowsBounded is an invariant.
THEOREM RowsAreBounded == Spec => []RowsBounded
<1>1. Shape => RowsBounded
  <2> SUFFICES ASSUME Shape, LogMaxRows > 0
               PROVE  Cardinality(rows) <= Allowance + Interval * (misses + 1)
    BY DEF RowsBounded, Allowance
  <2>0. LogMaxRows \in Nat /\ Interval \in Nat /\ Interval >= 1 /\ Allowance \in Nat /\ Numbers
    BY LogStoreAssumption DEF Interval, Allowance, Shape
  <2>1. PICK f \in Nat : RowsFrom(f) /\ Tight(f)
    <3>1. LogMaxRows # 0
      BY <2>0
    <3> QED
      BY <3>1 DEF Shape
  <2>2. Cardinality(rows) = lastID - f + 1
    <3>1. f \in Int /\ lastID \in Int /\ f <= lastID + 1 /\ rows = f..lastID
      BY <2>0, <2>1 DEF RowsFrom, Numbers
    <3>2. Cardinality(f..lastID) = IF f > lastID THEN 0 ELSE lastID - f + 1
      BY <3>1, FS_Interval
    <3> QED
      BY <3>1, <3>2
  <2>3. Interval * misses \in Nat /\ Interval * (misses + 1) = Interval * misses + Interval
    BY <2>0 DEF Numbers
  <2>4. lastID - f + 1 <= Allowance + Interval * misses + Interval
    BY <2>0, <2>1, <2>3 DEF Tight, Numbers
  <2> QED
    BY <2>0, <2>2, <2>3, <2>4 DEF Numbers
<1> QED
  BY <1>1, ShapeInit, ShapeStep, PTL DEF Spec

\* No step deletes one of the LogMaxRows newest rows, or any row while the cap is off.
THEOREM NewestRowsStay == Spec => NewestKept
<1> DEFINE Old(id) == LogMaxRows > 0 /\ Cardinality(Newer(rows, id)) >= LogMaxRows
<1>1. Shape /\ [Next]_vars => [\A id \in rows \ rows' : Old(id)]_rows
  <2> SUFFICES ASSUME Shape, [Next]_vars, NEW id \in rows, id \notin rows' PROVE Old(id)
    OBVIOUS
  <2>0. LogMaxRows \in Nat /\ Numbers
    BY LogStoreAssumption DEF Shape
  <2>1. Prune
    BY DEF Next, Insert, SkipPrune, SchedulePrune, PruneFails, Restart, vars
  <2>2. LogMaxRows > 0
    BY <2>0, <2>1 DEF Numbers, Prune
  <2>3. PICK f \in Nat : RowsFrom(f)
    BY DEF Shape
  <2>4. Cardinality(Newer(rows, id)) \in Int
    BY <2>0, <2>3, NewerInInterval DEF RowsFrom, Numbers
  <2>5. ~(Cardinality(Newer(rows, id)) < LogMaxRows)
    BY <2>1 DEF Prune, Pruned
  <2> QED
    BY <2>0, <2>2, <2>4, <2>5
<1> QED
  BY <1>1, ShapeInit, ShapeStep, PTL DEF Spec, NewestKept

\* The row that is being inserted is the newest in the table and not yet announced.
Announcing ==
    /\ \A j \in emitted : j \in Nat /\ j <= lastID
    /\ pc # "idle" => lastID \in rows /\ \A j \in emitted : j < lastID

\* A prune leaves the newest row.
LEMMA NewestSurvives ==
    ASSUME Shape, lastID \in rows, LogMaxRows # 0
    PROVE  lastID \in Pruned(rows)
<1>1. PICK f \in Nat : RowsFrom(f)
  BY DEF Shape
<1>2. Newer(rows, lastID) = {}
  BY <1>1 DEF Shape, Numbers, RowsFrom, Newer
<1>3. Cardinality(Newer(rows, lastID)) < LogMaxRows
  BY <1>2, FS_EmptySet, LogStoreAssumption
<1> QED
  BY <1>3 DEF Pruned

LEMMA AnnouncingStep == Shape /\ Announcing /\ [Next]_vars => Announcing'
<1> SUFFICES ASSUME Shape, Announcing, [Next]_vars PROVE Announcing'
  OBVIOUS
<1>0. Numbers
  BY DEF Shape
<1>2. CASE Insert
  BY <1>0, <1>2 DEF Insert, Announcing, Numbers
<1>3. CASE SkipPrune
  BY <1>0, <1>3 DEF SkipPrune, Return, Announcing, Numbers
<1>4. CASE SchedulePrune
  BY <1>0, <1>4 DEF SchedulePrune, Announcing, Numbers
<1>5. CASE Prune
  BY <1>0, <1>5 DEF Prune, Return, Announcing, Numbers
<1>6. CASE PruneFails
  BY <1>0, <1>6 DEF PruneFails, Announcing, Numbers
<1>7. CASE Restart
  BY <1>0, <1>7 DEF Restart, Announcing, Numbers
<1>8. CASE UNCHANGED vars
  BY <1>8 DEF vars, Announcing
<1> QED
  BY <1>2, <1>3, <1>4, <1>5, <1>6, <1>7, <1>8 DEF Next

\* A row is announced once it is in the table and after all older ones, and never when
\* InsertLogEvent ended in an error.
THEOREM AnnouncedAsStored == Spec => AnnouncedInOrder
<1>1. Init => Announcing
  BY DEF Init, Announcing
<1>2. Shape /\ Announcing /\ [Next]_vars =>
         [\A id \in emitted' \ emitted :
             /\ id \in rows'
             /\ \A j \in emitted : j < id
             /\ misses' <= misses]_<<emitted, misses>>
  <2> SUFFICES ASSUME Shape, Announcing, [Next]_vars, NEW id \in emitted' \ emitted
               PROVE  id \in rows' /\ (\A j \in emitted : j < id) /\ misses' <= misses
    OBVIOUS
  <2>0. Numbers /\ LogMaxRows \in Nat
    BY LogStoreAssumption DEF Shape
  <2>1. SkipPrune \/ Prune
    BY DEF Next, Insert, SchedulePrune, PruneFails, Restart, vars
  <2>2. CASE SkipPrune
    BY <2>0, <2>2 DEF SkipPrune, Return, Announcing, Numbers
  <2>3. CASE Prune
    <3>1. id = lastID /\ pc = "pruning" /\ rows' = Pruned(rows) /\ misses' = 0
      BY <2>3 DEF Prune, Return
    <3>2. lastID \in rows /\ \A j \in emitted : j < lastID
      BY <3>1 DEF Announcing
    <3>3. lastID \in Pruned(rows)
      BY <2>0, <3>1, <3>2, NewestSurvives DEF Numbers
    <3> QED
      BY <2>0, <3>1, <3>2, <3>3 DEF Numbers
  <2> QED
    BY <2>1, <2>2, <2>3
<1> QED
  BY <1>1, <1>2, ShapeInit, ShapeStep, AnnouncingStep, PTL DEF Spec, AnnouncedInOrder
----------------------------------------------------------------------------
(* The log page.  A load ends in one of its answers, its failure or the    *)
(* effect that gives it up.  What keeps the list of old filters from       *)
(* passing for the one that was asked for is that a request has the key    *)
(* the effect last ran with: one that is answered although the user has    *)
(* chosen other filters meanwhile finds the effect still to run.           *)

\* The records the page is made of.
PageShape ==
    /\ DOMAIN request = {"state", "key", "page", "upTo"} /\ request.state \in {"none", "sent", "read"}
    /\ request # NoRequest => request.key = effect.key
    /\ DOMAIN notes = {"early", "missed", "crossed"}

PageInv == PageShape /\ LoadsEnd

\* A request under way is not the one that is none.
LEMMA UnderWay ==
    ASSUME NEW r, r.state # "none"
    PROVE  r # NoRequest
BY DEF NoRequest

\* What is noted once older rows were appended that are not the ones below the list.
LEMMA CrossedShape == DOMAIN Crossed = {"early", "missed", "crossed"} /\ Crossed.crossed
BY DEF Crossed, Notes

\* A step that leaves the page alone.
LEMMA PageStays ==
    ASSUME PageInv, older = {} => older' = {}, older # {} => older' # {},
           UNCHANGED <<open, filters, eventID, lastKey, loading, loadError, effect, request>>,
           DOMAIN notes' = DOMAIN notes, notes'.crossed <=> notes.crossed
    PROVE  PageInv'
BY DEF PageInv, PageShape, LoadsEnd, LoadingHasRequest, RestShowsFilters, Dependencies, Key

LEMMA PageStarts == TabInit => PageInv
BY DEF TabInit, PageInv, PageShape, LoadsEnd, LoadingHasRequest, RestShowsFilters, Notes,
       NoRequest, NoKey

\* Each step of the store, the socket, the user, the effect and the two kinds of requests.
LEMMA PageGoesOn == PageInv /\ [TabNext]_allVars => PageInv'
<1>1. SUFFICES ASSUME PageInv, [TabNext]_allVars PROVE PageInv'
  OBVIOUS
<1>2. CASE UNCHANGED allVars
  BY <1>1, <1>2, PageStays DEF allVars, tabVars
<1>3. CASE Write
  BY <1>1, <1>3, PageStays DEF Write, tabVars
<1>4. CASE Deliver
  <2>1. /\ UNCHANGED <<open, filters, eventID, lastKey, loading, loadError, effect, request, older>>
    BY <1>4 DEF Deliver
  <2>2. DOMAIN notes' = DOMAIN notes /\ (notes'.crossed <=> notes.crossed)
    <3>1. CASE notes.crossed
      BY <1>1, <1>4, <3>1, CrossedShape DEF Deliver, PageInv, PageShape
    <3>2. CASE ~notes.crossed
      BY <1>1, <1>4, <3>2 DEF Deliver, PageInv, PageShape
    <3> QED
      BY <3>1, <3>2
  <2> QED
    BY <1>1, <2>1, <2>2, PageStays
<1>5. ASSUME NEW isOpen, NEW f, NEW e, Set(isOpen, f, e)
      PROVE  PageInv'
  <2>1. /\ effect = Dependencies /\ <<isOpen, f, e>> # <<open, filters, eventID>>
        /\ open' = isOpen /\ filters' = f /\ eventID' = e
        /\ UNCHANGED <<lastKey, loading, loadError, effect, request, older, notes>>
    BY <1>5 DEF Set
  <2>2. effect.open = open /\ effect.key.filters = filters /\ effect.key.event = eventID
    BY <2>1 DEF Dependencies, Key
  <2>3. effect' # Dependencies'
    <3>1. /\ Dependencies'.open = isOpen /\ Dependencies'.key.filters = f
          /\ Dependencies'.key.event = e
      BY <2>1 DEF Dependencies, Key
    <3> QED
      BY <2>1, <2>2, <3>1
  <2> QED
    BY <1>1, <2>1, <2>3 DEF PageInv, PageShape, LoadsEnd, LoadingHasRequest, RestShowsFilters
<1>6. CASE OpenLog \/ LeaveLog \/ CloseEvent
  BY <1>5, <1>6 DEF OpenLog, LeaveLog, CloseEvent
<1>7. CASE (\E f \in FilterChoices : ChangeFilters(f)) \/ \E id \in Clickable : SelectEvent(id)
  BY <1>5, <1>7 DEF ChangeFilters, SelectEvent
<1>8. CASE Effect
  <2>1. /\ effect' = Dependencies
        /\ UNCHANGED <<open, filters, eventID, lastKey, loadError, older, notes>>
    BY <1>8 DEF Effect
  <2>2. CASE open /\ lastKey # Key
    <3>1. request' = [state |-> "sent", key |-> Key, page |-> {}, upTo |-> 0]
      BY <1>8, <2>2 DEF Effect
    <3>2. request' # NoRequest /\ request'.key = effect'.key
      BY <2>1, <3>1, UnderWay DEF Dependencies
    <3> QED
      BY <1>1, <2>1, <3>1, <3>2
      DEF PageInv, PageShape, LoadsEnd, LoadingHasRequest, RestShowsFilters
  <2>3. CASE ~(open /\ lastKey # Key)
    <3>1. request' = NoRequest /\ loading' = IF request = NoRequest THEN loading ELSE FALSE
      BY <1>8, <2>3 DEF Effect
    <3>2. open => lastKey.filters = filters
      BY <2>3 DEF Key
    <3>3. PageShape'
      BY <1>1, <2>1, <3>1 DEF PageInv, PageShape, NoRequest
    <3> QED
      BY <1>1, <2>1, <3>1, <3>2, <3>3
      DEF PageInv, LoadsEnd, LoadingHasRequest, RestShowsFilters
  <2> QED
    BY <2>2, <2>3
<1>9. CASE QueryInitial
  <2>1. /\ request.state = "sent" /\ request'.state = "read" /\ request'.key = request.key
        /\ DOMAIN request' = DOMAIN request
        /\ UNCHANGED <<open, filters, eventID, lastKey, loading, loadError, effect, older, notes>>
    BY <1>1, <1>9 DEF QueryInitial, PageInv, PageShape
  <2>2. request # NoRequest /\ request' # NoRequest
    BY <2>1, UnderWay
  <2> QED
    BY <1>1, <2>1, <2>2 DEF PageInv, PageShape, LoadsEnd, LoadingHasRequest, RestShowsFilters
<1>10. CASE AnswerInitial
  <2>1. /\ request.state = "read" /\ request' = NoRequest /\ lastKey' = request.key
        /\ loading' = FALSE /\ DOMAIN notes' = {"early", "missed", "crossed"}
        /\ UNCHANGED <<open, filters, eventID, effect>>
    BY <1>10 DEF AnswerInitial
  <2>2. lastKey' = effect.key
    BY <1>1, <2>1, UnderWay DEF PageInv, PageShape
  <2>3. effect' = Dependencies' => lastKey'.filters = filters'
    BY <2>1, <2>2 DEF Dependencies, Key
  <2>4. PageShape'
    BY <1>1, <2>1 DEF PageInv, PageShape, NoRequest
  <2> QED
    BY <2>1, <2>3, <2>4 DEF PageInv, LoadsEnd, LoadingHasRequest, RestShowsFilters
<1>11. CASE FailInitial
  <2>1. /\ request' = NoRequest /\ loadError' = TRUE /\ loading' = FALSE
        /\ UNCHANGED <<open, filters, eventID, lastKey, effect, older, notes>>
    BY <1>11 DEF FailInitial
  <2>2. PageShape'
    BY <1>1, <2>1 DEF PageInv, PageShape, NoRequest
  <2> QED
    BY <2>1, <2>2 DEF PageInv, LoadsEnd, LoadingHasRequest, RestShowsFilters
<1>12. CASE LoadMore
  <2>1. /\ older' # {}
        /\ UNCHANGED <<open, filters, eventID, lastKey, loadError, effect, request, notes>>
    BY <1>12 DEF LoadMore
  <2> QED
    BY <1>1, <2>1
    DEF PageInv, PageShape, LoadsEnd, LoadingHasRequest, RestShowsFilters, Dependencies, Key
<1>13. ASSUME NEW o \in older, QueryMore(o)
       PROVE  PageInv'
  <2>1. /\ older' # {} /\ older # {}
        /\ UNCHANGED <<open, filters, eventID, lastKey, loading, loadError, effect, request, notes>>
    BY <1>13 DEF QueryMore
  <2> QED
    BY <1>1, <2>1, PageStays
<1>14. ASSUME NEW o \in older, AnswerMore(o)
       PROVE  PageInv'
  <2>1. /\ loadError' = FALSE /\ loading' = FALSE
        /\ UNCHANGED <<open, filters, eventID, lastKey, effect, request>>
    BY <1>14 DEF AnswerMore
  <2>2. CASE o.stale \/ o.filters # lastKey.filters \/ o.filters # filters
    <3>1. DOMAIN notes' = {"early", "missed", "crossed"} /\ notes'.crossed
      BY <1>14, <2>2, CrossedShape DEF AnswerMore
    <3> QED
      BY <1>1, <2>1, <3>1
      DEF PageInv, PageShape, LoadsEnd, LoadingHasRequest, RestShowsFilters
  <2>3. CASE ~(o.stale \/ o.filters # lastKey.filters \/ o.filters # filters)
    <3>1. notes' = notes /\ lastKey'.filters = filters'
      BY <1>14, <2>1, <2>3 DEF AnswerMore
    <3> QED
      BY <1>1, <2>1, <3>1
      DEF PageInv, PageShape, LoadsEnd, LoadingHasRequest, RestShowsFilters
  <2> QED
    BY <2>2, <2>3
<1>15. ASSUME NEW o \in older, FailMore(o)
       PROVE  PageInv'
  <2>1. /\ loadError' = TRUE /\ loading' = FALSE
        /\ UNCHANGED <<open, filters, eventID, lastKey, effect, request, notes>>
    BY <1>15 DEF FailMore
  <2> QED
    BY <1>1, <2>1 DEF PageInv, PageShape, LoadsEnd, LoadingHasRequest, RestShowsFilters
<1> QED
  BY <1>1, <1>2, <1>3, <1>4, <1>6, <1>7, <1>8, <1>9, <1>10, <1>11, <1>12, <1>13, <1>14, <1>15
  DEF TabNext

\* Whatever the user clicks while requests for the first page and for older ones are under
\* way, "loading" is reset in the end by one of them, and a list at rest without an error is
\* the one of the filters that are set (App.tsx:490, App.tsx:842).
THEOREM PageLoadsEnd == TabSpec => []LoadsEnd
<1>1. PageInv => LoadsEnd
  BY DEF PageInv
<1> QED
  BY <1>1, PageStarts, PageGoesOn, PTL DEF TabSpec

----------------------------------------------------------------------------
(* The list of the log page.  Its rows came live, newest last, or with the *)
(* pages, which lie below: two runs that go down, one after the other.  A  *)
(* row can be in both when a page was read with it before its live event   *)
(* came; those rows are the next ones to come (EarlyNext), so that what is *)
(* put on top meanwhile is one of them or above all of the list.  From its *)
(* end up to its head the list has every row it owes (WholeFrom), as it    *)
(* has from where the older rows under way will begin (Belongs): the gap   *)
(* between them is what the page that was read has no gap in (Contiguous). *)

\* Newer ids are fewer the newer the id is.
LEMMA NewerFewer ==
    ASSUME NEW ids \in SUBSET Nat, IsFiniteSet(ids), NEW x \in ids, NEW y \in ids, x > y
    PROVE  Cardinality(Newer(ids, x)) < Cardinality(Newer(ids, y))
<1>0. \A j \in ids : j > x => j > y
  BY DEF Newer
<1>1. Newer(ids, y) \in SUBSET ids /\ Newer(ids, x) \in SUBSET Newer(ids, y)
  BY <1>0 DEF Newer
<1>2. x \in Newer(ids, y) /\ x \notin Newer(ids, x)
  BY DEF Newer
<1>3. IsFiniteSet(Newer(ids, y))
  BY <1>1, FS_Subset
<1>4. /\ Cardinality(Newer(ids, x)) <= Cardinality(Newer(ids, y))
      /\ Cardinality(Newer(ids, x)) # Cardinality(Newer(ids, y))
      /\ IsFiniteSet(Newer(ids, x))
  BY <1>1, <1>2, <1>3, FS_Subset
<1>5. Cardinality(Newer(ids, x)) \in Nat /\ Cardinality(Newer(ids, y)) \in Nat
  BY <1>3, <1>4, FS_CardinalityType
<1> QED
  BY <1>4, <1>5

\* Descending lists every id of a finite set once, the newest first.
LEMMA DescendingLists ==
    ASSUME NEW ids \in SUBSET Nat, IsFiniteSet(ids)
    PROVE  /\ Descending(ids) \in Seq(Nat)
           /\ Range(Descending(ids)) = ids
           /\ \A k, l \in 1..Len(Descending(ids)) :
                 k < l => Descending(ids)[k] > Descending(ids)[l]
<1> DEFINE N == Cardinality(ids)
           Place(id) == Cardinality(Newer(ids, id))
           D == Descending(ids)
<1>1. N \in Nat
  BY FS_CardinalityType
<1>2. \A id \in ids : Place(id) \in 0..(N - 1)
  <2>1. TAKE id \in ids
  <2>2. Newer(ids, id) \in SUBSET ids /\ id \notin Newer(ids, id)
    BY DEF Newer
  <2>3. /\ IsFiniteSet(Newer(ids, id)) /\ Place(id) <= N /\ Place(id) # N
    BY <2>2, FS_Subset
  <2>4. Place(id) \in Nat
    BY <2>3, FS_CardinalityType
  <2> QED
    BY <1>1, <2>3, <2>4
<1>3. \A x, y \in ids : x > y => Place(x) < Place(y)
  BY NewerFewer
<1>4. \A k \in 1..N : \E id \in ids : Place(id) = k - 1
  <2> DEFINE p == [id \in ids |-> Place(id)]
  <2>1. p \in Injection(ids, 0..(N - 1))
    <3>1. p \in [ids -> 0..(N - 1)]
      BY <1>2
    <3>2. \A x, y \in ids : x # y => Place(x) # Place(y)
      BY <1>2, <1>3
    <3> QED
      BY <3>1, <3>2 DEF Injection, IsInjective
  <2>2. IsFiniteSet(0..(N - 1)) /\ Cardinality(0..(N - 1)) = N
    <3>1. 0 \in Int /\ N - 1 \in Int /\ (0 > N - 1 => N = 0)
      BY <1>1
    <3>2. IsFiniteSet(0..(N - 1)) /\ Cardinality(0..(N - 1)) = IF 0 > N - 1 THEN 0 ELSE (N - 1) - 0 + 1
      BY <3>1, FS_Interval
    <3> QED
      BY <1>1, <3>1, <3>2
  <2>3. p \in Surjection(ids, 0..(N - 1))
    BY <2>1, <2>2, FS_Injection
  <2>4. TAKE k \in 1..N
  <2>5. k - 1 \in 0..(N - 1)
    BY <1>1
  <2> QED
    BY <2>3, <2>5 DEF Surjection
<1>5. \A k \in 1..N : D[k] \in ids /\ Place(D[k]) = k - 1
  BY <1>4 DEF Descending
<1>6. D \in Seq(Nat) /\ Len(D) = N /\ DOMAIN D = 1..N
  <2>1. D \in [1..N -> Nat] /\ DOMAIN D = 1..N
    BY <1>5 DEF Descending
  <2> QED
    BY <1>1, <2>1, LenProperties
<1>7. Range(D) = ids
  <2>1. \A k \in 1..N : D[k] \in ids
    BY <1>5
  <2>2. ASSUME NEW id \in ids PROVE \E k \in 1..N : D[k] = id
    <3>1. Place(id) + 1 \in 1..N /\ (Place(id) + 1) - 1 = Place(id)
      BY <1>1, <1>2
    <3>2. D[Place(id) + 1] \in ids /\ Place(D[Place(id) + 1]) = Place(id)
      BY <1>5, <3>1
    <3>3. ASSUME NEW x \in ids, Place(x) = Place(id) PROVE x = id
      <4>1. ~(x > id) /\ ~(id > x) /\ x \in Nat /\ id \in Nat
        BY <1>2, <1>3, <3>3
      <4> QED
        BY <4>1
    <3>4. D[Place(id) + 1] = id
      BY <3>2, <3>3
    <3> QED
      BY <3>1, <3>4
  <2> QED
    BY <1>6, <2>1, <2>2 DEF Range
<1>8. \A k, l \in 1..N : k < l => D[k] > D[l]
  <2>1. TAKE k, l \in 1..N
  <2>2. HAVE k < l
  <2>3. D[k] \in ids /\ D[l] \in ids /\ Place(D[k]) = k - 1 /\ Place(D[l]) = l - 1
    BY <1>5
  <2>4. Place(D[k]) < Place(D[l])
    BY <2>2, <2>3
  <2>6. ASSUME NEW x \in ids, NEW y \in ids, Place(x) < Place(y) PROVE x > y
    <3>1. ~(y > x) /\ x # y /\ x \in Nat /\ y \in Nat
      BY <1>2, <1>3, <2>6
    <3> QED
      BY <3>1
  <2> QED
    BY <2>3, <2>4, <2>6
<1> QED
  BY <1>6, <1>7, <1>8

\* A page is of the set, below its cursor, and leaves out nothing between the cursor and
\* its oldest row.
LEMMA PageBelow ==
    ASSUME NEW s \in SUBSET Nat, IsFiniteSet(s), NEW b \in Nat
    PROVE  /\ Page(s, b) \subseteq s
           /\ b > 0 => \A id \in Page(s, b) : id < b
           /\ \A id \in s : ((b > 0 => id < b) /\ \E j \in Page(s, b) : j <= id)
                                => id \in Page(s, b)
<1> DEFINE m == Below(s, b)
<1>1. m \in SUBSET s /\ \A id \in s : id \in m <=> (b > 0 => id < b)
  BY DEF Below
<1>2. Page(s, b) = {id \in m : Cardinality(Newer(m, id)) < Limit}
  BY DEF Page
<1> HIDE DEF m
<1>3. IsFiniteSet(m) /\ m \in SUBSET Nat
  BY <1>1, FS_Subset
<1>4. ASSUME NEW id \in m, NEW j \in m, Cardinality(Newer(m, j)) < Limit, j <= id
      PROVE  Cardinality(Newer(m, id)) < Limit
  <2>0. \A i \in m : i > id => i > j
    BY <1>3, <1>4
  <2>1. Newer(m, j) \in SUBSET m /\ Newer(m, id) \in SUBSET Newer(m, j)
    BY <2>0 DEF Newer
  <2>2. IsFiniteSet(Newer(m, j))
    BY <1>3, <2>1, FS_Subset
  <2>3. IsFiniteSet(Newer(m, id)) /\ Cardinality(Newer(m, id)) <= Cardinality(Newer(m, j))
    BY <2>1, <2>2, FS_Subset
  <2>4. Cardinality(Newer(m, id)) \in Nat /\ Cardinality(Newer(m, j)) \in Nat /\ Limit \in Nat
    BY <2>2, <2>3, FS_CardinalityType, LogStoreAssumption
  <2> QED
    BY <1>4, <2>3, <2>4
<1> QED
  BY <1>1, <1>2, <1>4

\* The hops a filter of a list reads are in order.
Filters == FilterChoices \cup {DefaultLogFilters}

\* Where the live filter drops a row the query would have found, it is blind to it.
LEMMA LiveFindsStored ==
    ASSUME NEW f \in Filters, NEW id \in 1..MaxID,
           StoredMatches(f, Row(id)), ~LiveMatches(f, Row(id))
    PROVE  Blind(f, Row(id))
<1> DEFINE row == Row(id)
<1>1. NormalizeLogHopRange(f.hopRange) = f.hopRange
  <2>1. NormalizeLogHopRange(DefaultLogHopRange) = DefaultLogHopRange
    BY DEF NormalizeLogHopRange, ClampHopValue, DefaultLogHopRange, LogHopsMin, LogHopsMax
  <2>2. DefaultLogFilters.hopRange = DefaultLogHopRange
    BY DEF DefaultLogFilters
  <2> QED
    BY <2>1, <2>2, LogTabAssumption DEF Filters
<1>2. row.hopStart \in Nat \cup {NoHop} /\ row.hopLimit \in Nat \cup {NoHop}
  BY LogTabAssumption DEF Row
<1>3. CASE f.channel # NoChannel /\ row.channel # f.channel
  BY <1>3 DEF Blind
<1>4. CASE f.nodeID # NoNode /\ ~(row.node = f.nodeID /\ ~f.padded)
  BY <1>4 DEF Blind, StoredMatches
<1>5. CASE ~EventMatchesLogHopRange(row, f.hopRange)
  <2>1. ~IsDefaultLogHopRange(f.hopRange)
    BY <1>5 DEF EventMatchesLogHopRange
  <2> DEFINE hops == IF row.hopStart > row.hopLimit THEN row.hopStart - row.hopLimit ELSE 0
             taken == ClassifyHops(row.hopStart, row.hopLimit).traversed
  <2>2. /\ row.hopStart # NoHop /\ row.hopLimit # NoHop /\ ~SelfUpload(row)
        /\ f.hopRange.min <= hops /\ hops <= f.hopRange.max
    BY <2>1 DEF StoredMatches
  <2>3. row.hopStart \in Nat /\ row.hopLimit \in Nat
    BY <1>2, <2>2
  <2>4. CASE row.hopStart = 0
    BY <2>1, <2>4 DEF Blind
  <2>5. CASE row.hopStart # 0
    <3>1. taken = hops
      <4>1. ~(row.hopStart <= 0 \/ row.hopLimit < 0)
        BY <2>3, <2>5
      <4>2. CASE row.hopStart <= row.hopLimit
        BY <4>1, <4>2, <2>3 DEF ClassifyHops
      <4>3. CASE ~(row.hopStart <= row.hopLimit)
        BY <4>1, <4>3, <2>3 DEF ClassifyHops
      <4> QED
        BY <4>2, <4>3
    <3>2. hops \in Nat /\ hops # NoHop
      BY <2>3 DEF NoHop
    <3> QED
      BY <1>5, <2>2, <3>1, <3>2 DEF EventMatchesLogHopRange
  <2> QED
    BY <2>4, <2>5
<1> QED
  BY <1>1, <1>3, <1>4, <1>5 DEF LiveMatches, StoredMatches

\* The ids the store and the socket have in hand.
Ids ==
    /\ lastID \in 0..MaxID
    /\ rows \subseteq 1..lastID
    /\ emitted \subseteq 1..lastID
    /\ delivered \in 0..lastID
    /\ pc # "idle" => delivered < lastID /\ \A j \in emitted : j < lastID
    /\ items \in Seq(Nat)
    /\ \A k \in DOMAIN items : items[k] \in 1..lastID
    /\ eventID \in 0..lastID
    /\ filters \in Filters

\* No row of the table that matches f lies between two of p without being one of them.
Contiguous(p, f) ==
    \A id \in rows :
        (StoredMatches(f, Row(id)) /\ (\E j \in p : j <= id) /\ \E i \in p : id <= i)
            => id \in p

\* What the requests under way have asked for and read.
OlderFields == {"number", "state", "filters", "before", "page", "stale"}

RequestFits ==
    /\ request.state = "sent" => request.key.event \in 0..lastID
    /\ request.upTo \in 0..lastID
    /\ request.page \subseteq 1..request.upTo
    /\ request.state = "read"
          => Contiguous(request.page \cup {request.upTo + 1}, request.key.filters)

OlderFits(o) ==
    /\ DOMAIN o = OlderFields
    /\ o.before \in 1..lastID
    /\ o.page \subseteq 1..(o.before - 1)
    /\ o.state = "read" => Contiguous(o.page \cup {o.before}, o.filters)

Requests ==
    /\ RequestFits
    /\ \A o \in older : OlderFits(o)
    /\ \A o, p \in older : ~o.stale /\ ~p.stale => o = p

\* An announced row the list has to have, and what makes up for it.
Due == {id \in emitted : StoredMatches(lastKey.filters, Row(id))}
Accounted == Range(items) \cup notes.missed

\* From b up to its head the list has all it has to have.
WholeFrom(b) == \A id \in Due \cap rows : b <= id /\ id <= items[1] => id \in Accounted

\* The first c rows of the list came live, after d, and the others with pages.
Live(c, d) ==
    /\ c \in 0..Len(items)
    /\ d <= delivered
    /\ \A k \in 1..c : d < items[k] /\ items[k] <= delivered
    /\ \A k, l \in 1..c : k < l => items[k] > items[l]
    /\ \A k, l \in (c + 1)..Len(items) : k < l => items[k] > items[l]

\* The rows that are both in a page and still to come are the next ones to come.
EarlyNext ==
    /\ notes.early \subseteq Nat
    /\ \A e \in notes.early : \A id \in Nat : delivered < id /\ id <= e => id \in notes.early
    /\ \A k \in 1..Len(items) : items[k] > delivered => items[k] \in notes.early
    /\ \A k, l \in 1..Len(items) :
          k < l /\ items[k] \notin notes.early => items[k] > items[l]

\* A live row that is not in the list did not match, or fell off its end.
LiveWhole(c, d) ==
    /\ \A id \in Due :
          d < id /\ id <= delivered =>
             \/ id \in notes.missed
             \/ \E k \in 1..c : items[k] = id
             \/ c > 0 /\ id < items[c]
    /\ c = 0 /\ items # <<>> =>
          \A id \in Due \cap rows : items[1] < id /\ id <= d => id \in notes.missed
    /\ c < Len(items) => WholeFrom(items[Len(items)])

\* Rows that end before b belong below the list.
Belongs(b, c) ==
    /\ items # <<>>
    /\ b > delivered => b \in notes.early
    /\ \A k \in 1..Len(items) : items[k] \notin notes.early \/ k > c => items[k] >= b
    /\ WholeFrom(b)

OneList(c, d) ==
    /\ Live(c, d)
    /\ EarlyNext
    /\ LiveWhole(c, d)
    /\ \A o \in older : ~o.stale => Belongs(o.before, c)

TabInv ==
    /\ Ids
    /\ Requests
    /\ ~notes.crossed => \E c, d \in Nat : OneList(c, d)


\* The types the arguments about the list read off Ids.
LEMMA Lists ==
    ASSUME Ids
    PROVE  /\ Len(items) \in Nat
           /\ DOMAIN items = 1..Len(items)
           /\ \A k \in 1..Len(items) : items[k] \in Nat /\ items[k] \in 1..lastID
           /\ items # <<>> <=> Len(items) > 0
           /\ lastID \in Nat /\ delivered \in Nat /\ delivered <= lastID
           /\ \A id \in emitted : id \in Nat /\ id \in 1..lastID
           /\ \A k \in 1..Len(items) : items[k] \in Range(items)
           /\ \A id \in Range(items) : \E k \in 1..Len(items) : items[k] = id
<1>1. items \in Seq(Nat) /\ Len(<<>>) = 0
  BY EmptySeq DEF Ids
<1>2. /\ Len(items) \in Nat /\ DOMAIN items = 1..Len(items)
      /\ items # <<>> => Len(items) > 0
  <2>1. Len(items) \in Nat /\ DOMAIN items = 1..Len(items)
    BY <1>1, LenProperties
  <2>2. items # <<>> => Len(items) \in Nat \ {0}
    BY <1>1, EmptySeq
  <2> QED
    BY <2>1, <2>2
<1>3. items # <<>> <=> Len(items) > 0
  BY <1>1, <1>2
<1>4. /\ \A k \in 1..Len(items) : items[k] \in Nat /\ items[k] \in 1..lastID
      /\ lastID \in Nat /\ delivered \in Nat /\ delivered <= lastID
  BY <1>2 DEF Ids
<1>5. \A id \in emitted : id \in Nat /\ id \in 1..lastID
  BY <1>4 DEF Ids
<1>6. /\ \A k \in 1..Len(items) : items[k] \in Range(items)
      /\ \A id \in Range(items) : \E k \in 1..Len(items) : items[k] = id
  BY <1>2 DEF Range
<1> QED
  BY <1>2, <1>3, <1>4, <1>5, <1>6

\* The page starts with no list, no request and nothing to come.
LEMMA TabStarts == TabInit => TabInv
<1> SUFFICES ASSUME TabInit PROVE TabInv
  OBVIOUS
<1>1. Ids
  <2>1. items = <<>> /\ eventID = 0 /\ filters = DefaultLogFilters /\ delivered = lastID
    BY DEF TabInit
  <2>2. items \in Seq(Nat) /\ DOMAIN items = 1..0
    BY <2>1, EmptySeq, LenProperties
  <2>3. CASE watched
    BY <2>1, <2>2, <2>3, LogTabAssumption DEF TabInit, Ids, Filters
  <2>4. CASE ~watched
    BY <2>1, <2>2, <2>4, LogStoreAssumption DEF TabInit, Init, Ids, Filters
  <2> QED
    BY <2>3, <2>4
<1>2. Requests
  <2>1. lastID \in Nat
    BY <1>1, Lists
  <2> QED
    BY <2>1 DEF TabInit, Requests, RequestFits, NoRequest
<1>3. OneList(0, lastID)
  <2>1. items = <<>> /\ Len(items) = 0 /\ older = {} /\ notes.early = {} /\ delivered = lastID
    BY DEF TabInit, Notes
  <2>2. lastID \in Nat
    BY <1>1 DEF Ids
  <2>3. Live(0, lastID)
    BY <2>1, <2>2 DEF Live
  <2>4. EarlyNext
    BY <2>1 DEF EarlyNext
  <2>5. LiveWhole(0, lastID)
    <3>1. \A id \in Due : ~(lastID < id /\ id <= lastID)
      BY <1>1, <2>2 DEF Due, Ids
    <3> QED
      BY <2>1, <3>1 DEF LiveWhole
  <2> QED
    BY <2>1, <2>3, <2>4, <2>5 DEF OneList
<1> QED
  BY <1>1, <1>2, <1>3 DEF TabInv, Ids

\* What a step of the store does to the ids: a new one is above all others, and a row that
\* is announced is the newest, which nobody has been told of.
StoreMoves ==
    /\ lastID' \in lastID..MaxID
    /\ \A id \in rows' : id \in rows \/ (id = lastID + 1 /\ lastID' = lastID + 1)
    /\ emitted \subseteq emitted'
    /\ \A id \in emitted' : id \in emitted \/ (id = lastID /\ delivered < lastID)
    /\ pc' # "idle" => delivered < lastID' /\ \A j \in emitted' : j < lastID'

LEMMA StoreStep == Ids /\ Next => StoreMoves
<1> SUFFICES ASSUME Ids, Next PROVE StoreMoves
  OBVIOUS
<1>0. /\ lastID \in 0..MaxID /\ MaxID \in Nat /\ rows \subseteq 1..lastID
      /\ emitted \subseteq 1..lastID /\ delivered \in 0..lastID
      /\ pc # "idle" => delivered < lastID /\ \A j \in emitted : j < lastID
  BY LogStoreAssumption DEF Ids
<1>1. CASE Insert
  BY <1>0, <1>1 DEF Insert, StoreMoves
<1>2. CASE SkipPrune
  BY <1>0, <1>2 DEF SkipPrune, Return, StoreMoves
<1>3. CASE SchedulePrune
  BY <1>0, <1>3 DEF SchedulePrune, StoreMoves
<1>4. CASE Prune
  <2>1. \A id \in rows' : id \in rows
    BY <1>4 DEF Prune, Pruned
  <2> QED
    BY <1>0, <1>4, <2>1 DEF Prune, Return, StoreMoves
<1>5. CASE PruneFails
  BY <1>0, <1>5 DEF PruneFails, StoreMoves
<1>6. CASE Restart
  BY <1>0, <1>6 DEF Restart, StoreMoves
<1> QED
  BY <1>1, <1>2, <1>3, <1>4, <1>5, <1>6 DEF Next

\* What was read without a gap stays so: rows go, and new ones come above.
LEMMA ContiguousStays ==
    ASSUME Ids, StoreMoves, NEW p \in SUBSET (1..(lastID + 1)), NEW f, UNCHANGED tabVars,
           Contiguous(p, f)
    PROVE  Contiguous(p, f)'
<1>1. ASSUME NEW id \in rows', NEW i \in p, id <= i PROVE id \in rows \/ id \in p
  <2>1. CASE id = lastID + 1
    <3>1. lastID \in Nat /\ i \in 1..(lastID + 1)
      BY DEF Ids
    <3>2. i = lastID + 1
      BY <1>1, <2>1, <3>1
    <3> QED
      BY <2>1, <3>2
  <2> QED
    BY <2>1 DEF StoreMoves
<1>2. \A id : StoredMatches(f, Row(id))' = StoredMatches(f, Row(id))
  BY DEF StoredMatches, Row, SelfUpload, IsDefaultLogHopRange
<1> QED
  BY <1>1, <1>2 DEF Contiguous

LEMMA WholeStays ==
    ASSUME Ids, StoreMoves, UNCHANGED tabVars, items # <<>>, NEW b, WholeFrom(b)
    PROVE  WholeFrom(b)'
<1>1. items \in Seq(Nat) /\ 1 \in DOMAIN items /\ items[1] \in 1..lastID
  <2>1. items \in Seq(Nat)
    BY DEF Ids
  <2>2. 1 \in DOMAIN items
    BY <2>1, EmptySeq, LenProperties
  <2> QED
    BY <2>1, <2>2 DEF Ids
<1>2. items[1] \in Range(items)
  BY <1>1 DEF Range
<1> SUFFICES ASSUME NEW id \in Due' \cap rows', b <= id, id <= items[1]
             PROVE  id \in Accounted
  BY DEF WholeFrom, tabVars, Accounted
<1>3. id \in rows
  <2>1. id \in rows \/ id = lastID + 1
    BY DEF StoreMoves
  <2>2. items[1] \in Int /\ items[1] <= lastID /\ lastID \in Int
    BY <1>1 DEF Ids
  <2> QED
    BY <2>1, <2>2
<1>4. CASE id \in emitted
  BY <1>3, <1>4 DEF Due, tabVars, WholeFrom
<1>5. CASE id \notin emitted
  <2>1. id = lastID
    BY <1>5 DEF Due, StoreMoves
  <2>2. id = items[1]
    <3>1. items[1] \in Int /\ items[1] <= lastID /\ lastID \in Int
      BY <1>1 DEF Ids
    <3> QED
      BY <2>1, <3>1
  <2> QED
    BY <1>2, <2>2 DEF Accounted
<1> QED
  BY <1>4, <1>5

LEMMA WriteKeeps == TabInv /\ Write => TabInv'
<1> SUFFICES ASSUME TabInv, Write PROVE TabInv'
  OBVIOUS
<1>1. Ids /\ Requests /\ StoreMoves /\ UNCHANGED tabVars
  BY StoreStep DEF TabInv, Write
<1>2. Ids'
  <2>1. /\ lastID \in 0..MaxID /\ rows \subseteq 1..lastID
        /\ emitted \subseteq 1..lastID /\ delivered \in 0..lastID
        /\ \A k \in DOMAIN items : items[k] \in 1..lastID
    BY <1>1 DEF Ids
  <2>2. lastID' \in 0..MaxID /\ lastID' >= lastID
    BY <1>1, <2>1, LogStoreAssumption DEF StoreMoves
  <2>3. rows' \subseteq 1..lastID' /\ emitted' \subseteq 1..lastID'
    <3>0. lastID \in Nat /\ lastID' \in Nat /\ lastID' >= lastID
      BY <2>1, <2>2
    <3>1. ASSUME NEW id \in rows' PROVE id \in 1..lastID'
      <4>1. id \in rows \/ (id = lastID + 1 /\ lastID' = lastID + 1)
        BY <1>1 DEF StoreMoves
      <4>2. CASE id \in rows
        <5>1. id \in 1..lastID
          BY <2>1, <4>2
        <5> QED
          BY <3>0, <5>1
      <4>3. CASE id = lastID + 1 /\ lastID' = lastID + 1
        BY <3>0, <4>3
      <4> QED
        BY <4>1, <4>2, <4>3
    <3>2. \A id \in emitted' : id \in 1..lastID'
      BY <1>1, <2>1, <2>2 DEF StoreMoves
    <3> QED
      BY <3>1, <3>2
  <2>4. delivered' \in 0..lastID' /\ \A k \in DOMAIN items' : items'[k] \in 1..lastID'
    BY <1>1, <2>1, <2>2 DEF tabVars
  <2> QED
    BY <1>1, <2>2, <2>3, <2>4 DEF Ids, StoreMoves, tabVars
<1>3. Requests'
  <2>0. lastID \in Nat /\ lastID' \in Nat /\ lastID' >= lastID
    BY <1>1, <1>2 DEF Ids, StoreMoves
  <2>1. /\ RequestFits /\ request' = request /\ older' = older
    BY <1>1 DEF Requests, tabVars
  <2>2. RequestFits'
    <3>1. /\ request.upTo \in 0..lastID'
          /\ request.page \cup {request.upTo + 1} \in SUBSET (1..(lastID + 1))
      <4>1. request.upTo \in 0..lastID /\ request.page \subseteq 1..request.upTo
        BY <2>1 DEF RequestFits
      <4>2. \A id \in request.page : id \in 1..(lastID + 1)
        BY <2>0, <4>1
      <4> QED
        BY <2>0, <4>1, <4>2
    <3>2. request.state = "read"
             => Contiguous(request.page \cup {request.upTo + 1}, request.key.filters)'
      BY <1>1, <2>1, <3>1, ContiguousStays DEF RequestFits
    <3>3. request.state = "sent" => request.key.event \in 0..lastID'
      BY <2>0, <2>1 DEF RequestFits
    <3> QED
      BY <2>1, <3>1, <3>2, <3>3 DEF RequestFits
  <2>3. ASSUME NEW o \in older PROVE OlderFits(o)'
    <3>1. OlderFits(o)
      BY <1>1 DEF Requests
    <3>2. o.page \cup {o.before} \in SUBSET (1..(lastID + 1)) /\ o.before \in 1..lastID'
      <4>1. o.before \in 1..lastID /\ o.page \subseteq 1..(o.before - 1)
        BY <3>1 DEF OlderFits
      <4>2. \A id \in o.page : id \in 1..(lastID + 1)
        BY <2>0, <4>1
      <4> QED
        BY <2>0, <4>1, <4>2
    <3>3. o.state = "read" => Contiguous(o.page \cup {o.before}, o.filters)'
      BY <1>1, <3>1, <3>2, ContiguousStays DEF OlderFits
    <3> QED
      BY <3>1, <3>2, <3>3 DEF OlderFits
  <2>4. \A o, p \in older : ~o.stale /\ ~p.stale => o = p
    BY <1>1 DEF Requests
  <2> QED
    BY <2>1, <2>2, <2>3, <2>4 DEF Requests
<1>4. ASSUME NEW c \in Nat, NEW d \in Nat, OneList(c, d)
      PROVE  OneList(c, d)'
  <2>1. Live(c, d)'
    BY <1>1, <1>4 DEF OneList, Live, tabVars
  <2>2. EarlyNext'
    BY <1>1, <1>4 DEF OneList, EarlyNext, tabVars
  <2>3. ASSUME NEW id \in emitted', id <= delivered PROVE id \in emitted
    BY <1>1, <2>3 DEF StoreMoves, Ids
  <2>4. LiveWhole(c, d)'
    <3>0. delivered \in Nat /\ d <= delivered /\ c \in 0..Len(items) /\ Len(items) \in Nat
      BY <1>1, <1>4, LenProperties DEF Ids, OneList, Live
    <3>1. ASSUME NEW id \in Due', d < id, id <= delivered
          PROVE  \/ id \in notes.missed
                 \/ \E k \in 1..c : items[k] = id
                 \/ c > 0 /\ id < items[c]
      <4>1. id \in Due
        BY <1>1, <2>3, <3>1 DEF Due, tabVars
      <4> QED
        BY <1>4, <3>1, <4>1 DEF OneList, LiveWhole
    <3>2. ASSUME c = 0, items # <<>>, NEW id \in Due' \cap rows', items[1] < id, id <= d
          PROVE  id \in notes.missed
      <4>1. id \in Due \cap rows
        <5>1. id \in Nat /\ id \in emitted' /\ lastID \in Nat /\ delivered <= lastID
          BY <1>1, <1>2 DEF Ids, Due
        <5>2. id \in emitted /\ id # lastID + 1
          BY <2>3, <3>0, <3>2, <5>1
        <5>3. id \in rows
          BY <1>1, <3>2, <5>2 DEF StoreMoves
        <5> QED
          BY <1>1, <3>2, <5>2, <5>3 DEF Due, tabVars
      <4> QED
        BY <1>4, <3>2, <4>1 DEF OneList, LiveWhole
    <3>3. c < Len(items) => WholeFrom(items[Len(items)])'
      <4>1. c < Len(items) => items # <<>> /\ WholeFrom(items[Len(items)])
        <5>1. Len(<<>>) = 0
          BY EmptySeq
        <5> QED
          BY <1>4, <3>0, <5>1 DEF OneList, LiveWhole
      <4>2. UNCHANGED items
        BY <1>1 DEF tabVars
      <4> QED
        BY <1>1, <4>1, <4>2, WholeStays
    <3> QED
      BY <1>1, <3>1, <3>2, <3>3 DEF LiveWhole, tabVars
  <2>5. ASSUME NEW o \in older, ~o.stale PROVE Belongs(o.before, c)'
    <3>1. Belongs(o.before, c)
      BY <1>4, <2>5 DEF OneList
    <3>2. WholeFrom(o.before)'
      BY <1>1, <3>1, WholeStays DEF Belongs
    <3> QED
      BY <1>1, <3>1, <3>2 DEF Belongs, tabVars
  <2> QED
    BY <1>1, <2>1, <2>2, <2>4, <2>5 DEF OneList, tabVars
<1> QED
  BY <1>1, <1>2, <1>3, <1>4 DEF TabInv, tabVars

LEMMA ListStays ==
    ASSUME NEW c, NEW d, OneList(c, d),
           UNCHANGED <<rows, emitted, delivered, items, lastKey, notes>>,
           \A o \in older' : ~o.stale => \E p \in older : ~p.stale /\ p.before = o.before
    PROVE  OneList(c, d)'
<1>1. \A b : WholeFrom(b) => WholeFrom(b)'
  BY DEF WholeFrom, Due, Accounted
<1>2. Live(c, d)' /\ EarlyNext'
  BY DEF OneList, Live, EarlyNext
<1>3. LiveWhole(c, d)'
  BY <1>1 DEF OneList, LiveWhole, Due
<1>4. \A o \in older' : ~o.stale => Belongs(o.before, c)'
  BY <1>1 DEF OneList, Belongs
<1> QED
  BY <1>2, <1>3, <1>4 DEF OneList

\* A step that leaves the rows and the list alone.
LEMMA TabStays ==
    ASSUME TabInv, Requests', UNCHANGED <<vars, delivered, items, lastKey, notes>>,
           eventID' \in 0..lastID, filters' \in Filters,
           \A o \in older' : ~o.stale => \E p \in older : ~p.stale /\ p.before = o.before
    PROVE  TabInv'
<1>1. Ids'
  BY DEF TabInv, Ids, vars
<1>2. \A c, d \in Nat : OneList(c, d) => OneList(c, d)'
  BY ListStays DEF vars
<1> QED
  BY <1>1, <1>2 DEF TabInv

LEMMA RequestsStay ==
    ASSUME Ids, Requests, UNCHANGED <<lastID, rows>>, UNCHANGED request \/ request' = NoRequest,
           older' \subseteq older
    PROVE  Requests'
<1>1. \A p, f : Contiguous(p, f) => Contiguous(p, f)'
  BY DEF Contiguous
<1>2. RequestFits'
  <2>1. CASE UNCHANGED request
    BY <1>1, <2>1 DEF Requests, RequestFits
  <2>2. CASE request' = NoRequest
    <3>1. lastID' \in Nat
      BY Lists
    <3>2. request'.upTo \in 0..lastID'
      BY <2>2, <3>1 DEF NoRequest
    <3> QED
      BY <2>2, <3>2 DEF RequestFits, NoRequest
  <2> QED
    BY <2>1, <2>2
<1>3. \A o \in older' : OlderFits(o)'
  BY <1>1 DEF Requests, OlderFits
<1> QED
  BY <1>2, <1>3 DEF Requests

\* The handlers of the user.
LEMMA SetKeeps ==
    ASSUME TabInv, NEW isOpen, NEW f \in Filters, NEW e \in 0..lastID, Set(isOpen, f, e)
    PROVE  TabInv'
<1>1. /\ UNCHANGED <<vars, delivered, items, lastKey, request, older, notes>>
      /\ filters' = f /\ eventID' = e
  BY DEF Set
<1>2. Requests'
  BY <1>1, RequestsStay DEF TabInv, vars
<1> QED
  BY <1>1, <1>2, TabStays

LEMMA EffectKeeps == TabInv /\ Effect => TabInv'
<1> SUFFICES ASSUME TabInv, Effect PROVE TabInv'
  OBVIOUS
<1>1. /\ UNCHANGED <<vars, delivered, filters, eventID, items, lastKey, older, notes>>
      /\ Ids /\ Requests
  BY DEF Effect, TabInv
<1>2. Requests'
  <2>1. CASE request' = NoRequest
    BY <1>1, <2>1, RequestsStay DEF vars
  <2>2. CASE request' = [state |-> "sent", key |-> Key, page |-> {}, upTo |-> 0]
    <3>1. /\ request'.key.event = eventID /\ request'.page = {} /\ request'.upTo = 0
          /\ request'.state = "sent"
      BY <2>2 DEF Key
    <3>2. RequestFits'
      <4>1. eventID \in 0..lastID /\ lastID \in Nat /\ lastID' = lastID
        BY <1>1, Lists DEF Ids, vars
      <4> QED
        BY <3>1, <4>1 DEF RequestFits
    <3>3. \A p, f : Contiguous(p, f) => Contiguous(p, f)'
      BY <1>1 DEF Contiguous, vars
    <3>4. \A o \in older' : OlderFits(o)'
      BY <1>1, <3>3 DEF Requests, OlderFits, vars
    <3> QED
      BY <1>1, <3>2, <3>4 DEF Requests
  <2> QED
    BY <2>1, <2>2 DEF Effect
<1> QED
  BY <1>1, <1>2, TabStays DEF Ids

\* What the store answers a request: rows below its cursor, or the newest, without a gap.
LEMMA QueryFinds ==
    ASSUME Ids, NEW f, NEW b \in Nat, NEW t, t = IF b > 0 THEN b ELSE lastID + 1
    PROVE  /\ Query(f, b) \subseteq 1..lastID
           /\ \A id \in Query(f, b) : id < t
           /\ Contiguous(Query(f, b) \cup {t}, f)
<1> DEFINE s == {id \in rows : StoredMatches(f, Row(id))}
           pg == Query(f, b)
<1>0. rows \subseteq 1..lastID /\ lastID \in Nat /\ t \in Nat
  BY DEF Ids
<1>1. s \subseteq 1..lastID /\ s \in SUBSET Nat
  <2>1. \A id \in s : id \in 1..lastID /\ id \in Nat
    BY <1>0
  <2> QED
    BY <2>1
<1>2. IsFiniteSet(s)
  <2>1. IsFiniteSet(1..lastID) /\ s \in SUBSET (1..lastID)
    BY <1>0, <1>1, FS_Interval
  <2> QED
    BY <2>1, FS_Subset
<1>3. /\ pg \subseteq s
      /\ b > 0 => \A id \in pg : id < b
      /\ \A id \in s : ((b > 0 => id < b) /\ \E j \in pg : j <= id) => id \in pg
  BY <1>1, <1>2, PageBelow DEF Query
<1> HIDE DEF pg
<1>4. \A id \in pg : id \in Nat /\ id < t
  <2>1. TAKE id \in pg
  <2>2. id \in 1..lastID
    BY <1>1, <1>3
  <2> QED
    BY <1>0, <1>3, <2>2
<1>5. ASSUME NEW id \in s, NEW j \in pg \cup {t}, j <= id, NEW i \in pg \cup {t}, id <= i
      PROVE  id \in pg \cup {t}
  <2>1. id \in Nat /\ i \in Nat /\ i <= t /\ j \in Nat
    BY <1>0, <1>1, <1>4, <1>5
  <2>2. CASE id = t
    BY <2>2
  <2>3. CASE id # t
    <3>1. id < t
      BY <1>0, <1>5, <2>1, <2>3
    <3>2. j \in pg
      BY <1>0, <1>5, <2>1, <3>1
    <3> QED
      BY <1>3, <1>5, <3>1, <3>2
  <2> QED
    BY <2>2, <2>3
<1>6. Contiguous(pg \cup {t}, f)
  BY <1>5 DEF Contiguous
<1>7. pg \subseteq 1..lastID
  BY <1>1, <1>3
<1> QED
  BY <1>4, <1>6, <1>7 DEF pg

LEMMA QueryInitialKeeps == PageShape /\ TabInv /\ QueryInitial => TabInv'
<1> SUFFICES ASSUME PageShape, TabInv, QueryInitial PROVE TabInv'
  OBVIOUS
<1>p. PICK pg : pg = Query(request.key.filters, Before(request.key))
  OBVIOUS
<1>u. PICK top : top = IF request.key.event = 0 THEN lastID ELSE request.key.event
  OBVIOUS
<1>r. request' = [request EXCEPT !.state = "read", !.page = pg, !.upTo = top]
  BY <1>p, <1>u DEF QueryInitial
<1>1. /\ request.state = "sent" /\ request'.state = "read" /\ request'.key = request.key
      /\ request'.page = pg /\ request'.upTo = top
      /\ UNCHANGED <<vars, delivered, filters, eventID, items, lastKey, older, notes>>
      /\ Ids /\ Requests
  BY <1>r DEF QueryInitial, PageShape, TabInv
<1>2. /\ request.key.event \in 0..lastID /\ lastID \in Nat
      /\ top \in 0..lastID /\ Before(request.key) \in Nat
      /\ top + 1 = IF Before(request.key) > 0 THEN Before(request.key) ELSE lastID + 1
  <2>1. request.key.event \in 0..lastID /\ lastID \in Nat
    BY <1>1, Lists DEF Requests, RequestFits
  <2>2. CASE request.key.event = 0
    BY <1>u, <2>1, <2>2 DEF Before
  <2>3. CASE request.key.event # 0
    BY <1>u, <2>1, <2>3 DEF Before
  <2> QED
    BY <2>1, <2>2, <2>3
<1>3. /\ pg \subseteq 1..lastID /\ \A id \in pg : id < top + 1
      /\ Contiguous(pg \cup {top + 1}, request.key.filters)
  BY <1>p, <1>1, <1>2, QueryFinds
<1>4. \A p, f : Contiguous(p, f) => Contiguous(p, f)'
  BY <1>1 DEF Contiguous, vars
<1>5. RequestFits'
  <2>1. pg \subseteq 1..top
    <3>1. \A id \in pg : id \in 1..top
      BY <1>2, <1>3
    <3> QED
      BY <3>1
  <2>2. Contiguous(pg \cup {top + 1}, request.key.filters)'
    BY <1>1, <1>3, <1>4
  <2> QED
    BY <1>1, <1>2, <2>1, <2>2 DEF RequestFits, vars
<1>6. \A o \in older' : OlderFits(o)'
  BY <1>1, <1>4 DEF Requests, OlderFits, vars
<1>7. Requests'
  BY <1>1, <1>5, <1>6 DEF Requests
<1> QED
  BY <1>1, <1>7, TabStays DEF Ids

LEMMA FailInitialKeeps == TabInv /\ FailInitial => TabInv'
<1> SUFFICES ASSUME TabInv, FailInitial PROVE TabInv'
  OBVIOUS
<1>1. /\ UNCHANGED <<vars, delivered, filters, eventID, items, lastKey, older, notes>>
      /\ request' = NoRequest
  BY DEF FailInitial
<1>2. Requests'
  BY <1>1, RequestsStay DEF TabInv, vars
<1> QED
  BY <1>1, <1>2, TabStays DEF TabInv, Ids

LEMMA FailMoreKeeps ==
    ASSUME TabInv, NEW o \in older, FailMore(o)
    PROVE  TabInv'
<1>1. /\ UNCHANGED <<vars, delivered, filters, eventID, items, lastKey, request, notes>>
      /\ older' = older \ {o}
  BY DEF FailMore
<1>2. Requests'
  BY <1>1, RequestsStay DEF TabInv, vars
<1> QED
  BY <1>1, <1>2, TabStays DEF TabInv, Ids

\* The store answers a request for older rows.
LEMMA QueryMoreKeeps ==
    ASSUME TabInv, NEW o \in older, QueryMore(o)
    PROVE  TabInv'
<1>0. PICK pg : pg = Query(o.filters, o.before)
  OBVIOUS
<1>r. PICK r : r = [o EXCEPT !.state = "read", !.page = pg]
  OBVIOUS
<1>1. /\ UNCHANGED <<vars, delivered, filters, eventID, items, lastKey, request, notes>>
      /\ older' = (older \ {o}) \cup {r}
      /\ Ids /\ Requests /\ OlderFits(o)
  BY <1>0, <1>r DEF QueryMore, TabInv, Requests
<1>2. DOMAIN o = OlderFields /\ o.before \in 1..lastID /\ lastID \in Nat
  BY <1>1 DEF OlderFits, Ids
<1>3. /\ pg \subseteq 1..lastID /\ \A id \in pg : id < o.before
      /\ Contiguous(pg \cup {o.before}, o.filters)
  <2>1. o.before \in Nat /\ o.before > 0
    BY <1>2
  <2> QED
    BY <1>0, <1>1, <2>1, QueryFinds
<1>4. /\ DOMAIN r = OlderFields /\ r.before = o.before /\ r.page = pg /\ r.filters = o.filters
      /\ r.stale = o.stale
  BY <1>2, <1>r DEF OlderFields
<1>5. \A p, f : Contiguous(p, f) => Contiguous(p, f)'
  BY <1>1 DEF Contiguous, vars
<1>6. OlderFits(r)'
  <2>1. pg \subseteq 1..(o.before - 1)
    BY <1>2, <1>3
  <2>2. /\ DOMAIN r = OlderFields /\ r.before \in 1..lastID' /\ r.page \subseteq 1..(r.before - 1)
    BY <1>1, <1>2, <1>4, <2>1 DEF vars
  <2>3. Contiguous(r.page \cup {r.before}, r.filters)'
    BY <1>3, <1>4, <1>5
  <2> QED
    BY <2>2, <2>3 DEF OlderFits
<1>7. RequestFits' /\ \A p \in older \ {o} : OlderFits(p)'
  BY <1>1, <1>5 DEF Requests, RequestFits, OlderFits, vars
<1>8. \A p, q \in older' : ~p.stale /\ ~q.stale => p = q
  BY <1>1, <1>4 DEF Requests
<1>9. Requests'
  <2>1. \A p \in older' : OlderFits(p)'
    BY <1>1, <1>6, <1>7
  <2> QED
    BY <1>7, <1>8, <2>1 DEF Requests
<1> QED
  BY <1>1, <1>4, <1>9, TabStays DEF Ids

\* From its end to its head the list has all it has to have.
LEMMA WholeFromLast ==
    ASSUME Ids, NEW c \in Nat, NEW d \in Nat, OneList(c, d), items # <<>>
    PROVE  WholeFrom(items[Len(items)])
<1> DEFINE n == Len(items)
<1>0. n \in Nat /\ n > 0 /\ c \in 0..n
  BY Lists DEF OneList, Live
<1>1. CASE c < n
  BY <1>1 DEF OneList, LiveWhole
<1>2. CASE c = n
  <2> SUFFICES ASSUME NEW id \in Due \cap rows, items[n] <= id, id <= items[1]
               PROVE  id \in Accounted
    BY DEF WholeFrom
  <2>1. 1 \in 1..c /\ c \in 1..c /\ c > 0
    BY <1>0, <1>2
  <2>2. d < items[n] /\ items[1] <= delivered
    BY <1>2, <2>1 DEF OneList, Live
  <2>3. /\ items[n] \in Nat /\ items[1] \in Nat /\ delivered \in Nat /\ id \in Nat
    BY <1>0, Lists DEF Due
  <2>4. d < id /\ id <= delivered /\ ~(id < items[c])
    BY <1>2, <2>2, <2>3
  <2>5. id \in notes.missed \/ \E k \in 1..c : items[k] = id
    BY <2>4 DEF OneList, LiveWhole
  <2> QED
    BY <1>2, <2>5, Lists DEF Accounted
<1> QED
  BY <1>0, <1>1, <1>2

\* The first page comes and is the list.
LEMMA AnswerInitialKeeps == TabInv /\ AnswerInitial => TabInv'
<1> SUFFICES ASSUME TabInv, AnswerInitial PROVE TabInv'
  OBVIOUS
<1>0. PICK pg : pg = request.page
  OBVIOUS
<1>t. PICK top : top = request.upTo
  OBVIOUS
<1>1. /\ items' = Descending(pg) /\ lastKey' = request.key /\ request' = NoRequest
      /\ older' = {[o EXCEPT !.stale = TRUE] : o \in older}
      /\ notes'.early = {id \in 1..lastID : id > delivered /\ \E j \in pg : id <= j}
      /\ notes'.missed = {id \in emitted : id <= delivered /\ id > top}
      /\ UNCHANGED <<vars, delivered, filters, eventID>> /\ request.state = "read"
  BY <1>0, <1>t DEF AnswerInitial
<1>2. /\ Ids /\ Requests /\ lastID \in Nat /\ delivered \in Nat
      /\ pg \subseteq 1..top /\ top \in 0..lastID /\ pg \subseteq 1..lastID
      /\ Contiguous(pg \cup {top + 1}, request.key.filters)
  <2>1. Ids /\ Requests /\ lastID \in Nat /\ delivered \in Nat
    BY Lists DEF TabInv
  <2>2. /\ pg \subseteq 1..top /\ top \in 0..lastID
        /\ Contiguous(pg \cup {top + 1}, request.key.filters)
    BY <1>0, <1>t, <1>1, <2>1 DEF Requests, RequestFits
  <2>3. \A id \in pg : id \in 1..lastID
    BY <2>1, <2>2
  <2> QED
    BY <2>1, <2>2, <2>3
<1>3. /\ items' \in Seq(Nat)
      /\ Range(items') = pg
      /\ \A k, l \in 1..Len(items') : k < l => items'[k] > items'[l]
  <2>1. IsFiniteSet(1..lastID) /\ pg \in SUBSET (1..lastID) /\ pg \in SUBSET Nat
    BY <1>2, FS_Interval
  <2>2. IsFiniteSet(pg)
    BY <2>1, FS_Subset
  <2> QED
    BY <1>1, <2>1, <2>2, DescendingLists
<1>4. /\ Len(items') \in Nat /\ DOMAIN items' = 1..Len(items')
      /\ \A k \in 1..Len(items') : items'[k] \in pg
      /\ \A id \in pg : \E k \in 1..Len(items') : items'[k] = id
  <2>1. Len(items') \in Nat /\ DOMAIN items' = 1..Len(items')
    BY <1>3, LenProperties
  <2> QED
    BY <1>3, <2>1 DEF Range
<1>5. Ids'
  <2>1. \A k \in DOMAIN items' : items'[k] \in 1..lastID
    BY <1>2, <1>4
  <2> QED
    BY <1>1, <1>2, <1>3, <2>1 DEF Ids, vars
<1>6. \A p, f : Contiguous(p, f) => Contiguous(p, f)'
  BY <1>1 DEF Contiguous, vars
<1>7. \A o \in older' : OlderFits(o)' /\ o.stale
  <2>1. SUFFICES ASSUME NEW p \in older, NEW o, o = [p EXCEPT !.stale = TRUE]
                 PROVE  OlderFits(o)' /\ o.stale
    BY <1>1
  <2>2. OlderFits(p)
    BY <1>2 DEF Requests
  <2>3. /\ DOMAIN o = OlderFields /\ o.before = p.before /\ o.page = p.page
        /\ o.state = p.state /\ o.filters = p.filters /\ o.stale
    BY <2>1, <2>2 DEF OlderFits, OlderFields
  <2> QED
    BY <1>1, <1>6, <2>2, <2>3 DEF OlderFits, vars
<1>8. Requests'
  <2>1. RequestFits'
    BY <1>1, <1>2 DEF RequestFits, NoRequest, vars
  <2> QED
    BY <1>7, <2>1 DEF Requests
<1>9. OneList(0, delivered)'
  <2>1. Live(0, delivered)'
    BY <1>1, <1>2, <1>3, <1>4 DEF Live
  <2>2. EarlyNext'
    <3>1. notes'.early \subseteq Nat
      BY <1>1
    <3>2. ASSUME NEW e \in notes'.early, NEW id \in Nat, delivered < id, id <= e
          PROVE  id \in notes'.early
      <4>1. PICK j \in pg : e \in 1..lastID /\ e <= j
        BY <1>1
      <4>2. j \in Nat /\ id \in 1..lastID /\ id <= j
        BY <1>2, <3>2, <4>1
      <4> QED
        BY <1>1, <3>2, <4>1, <4>2
    <3>3. ASSUME NEW k \in 1..Len(items'), items'[k] > delivered
          PROVE  items'[k] \in notes'.early
      BY <1>1, <1>2, <1>4, <3>3
    <3> QED
      BY <1>1, <1>3, <3>1, <3>2, <3>3 DEF EarlyNext
  <2>3. LiveWhole(0, delivered)'
    <3>0. ASSUME items' # <<>>, NEW id \in pg
          PROVE  items'[1] \in pg /\ id <= items'[1]
      <4>1. PICK k \in 1..Len(items') : items'[k] = id
        BY <1>4
      <4>2. 1 \in 1..Len(items')
        BY <1>4, <4>1
      <4> QED
        BY <1>2, <1>3, <1>4, <4>1, <4>2
    <3>1. ASSUME items' # <<>>, NEW id \in Due' \cap rows, items'[1] < id, id <= delivered
          PROVE  id \in notes'.missed
      <4>1. id \in emitted /\ id \in Nat /\ StoredMatches(request.key.filters, Row(id))
        BY <1>1, <1>2, <3>1, Lists DEF Due, vars
      <4>2. SUFFICES ASSUME id <= top PROVE FALSE
        BY <1>1, <1>2, <3>1, <4>1
      <4>3. items'[1] \in pg
        <5>1. Len(items') # 0
          BY <1>3, <3>1, EmptySeq
        <5>2. 1 \in 1..Len(items')
          BY <1>4, <5>1
        <5> QED
          BY <1>4, <5>2
      <4>4. items'[1] \in Nat /\ items'[1] <= id /\ id <= top + 1 /\ id # top + 1
        <5>1. items'[1] \in 1..top
          BY <1>2, <4>3
        <5>2. top \in Nat
          BY <1>2, Lists
        <5> QED
          BY <3>1, <4>1, <4>2, <5>1, <5>2
      <4>5. id \in pg
        BY <1>2, <3>1, <4>1, <4>3, <4>4 DEF Contiguous
      <4> QED
        BY <3>0, <3>1, <4>1, <4>4, <4>5
    <3>2. ASSUME 0 < Len(items') PROVE WholeFrom(items[Len(items)])'
      <4>1. SUFFICES ASSUME NEW id \in Due' \cap rows, items'[Len(items')] <= id, id <= items'[1]
                     PROVE  id \in pg
        BY <1>1, <1>3 DEF WholeFrom, Accounted, vars
      <4>2. items'[Len(items')] \in pg /\ items'[1] \in pg
        BY <1>4, <3>2
      <4>3. StoredMatches(request.key.filters, Row(id))
        BY <1>1, <4>1 DEF Due
      <4>4. id \in pg \cup {top + 1}
        BY <1>2, <4>1, <4>2, <4>3 DEF Contiguous
      <4>5. items'[1] \in 1..top /\ top \in Nat
        <5>1. items'[1] \in 1..top
          BY <1>2, <4>2
        <5>2. top \in Nat
          BY <1>2, Lists
        <5> QED
          BY <5>1, <5>2
      <4> QED
        BY <1>2, <4>1, <4>4, <4>5
    <3>3. \A id \in Due' : ~(delivered < id /\ id <= delivered)
      BY <1>1, <1>2, Lists DEF Due, vars
    <3> QED
      BY <1>1, <3>1, <3>2, <3>3 DEF LiveWhole, vars
  <2> QED
    BY <1>7, <2>1, <2>2, <2>3 DEF OneList
<1> QED
  BY <1>1, <1>2, <1>5, <1>8, <1>9 DEF TabInv

\* Older rows are asked for.
LEMMA LoadMoreKeeps == TabInv /\ LoadMore => TabInv'
<1> SUFFICES ASSUME TabInv, LoadMore PROVE TabInv'
  OBVIOUS
<1>1. PICK number, st :
         /\ st <=> \E o \in older : ~o.stale
         /\ older' = older \cup
               {[number |-> number, state |-> "sent", filters |-> filters,
                 before |-> Last(items), page |-> {}, stale |-> st]}
  BY DEF LoadMore
<1>2. PICK r : r = [number |-> number, state |-> "sent", filters |-> filters,
                    before |-> Last(items), page |-> {}, stale |-> st]
  OBVIOUS
<1>3. /\ DOMAIN r = OlderFields /\ r.state = "sent" /\ r.before = Last(items) /\ r.page = {}
      /\ r.stale = st
  BY <1>2 DEF OlderFields
<1>4. /\ older' = older \cup {r} /\ items # <<>>
      /\ UNCHANGED <<vars, delivered, filters, eventID, items, lastKey, request, notes>>
      /\ Ids /\ Requests
  BY <1>1, <1>2 DEF LoadMore, TabInv
<1>5. Ids'
  BY <1>4 DEF Ids, vars
<1>6. r.before = items[Len(items)] /\ r.before \in 1..lastID /\ Len(items) \in 1..Len(items)
  BY <1>3, <1>4, Lists DEF Last
<1>7. \A p, f : Contiguous(p, f) => Contiguous(p, f)'
  BY <1>4 DEF Contiguous, vars
<1>8. Requests'
  <2>1. OlderFits(r)'
    BY <1>3, <1>4, <1>6 DEF OlderFits, vars
  <2>2. RequestFits' /\ \A o \in older : OlderFits(o)'
    BY <1>4, <1>7 DEF Requests, RequestFits, OlderFits, vars
  <2>3. \A o, p \in older' : ~o.stale /\ ~p.stale => o = p
    BY <1>1, <1>3, <1>4 DEF Requests
  <2>4. \A o \in older' : OlderFits(o)'
    BY <1>4, <2>1, <2>2
  <2> QED
    BY <2>2, <2>3, <2>4 DEF Requests
<1>9. ASSUME NEW c \in Nat, NEW d \in Nat, OneList(c, d)
      PROVE  OneList(c, d)'
  <2>1. Belongs(r.before, c)
    <3> DEFINE n == Len(items)
    <3>0. n \in Nat /\ n \in 1..n /\ \A k \in 1..n : items[k] \in Nat
      BY <1>4, <1>6, Lists
    <3>1. r.before > delivered => r.before \in notes.early
      BY <1>6, <1>9 DEF OneList, EarlyNext
    <3>2. ASSUME NEW k \in 1..n, items[k] \notin notes.early \/ k > c
          PROVE  items[k] >= items[n]
      <4>1. CASE k = n
        BY <3>0, <4>1
      <4>2. CASE k < n /\ items[k] \notin notes.early
        BY <1>9, <3>0, <4>2 DEF OneList, EarlyNext
      <4>3. CASE k < n /\ k > c
        <5>1. k \in (c + 1)..n /\ n \in (c + 1)..n
          BY <3>0, <4>3
        <5> QED
          BY <1>9, <3>0, <4>3, <5>1 DEF OneList, Live
      <4> QED
        BY <3>0, <3>2, <4>1, <4>2, <4>3
    <3>3. WholeFrom(r.before)
      BY <1>4, <1>6, <1>9, WholeFromLast
    <3> QED
      BY <1>4, <1>6, <3>1, <3>2, <3>3 DEF Belongs
  <2>2. \A b : Belongs(b, c) => Belongs(b, c)'
    BY <1>4 DEF Belongs, WholeFrom, Due, Accounted, vars
  <2>3. \A o \in older' : ~o.stale => Belongs(o.before, c)'
    BY <1>4, <1>9, <2>1, <2>2 DEF OneList
  <2>4. Live(c, d)' /\ EarlyNext'
    BY <1>4, <1>9 DEF OneList, Live, EarlyNext, vars
  <2>5. LiveWhole(c, d)'
    BY <1>4, <1>9 DEF OneList, LiveWhole, WholeFrom, Due, Accounted, vars
  <2> QED
    BY <2>3, <2>4, <2>5 DEF OneList
<1> QED
  BY <1>4, <1>5, <1>8, <1>9 DEF TabInv

\* Older rows come and are put below the list.
LEMMA AnswerMoreKeeps ==
    ASSUME PageShape, TabInv, NEW o \in older, AnswerMore(o)
    PROVE  TabInv'
<1> DEFINE n == Len(items)
<1>0. PICK Q : Q = Descending(o.page)
  OBVIOUS
<1>1. /\ items' = items \o Q /\ older' = older \ {o} /\ o.state = "read"
      /\ UNCHANGED <<vars, delivered, filters, eventID, lastKey, request>>
      /\ Ids /\ Requests
  BY <1>0 DEF AnswerMore, TabInv
<1>2. /\ o.before \in 1..lastID /\ lastID \in Nat /\ o.page \subseteq 1..(o.before - 1)
      /\ Contiguous(o.page \cup {o.before}, o.filters)
  BY <1>1, Lists DEF Requests, OlderFits
<1>3. /\ Q \in Seq(Nat) /\ Range(Q) = o.page
      /\ \A k, l \in 1..Len(Q) : k < l => Q[k] > Q[l]
  <2>0. 1 \in Int /\ o.before - 1 \in Int
    BY <1>2
  <2>1. IsFiniteSet(1..(o.before - 1)) /\ o.page \in SUBSET (1..(o.before - 1))
        /\ o.page \in SUBSET Nat
    <3>1. IsFiniteSet(1..(o.before - 1))
      BY <2>0, FS_Interval
    <3>2. \A id \in o.page : id \in 1..(o.before - 1) /\ id \in Nat
      BY <1>2
    <3> QED
      BY <3>1, <3>2
  <2>2. IsFiniteSet(o.page)
    BY <2>1, FS_Subset
  <2> QED
    BY <1>0, <2>1, <2>2, DescendingLists
<1>4. /\ Len(Q) \in Nat
      /\ \A k \in 1..Len(Q) : Q[k] \in o.page /\ Q[k] \in Nat /\ Q[k] < o.before /\ Q[k] \in 1..lastID
      /\ \A id \in o.page : \E k \in 1..Len(Q) : Q[k] = id
  <2>1. Len(Q) \in Nat /\ DOMAIN Q = 1..Len(Q)
    BY <1>3, LenProperties
  <2>2. /\ \A k \in 1..Len(Q) : Q[k] \in o.page
        /\ \A id \in o.page : \E k \in 1..Len(Q) : Q[k] = id
    BY <1>3, <2>1 DEF Range
  <2>3. \A id \in o.page : id \in Nat /\ id < o.before /\ id \in 1..lastID
    BY <1>2
  <2> QED
    BY <2>1, <2>2, <2>3
<1>5. /\ n \in Nat /\ \A k \in 1..n : items[k] \in Nat /\ items[k] \in 1..lastID
      /\ delivered \in Nat /\ items \in Seq(Nat)
  BY <1>1, Lists DEF Ids
<1>6. /\ items' \in Seq(Nat) /\ Len(items') = n + Len(Q) /\ DOMAIN items' = 1..(n + Len(Q))
      /\ \A k \in 1..n : k \in 1..(n + Len(Q)) /\ items'[k] = items[k]
      /\ \A k \in 1..Len(Q) : n + k \in 1..(n + Len(Q)) /\ items'[n + k] = Q[k]
  <2>1. /\ items' \in Seq(Nat) /\ Len(items') = n + Len(Q)
        /\ \A k \in 1..(n + Len(Q)) : items'[k] = IF k <= n THEN items[k] ELSE Q[k - n]
    BY <1>1, <1>3, <1>5, ConcatProperties
  <2>2. DOMAIN items' = 1..(n + Len(Q))
    BY <2>1, LenProperties
  <2>3. \A k \in 1..Len(Q) : n + k \in 1..(n + Len(Q)) /\ ~(n + k <= n) /\ (n + k) - n = k
    BY <1>4, <1>5
  <2>4. \A k \in 1..n : k \in 1..(n + Len(Q)) /\ k <= n
    BY <1>4, <1>5
  <2> QED
    BY <2>1, <2>2, <2>3, <2>4
\* Every place is in the list as it was or in what was appended.
<1>7. \A k \in 1..(n + Len(Q)) :
         (k \in 1..n /\ items'[k] = items[k])
            \/ (k > n /\ k - n \in 1..Len(Q) /\ items'[k] = Q[k - n])
  <2>1. TAKE k \in 1..(n + Len(Q))
  <2>2. CASE k <= n
    BY <1>4, <1>5, <1>6, <2>2
  <2>3. CASE k > n
    <3>1. k - n \in 1..Len(Q) /\ n + (k - n) = k
      BY <1>4, <1>5, <2>3
    <3> QED
      BY <1>6, <2>3, <3>1
  <2> QED
    BY <1>5, <2>2, <2>3
<1>8. Ids'
  <2>1. \A k \in DOMAIN items' : items'[k] \in 1..lastID
    BY <1>4, <1>5, <1>6, <1>7
  <2> QED
    BY <1>1, <1>6, <2>1 DEF Ids, vars
<1>9. Requests'
  BY <1>1, RequestsStay DEF vars
<1>10. CASE o.stale \/ o.filters # lastKey.filters \/ o.filters # filters
  <2>1. notes'.crossed
    BY <1>10, CrossedShape DEF AnswerMore
  <2> QED
    BY <1>8, <1>9, <2>1 DEF TabInv
<1>11. CASE ~(o.stale \/ o.filters # lastKey.filters \/ o.filters # filters)
  <2>1. notes' = notes /\ ~o.stale /\ o.filters = lastKey.filters
    BY <1>11 DEF AnswerMore
  <2>2. ASSUME NEW c \in Nat, NEW d \in Nat, OneList(c, d)
        PROVE  OneList(c, d)'
    <3>1. Belongs(o.before, c) /\ Live(c, d) /\ EarlyNext /\ LiveWhole(c, d)
      BY <2>1, <2>2 DEF OneList
    <3>2. items # <<>> /\ n > 0 /\ c \in 0..n
      BY <1>1, <3>1, Lists DEF Belongs, Live
    <3>3. \A k \in 1..n : items[k] \notin notes.early \/ k > c => items[k] >= o.before
      BY <3>1 DEF Belongs
    <3>4. Live(c, d)'
      <4>1. c \in 0..Len(items') /\ d <= delivered
        BY <1>4, <1>5, <1>6, <3>1, <3>2 DEF Live
      <4>2. \A k \in 1..c : k \in 1..n /\ items'[k] = items[k]
        BY <1>5, <1>6, <3>2
      <4>3. ASSUME NEW k \in (c + 1)..(n + Len(Q)), NEW l \in (c + 1)..(n + Len(Q)), k < l
            PROVE  items'[k] > items'[l]
        <5>1. k \in 1..(n + Len(Q)) /\ l \in 1..(n + Len(Q)) /\ k > c
          BY <1>4, <1>5, <3>2
        <5>2. CASE l <= n
          <6>1. k \in (c + 1)..n /\ l \in (c + 1)..n /\ k \in 1..n /\ l \in 1..n
            BY <1>5, <3>2, <4>3, <5>2
          <6> QED
            BY <1>6, <3>1, <4>3, <6>1 DEF Live
        <5>3. CASE k <= n /\ l > n
          <6>1. items'[k] = items[k] /\ items[k] >= o.before /\ items[k] \in Nat
            BY <1>5, <1>7, <3>3, <5>1, <5>3
          <6>2. l - n \in 1..Len(Q) /\ items'[l] = Q[l - n]
            BY <1>5, <1>7, <5>1, <5>3
          <6> QED
            BY <1>2, <1>4, <6>1, <6>2
        <5>4. CASE k > n
          <6>1. /\ k - n \in 1..Len(Q) /\ items'[k] = Q[k - n] /\ k - n < l - n
                /\ l - n \in 1..Len(Q) /\ items'[l] = Q[l - n]
            BY <1>5, <1>7, <4>3, <5>1, <5>4
          <6> QED
            BY <1>3, <6>1
        <5> QED
          BY <1>5, <5>1, <5>2, <5>3, <5>4
      <4> QED
        BY <1>1, <1>6, <3>1, <4>1, <4>2, <4>3 DEF Live
    <3>5. EarlyNext'
      <4>1. ASSUME NEW k \in 1..Len(Q), Q[k] > delivered PROVE Q[k] \in notes.early
        <5>1. Q[k] \in Nat /\ Q[k] < o.before /\ o.before \in Nat
          BY <1>2, <1>4
        <5>2. o.before \in notes.early
          BY <1>5, <3>1, <4>1, <5>1 DEF Belongs
        <5> QED
          BY <3>1, <4>1, <5>1, <5>2 DEF EarlyNext
      <4>2. ASSUME NEW k \in 1..(n + Len(Q)), items'[k] > delivered PROVE items'[k] \in notes.early
        BY <1>7, <3>1, <4>1, <4>2 DEF EarlyNext
      <4>3. ASSUME NEW k \in 1..(n + Len(Q)), NEW l \in 1..(n + Len(Q)), k < l,
                   items'[k] \notin notes.early
            PROVE  items'[k] > items'[l]
        <5>2. CASE l <= n
          <6>1. k \in 1..n /\ l \in 1..n
            BY <1>5, <4>3, <5>2
          <6> QED
            BY <1>6, <3>1, <4>3, <6>1 DEF EarlyNext
        <5>3. CASE k <= n /\ l > n
          <6>1. items'[k] = items[k] /\ items[k] >= o.before /\ items[k] \in Nat
            BY <1>5, <1>7, <3>3, <4>3, <5>3
          <6>2. l - n \in 1..Len(Q) /\ items'[l] = Q[l - n]
            BY <1>5, <1>7, <5>3
          <6> QED
            BY <1>2, <1>4, <6>1, <6>2
        <5>4. CASE k > n
          <6>1. /\ k - n \in 1..Len(Q) /\ items'[k] = Q[k - n] /\ k - n < l - n
                /\ l - n \in 1..Len(Q) /\ items'[l] = Q[l - n]
            BY <1>5, <1>7, <4>3, <5>4
          <6> QED
            BY <1>3, <6>1
        <5> QED
          BY <1>5, <5>2, <5>3, <5>4
      <4> QED
        BY <1>1, <1>6, <2>1, <3>1, <4>2, <4>3 DEF EarlyNext
    <3>6. \A id \in Accounted : id \in Accounted'
      <4>1. \A id \in Range(items) : id \in Range(items')
        <5>1. TAKE id \in Range(items)
        <5>2. PICK k \in 1..n : items[k] = id
          BY <1>1, Lists
        <5> QED
          BY <1>6, <5>2 DEF Range
      <4> QED
        BY <2>1, <4>1 DEF Accounted
    <3>7. Due' = Due /\ rows' = rows /\ emitted' = emitted
      BY <1>1 DEF Due, vars
    <3>8. items'[1] = items[1] /\ items' # <<>>
      <4>1. 1 \in 1..n
        BY <1>5, <3>2
      <4>2. Len(items') # 0 /\ Len(<<>>) = 0
        BY <1>4, <1>5, <1>6, <3>2, EmptySeq
      <4> QED
        BY <1>6, <4>1, <4>2
    <3>9. LiveWhole(c, d)'
      <4>1. ASSUME NEW id \in Due, d < id, id <= delivered
            PROVE  \/ id \in notes.missed
                   \/ \E k \in 1..c : items'[k] = id
                   \/ c > 0 /\ id < items'[c]
        <5>1. \A k \in 1..c : k \in 1..n /\ items'[k] = items[k]
          BY <1>5, <1>6, <3>2
        <5>2. c > 0 => c \in 1..c
          BY <3>2
        <5> QED
          BY <3>1, <4>1, <5>1, <5>2 DEF LiveWhole
      <4>2. c = 0 => \A id \in Due \cap rows : items'[1] < id /\ id <= d => id \in notes.missed
        BY <3>1, <3>2, <3>8 DEF LiveWhole
      <4>3. WholeFrom(items[Len(items)])'
        <5>1. ASSUME NEW id \in Due \cap rows, items'[n + Len(Q)] <= id, id <= items[1]
              PROVE  id \in Accounted'
          <6>0. id \in Nat /\ o.before \in Nat
            BY <1>1, <1>2, Lists DEF Due
          <6>1. CASE Len(Q) = 0
            <7>1. n + Len(Q) = n /\ n \in 1..n
              BY <1>5, <3>2, <6>1
            <7>2. items[n] <= id
              BY <1>6, <5>1, <7>1
            <7>3. WholeFrom(items[n])
              BY <1>1, <2>2, <3>2, WholeFromLast
            <7> QED
              BY <3>6, <5>1, <7>2, <7>3 DEF WholeFrom
          <6>2. CASE Len(Q) # 0 /\ o.before <= id
            BY <3>1, <3>6, <5>1, <6>2 DEF Belongs, WholeFrom
          <6>3. CASE Len(Q) # 0 /\ id < o.before
            <7>1. Len(Q) \in 1..Len(Q)
              BY <1>4, <6>3
            <7>2. Q[Len(Q)] \in o.page /\ Q[Len(Q)] <= id
              BY <1>4, <1>6, <5>1, <7>1
            <7>3. id \in o.page \cup {o.before}
              <8>1. StoredMatches(o.filters, Row(id)) /\ id <= o.before /\ id \in rows
                BY <2>1, <5>1, <6>0, <6>3 DEF Due
              <8> QED
                BY <1>2, <7>2, <8>1 DEF Contiguous
            <7>4. PICK k \in 1..Len(Q) : Q[k] = id
              BY <1>4, <6>0, <6>3, <7>3
            <7>5. n + k \in DOMAIN items' /\ items'[n + k] = id
              BY <1>6, <7>4
            <7> QED
              BY <7>5 DEF Accounted, Range
          <6> QED
            BY <6>0, <6>1, <6>2, <6>3
        <5> QED
          BY <1>6, <3>7, <3>8, <5>1 DEF WholeFrom
      <4> QED
        BY <1>1, <2>1, <3>7, <4>1, <4>2, <4>3 DEF LiveWhole
    <3>10. \A p \in older' : p.stale
      BY <1>1, <2>1 DEF Requests
    <3> QED
      BY <3>4, <3>5, <3>9, <3>10 DEF OneList
  <2> QED
    BY <1>8, <1>9, <2>1, <2>2 DEF TabInv
<1> QED
  BY <1>10, <1>11

\* A row is put before the list, and the end of the list may fall off.
LEMMA Push ==
    ASSUME Ids, NEW id \in Nat, NEW next, next = Capped(<<id>> \o items)
    PROVE  /\ next \in Seq(Nat)
           /\ Len(next) \in 1..(Len(items) + 1)
           /\ next[1] = id
           /\ \A k \in 2..Len(next) : k - 1 \in 1..Len(items) /\ next[k] = items[k - 1]
<1> DEFINE s == <<id>> \o items
           m == IF Len(s) < MaxItems THEN Len(s) ELSE MaxItems
<1>1. items \in Seq(Nat) /\ Len(items) \in Nat
  BY Lists DEF Ids
<1>2. /\ s \in Seq(Nat) /\ Len(s) = 1 + Len(items)
      /\ \A k \in 1..(1 + Len(items)) : s[k] = IF k <= 1 THEN <<id>>[k] ELSE items[k - 1]
  <2>1. <<id>> \in Seq(Nat) /\ Len(<<id>>) = 1
    OBVIOUS
  <2> QED
    BY <1>1, <2>1, ConcatProperties
<1>3. s[1] = id /\ \A k \in 2..(1 + Len(items)) : s[k] = items[k - 1]
  <2>1. 1 \in 1..(1 + Len(items)) /\ <<id>>[1] = id
    BY <1>1
  <2> QED
    BY <1>1, <1>2, <2>1
<1>4. m \in 1..(1 + Len(items))
  BY <1>1, <1>2, LogTabAssumption
<1>5. \A k \in 1..m : s[k] \in Nat
  <2>1. \A k \in 1..m : k \in 1..Len(s)
    BY <1>1, <1>2, <1>4
  <2> QED
    BY <1>2, <2>1, ElementOfSeq
<1>6. next = SubSeq(s, 1, m)
  BY DEF Capped
<1> HIDE DEF s, m
<1>7. /\ next \in Seq(Nat)
      /\ Len(next) = m
      /\ \A k \in 1..m : next[k] = s[k]
  <2>1. 1 \in Int /\ m \in Int /\ 1 <= m /\ m - 1 + 1 = m
    BY <1>1, <1>4
  <2>2. /\ SubSeq(s, 1, m) \in Seq(Nat)
        /\ Len(SubSeq(s, 1, m)) = IF 1 <= m THEN m - 1 + 1 ELSE 0
        /\ \A k \in 1..(m - 1 + 1) : SubSeq(s, 1, m)[k] = s[1 + k - 1]
    BY <1>5, <2>1, SubSeqProperties
  <2>3. \A k \in 1..m : 1 + k - 1 = k
    BY <2>1
  <2> QED
    BY <1>6, <2>1, <2>2, <2>3
<1>8. 1 \in 1..m /\ \A k \in 2..m : k \in 1..m /\ k \in 2..(1 + Len(items)) /\ k - 1 \in 1..Len(items)
  BY <1>1, <1>4
<1>9. Len(next) \in 1..(Len(items) + 1)
  BY <1>1, <1>4, <1>7
<1>10. next[1] = id
  BY <1>3, <1>7, <1>8
<1>11. \A k \in 2..Len(next) : k - 1 \in 1..Len(items) /\ next[k] = items[k - 1]
  BY <1>3, <1>7, <1>8
<1> QED
  BY <1>7, <1>9, <1>10, <1>11

\* A row that is due up to the one that comes next, and not above the head of the list,
\* is accounted for.
LEMMA DueBelow ==
    ASSUME Ids, NEW c \in Nat, NEW d \in Nat, OneList(c, d), items # <<>>,
           NEW id \in Due \cap rows, id <= delivered, ~(id <= items[1])
    PROVE  id \in notes.missed \/ \E k \in 1..c : items[k] = id
<1>0. /\ Len(items) \in Nat /\ Len(items) > 0 /\ c \in 0..Len(items)
      /\ items[1] \in Nat /\ id \in Nat /\ delivered \in Nat /\ id \in emitted
      /\ \A k \in 1..Len(items) : items[k] \in Nat
  <2>1. Len(items) \in Nat /\ Len(items) > 0 /\ c \in 0..Len(items) /\ 1 \in 1..Len(items)
    BY Lists DEF OneList, Live
  <2> QED
    BY <2>1, Lists DEF Due
<1>1. CASE c = 0
  <2>1. CASE id <= d
    BY <1>0, <1>1, <2>1 DEF OneList, LiveWhole
  <2>2. CASE ~(id <= d)
    BY <1>0, <1>1, <2>2 DEF OneList, LiveWhole
  <2> QED
    BY <2>1, <2>2
<1>2. CASE c # 0
  <2>1. 1 \in 1..c /\ c \in 1..c /\ c > 0 /\ c \in 1..Len(items)
    BY <1>0, <1>2
  <2>2. d < items[1] /\ items[c] <= items[1]
    <3>1. d < items[1]
      BY <2>1 DEF OneList, Live
    <3>2. 1 < c => items[1] > items[c]
      BY <2>1 DEF OneList, Live
    <3> QED
      BY <1>0, <2>1, <3>1, <3>2
  <2>3. d < id /\ ~(id < items[c])
    BY <1>0, <2>1, <2>2
  <2> QED
    BY <2>3 DEF OneList, LiveWhole
<1> QED
  BY <1>1, <1>2

\* What Deliver does to the list, when it is one.
LEMMA DeliverKeepsList ==
    ASSUME PageShape, Ids, Requests, NEW c \in Nat, NEW d \in Nat, OneList(c, d),
           NEW id \in emitted, id > delivered, \A j \in emitted : j <= delivered \/ id <= j,
           delivered' = id, UNCHANGED <<vars, filters, lastKey, older>>,
           NEW shown, shown = LiveMatches(filters, Row(id)),
           items' = IF shown THEN Capped(<<id>> \o items) ELSE items,
           NEW missed,
           missed = notes.missed \cup (IF older # {} THEN Range(items) \ Range(items') ELSE {})
                      \cup (IF ~shown /\ (filters # lastKey.filters \/ Blind(filters, Row(id)))
                            THEN {id} ELSE {}),
           notes'.missed = missed, notes'.early = notes.early
    PROVE  \E b \in Nat : OneList(b, d)'
<1> DEFINE n == Len(items)
<1>0. /\ n \in Nat /\ \A k \in 1..n : items[k] \in Nat
      /\ id \in Nat /\ delivered \in Nat /\ \A j \in emitted : j \in Nat
      /\ items # <<>> <=> n > 0
  BY Lists
<1>1. Live(c, d) /\ EarlyNext /\ LiveWhole(c, d) /\ c \in 0..n /\ d <= delivered
  BY DEF OneList, Live
<1>2. \A x \in notes.missed : x \in notes'.missed
  OBVIOUS
<1>3. Due' = Due /\ rows' = rows /\ emitted' = emitted /\ \A x \in Due : x \in emitted
  BY DEF Due, vars
<1>4. ASSUME NEW x \in Due, x <= id PROVE x <= delivered \/ x = id
  <2>1. x \in emitted /\ x \in Nat /\ (x <= delivered \/ id <= x)
    BY <1>0, <1>3
  <2> QED
    BY <1>0, <1>4, <2>1
<1>5. CASE ~shown
  <2>1. items' = items
    BY <1>5
  <2>2. id \in Due => id \in notes'.missed
    <3>1. SUFFICES ASSUME id \in Due, filters = lastKey.filters PROVE Blind(filters, Row(id))
      BY <1>5
    <3>2. filters \in Filters /\ id \in 1..MaxID
      BY LogStoreAssumption DEF Ids
    <3> QED
      BY <1>5, <3>1, <3>2, LiveFindsStored DEF Due
  <2>3. Live(c, d)'
    <3>1. \A k \in 1..c : k \in 1..n /\ items[k] <= id
      BY <1>0, <1>1 DEF Live
    <3> QED
      BY <1>0, <1>1, <2>1, <3>1 DEF Live
  <2>4. EarlyNext'
    <3>1. \A x \in Nat : id < x => delivered < x
      BY <1>0
    <3>2. \A k \in 1..n : items[k] > id => items[k] > delivered
      BY <1>0
    <3> QED
      BY <1>1, <2>1, <3>1, <3>2 DEF EarlyNext
  <2>5. \A b : WholeFrom(b) => WholeFrom(b)'
    BY <1>2, <1>3, <2>1 DEF WholeFrom, Accounted
  <2>6. LiveWhole(c, d)'
    <3>1. ASSUME NEW x \in Due, d < x, x <= id
          PROVE  \/ x \in notes'.missed
                 \/ \E k \in 1..c : items[k] = x
                 \/ c > 0 /\ x < items[c]
      <4>1. CASE x <= delivered
        BY <1>1, <1>2, <3>1, <4>1 DEF LiveWhole
      <4>2. CASE x = id
        BY <2>2, <3>1, <4>2
      <4> QED
        BY <1>4, <3>1, <4>1, <4>2
    <3> QED
      BY <1>1, <1>2, <1>3, <2>1, <2>5, <3>1 DEF LiveWhole
  <2>7. ASSUME NEW o \in older, ~o.stale PROVE Belongs(o.before, c)'
    <3>1. Belongs(o.before, c) /\ o.before \in Nat
      <4>1. o.before \in 1..lastID
        BY DEF Requests, OlderFits
      <4> QED
        BY <2>7, <4>1, Lists DEF OneList
    <3>2. o.before > id => o.before > delivered
      BY <1>0, <3>1
    <3> QED
      BY <2>1, <2>5, <3>1, <3>2 DEF Belongs
  <2> QED
    BY <2>3, <2>4, <2>6, <2>7 DEF OneList
<1>6. CASE shown
  <2>0. PICK next : next = items'
    OBVIOUS
  <2>1. next = Capped(<<id>> \o items)
    BY <1>6, <2>0
  <2>2. PICK m : m = Len(next)
    OBVIOUS
  <2>3. /\ next \in Seq(Nat) /\ m \in 1..(n + 1) /\ next[1] = id
        /\ \A k \in 2..m : k - 1 \in 1..n /\ next[k] = items[k - 1]
    BY <1>0, <2>1, <2>2, Push
  <2>4. /\ m \in Nat /\ DOMAIN next = 1..m /\ next # <<>>
        /\ \A k \in 1..m : next[k] \in Nat
        /\ \A k \in 1..m : k = 1 \/ (k \in 2..m)
        /\ 1 \in 1..m
    <3>1. m \in Nat /\ DOMAIN next = 1..m
      BY <2>2, <2>3, LenProperties
    <3>2. next # <<>>
      BY <2>2, <2>3, <3>1, EmptySeq
    <3>3. \A k \in 1..m : next[k] \in Nat
      BY <2>2, <2>3, ElementOfSeq
    <3> QED
      BY <2>3, <3>1, <3>2, <3>3
  \* A row of the list is still there, one place on, or it fell off.
  <2>5. \A k \in 1..n : k + 1 <= m => k + 1 \in 2..m /\ next[k + 1] = items[k]
    <3>1. TAKE k \in 1..n
    <3>2. HAVE k + 1 <= m
    <3>3. k + 1 \in 2..m /\ (k + 1) - 1 = k
      BY <1>0, <2>4, <3>2
    <3> QED
      BY <2>3, <3>3
  <2>6. \A k \in 1..m : next[k] \in Range(next)
    BY <2>4 DEF Range
  <2>7. \A x \in Range(items) : older # {} /\ x \notin Range(next) => x \in notes'.missed
    BY <2>0
  <2>8. PICK b \in Nat : b = IF c + 1 <= m THEN c + 1 ELSE m
    BY <1>0, <1>1, <2>4
  <2>9. b \in 1..m /\ b <= c + 1 /\ (b < m => b = c + 1)
    BY <1>0, <1>1, <2>3, <2>4, <2>8
  <2>10. ASSUME NEW k \in 2..m, k <= b PROVE k - 1 \in 1..c
    BY <1>0, <1>1, <2>4, <2>9, <2>10
  <2>11. ASSUME NEW k \in 2..m, k > b PROVE k - 1 \in (c + 1)..n /\ b = c + 1
    BY <1>0, <1>1, <2>3, <2>4, <2>9, <2>11
  <2>12. Live(b, d)'
    <3>1. ASSUME NEW k \in 1..b PROVE d < next[k] /\ next[k] <= id
      <4>1. CASE k = 1
        BY <1>0, <1>1, <2>3, <4>1
      <4>2. CASE k # 1
        <5>1. k \in 2..m /\ k <= b
          BY <2>4, <2>9, <4>2
        <5>2. next[k] = items[k - 1] /\ k - 1 \in 1..c
          BY <2>3, <2>10, <5>1
        <5>3. d < next[k] /\ next[k] <= delivered /\ next[k] \in Nat
          BY <1>0, <1>1, <2>4, <5>1, <5>2 DEF Live
        <5> QED
          BY <1>0, <5>3
      <4> QED
        BY <4>1, <4>2
    <3>2. ASSUME NEW k \in 1..b, NEW l \in 1..b, k < l PROVE next[k] > next[l]
      <4>1. l \in 2..m /\ l <= b /\ next[l] = items[l - 1] /\ l - 1 \in 1..c
        <5>1. l \in 2..m /\ l <= b
          BY <2>4, <2>9, <3>2
        <5> QED
          BY <2>3, <2>10, <5>1
      <4>2. CASE k = 1
        <5>1. items[l - 1] <= delivered /\ items[l - 1] \in Nat
          BY <1>0, <1>1, <4>1 DEF Live
        <5> QED
          BY <1>0, <2>3, <4>1, <4>2, <5>1
      <4>3. CASE k # 1
        <5>1. k \in 2..m /\ k <= b
          BY <2>4, <2>9, <4>3
        <5>2. next[k] = items[k - 1] /\ k - 1 \in 1..c
          BY <2>3, <2>10, <5>1
        <5>3. k - 1 < l - 1
          BY <3>2, <2>9
        <5> QED
          BY <1>1, <4>1, <5>2, <5>3 DEF Live
      <4> QED
        BY <4>2, <4>3
    <3>3. ASSUME NEW k \in (b + 1)..m, NEW l \in (b + 1)..m, k < l PROVE next[k] > next[l]
      <4>1. k \in 2..m /\ l \in 2..m /\ k > b /\ l > b
        BY <2>4, <2>9, <3>3
      <4>2. /\ k - 1 \in (c + 1)..n /\ l - 1 \in (c + 1)..n /\ k - 1 < l - 1
            /\ next[k] = items[k - 1] /\ next[l] = items[l - 1]
        BY <2>3, <2>11, <3>3, <4>1
      <4> QED
        BY <1>1, <4>2 DEF Live
    <3>4. b \in 0..Len(next) /\ d <= id /\ items' = next /\ delivered' = id /\ Len(next) = m
      BY <1>0, <1>1, <2>0, <2>2, <2>4, <2>9 DEF Live
    <3> QED
      BY <3>1, <3>2, <3>3, <3>4 DEF Live
  <2>13. id \notin notes.early => \A k \in 1..n : id > items[k]
    <3>1. SUFFICES ASSUME NEW k \in 1..n, ~(id > items[k]) PROVE id \in notes.early
      OBVIOUS
    <3>2. items[k] > delivered /\ id <= items[k]
      BY <1>0, <3>1
    <3>3. items[k] \in notes.early
      BY <1>1, <3>2 DEF EarlyNext
    <3> QED
      BY <1>0, <1>1, <3>2, <3>3 DEF EarlyNext
  <2>14. EarlyNext'
    <3>1. \A x \in Nat : id < x => delivered < x
      BY <1>0
    <3>2. ASSUME NEW k \in 1..m, next[k] > id PROVE next[k] \in notes.early
      <4>1. k \in 2..m
        BY <1>0, <2>3, <2>4, <3>2
      <4>2. next[k] = items[k - 1] /\ k - 1 \in 1..n
        BY <2>3, <4>1
      <4>3. items[k - 1] > delivered
        BY <1>0, <3>2, <4>2
      <4> QED
        BY <1>1, <4>2, <4>3 DEF EarlyNext
    <3>3. ASSUME NEW k \in 1..m, NEW l \in 1..m, k < l, next[k] \notin notes.early
          PROVE  next[k] > next[l]
      <4>1. l \in 2..m /\ next[l] = items[l - 1] /\ l - 1 \in 1..n
        <5>1. l \in 2..m
          BY <2>4, <3>3
        <5> QED
          BY <2>3, <5>1
      <4>2. CASE k = 1
        BY <2>3, <2>13, <3>3, <4>1, <4>2
      <4>3. CASE k \in 2..m
        <5>1. next[k] = items[k - 1] /\ k - 1 \in 1..n /\ k - 1 < l - 1
          BY <2>3, <3>3, <4>3
        <5> QED
          BY <1>1, <3>3, <4>1, <5>1 DEF EarlyNext
      <4> QED
        BY <2>4, <4>2, <4>3
    <3> QED
      BY <1>1, <2>0, <2>2, <3>1, <3>2, <3>3 DEF EarlyNext
  <2>15. ASSUME NEW x \in Due, d < x, x <= id
         PROVE  x \in notes'.missed \/ (\E k \in 1..b : next[k] = x) \/ x < next[b]
    <3>1. CASE x = id
      <4>1. 1 \in 1..b
        BY <2>9
      <4> QED
        BY <2>3, <3>1, <4>1
    <3>2. CASE x <= delivered /\ \E k \in 1..c : items[k] = x
      <4>1. PICK k \in 1..c : items[k] = x
        BY <3>2
      <4>2. k \in 1..n
        BY <1>0, <1>1, <4>1
      <4>3. CASE k + 1 <= b
        <5>1. k + 1 \in 1..b /\ k + 1 <= m
          BY <2>4, <2>9, <4>1, <4>3
        <5> QED
          BY <2>5, <4>1, <4>2, <5>1
      <4>4. CASE ~(k + 1 <= b)
        <5>1. b = 1 \/ b \in 2..m
          BY <2>4, <2>9
        <5>2. CASE b = 1
          <6>1. next[b] = id
            BY <2>3, <5>2
          <6>2. x < id
            <7>1. x \in Nat
              BY <1>0, <1>3
            <7> QED
              BY <1>0, <3>2, <7>1
          <6> QED
            BY <6>1, <6>2
        <5>3. CASE b \in 2..m
          <6>1. b - 1 \in 1..c /\ b - 1 < k /\ next[b] = items[b - 1]
            <7>1. b - 1 \in 1..c
              BY <2>9, <2>10, <5>3
            <7>2. next[b] = items[b - 1]
              BY <2>3, <5>3
            <7>3. k \in Nat /\ b \in Nat /\ b <= k
              BY <2>9, <4>2, <4>4, <1>0
            <7> QED
              BY <7>1, <7>2, <7>3
          <6>2. items[b - 1] > items[k]
            BY <1>1, <4>1, <6>1 DEF Live
          <6>3. items[b - 1] \in Nat /\ items[k] \in Nat
            BY <1>0, <1>1, <4>2, <6>1
          <6> QED
            BY <4>1, <6>1, <6>2, <6>3
        <5> QED
          BY <5>1, <5>2, <5>3
      <4> QED
        BY <4>3, <4>4
    <3>3. CASE x <= delivered /\ c > 0 /\ x < items[c]
      <4>0. c \in 1..n /\ c \in 1..c
        BY <1>0, <1>1, <3>3
      <4>1. b = 1 \/ b \in 2..m
        BY <2>4, <2>9
      <4>2. CASE b = 1
        <5>1. next[b] = id
          BY <2>3, <4>2
        <5>2. x < id
          <6>1. x \in Nat
            BY <1>0, <1>3
          <6> QED
            BY <1>0, <3>3, <6>1
        <5> QED
          BY <5>1, <5>2
      <4>3. CASE b \in 2..m
        <5>1. b - 1 \in 1..c /\ next[b] = items[b - 1]
          BY <2>3, <2>9, <2>10, <4>3
        <5>2. b - 1 < c => items[b - 1] > items[c]
          BY <1>1, <4>0, <5>1 DEF Live
        <5>3. b - 1 = c \/ b - 1 < c
          BY <4>0, <5>1
        <5>4. items[b - 1] \in Nat /\ items[c] \in Nat /\ x \in Nat
          <6>1. b - 1 \in 1..n
            BY <1>0, <1>1, <5>1
          <6> QED
            BY <1>0, <1>3, <4>0, <6>1
        <5> QED
          BY <3>3, <5>1, <5>2, <5>3, <5>4
      <4> QED
        BY <4>1, <4>2, <4>3
    <3>4. CASE x <= delivered /\ x \in notes.missed
      BY <1>2, <3>4
    <3> QED
      BY <1>1, <1>4, <2>15, <3>1, <3>2, <3>3, <3>4 DEF LiveWhole
  \* What was accounted for is, unless it fell off unseen; then it was at the end.
  <2>16. ASSUME NEW x \in Accounted, x \notin Accounted'
         PROVE  older = {} /\ \E k \in 1..n : items[k] = x /\ k >= m
    <3>1. x \in Range(items) /\ x \notin notes'.missed /\ x \notin Range(next)
      BY <1>2, <2>0, <2>16 DEF Accounted
    <3>2. PICK k \in 1..n : items[k] = x
      BY <3>1, Lists
    <3>3. ~(k + 1 <= m)
      <4>1. SUFFICES ASSUME k + 1 <= m PROVE FALSE
        OBVIOUS
      <4>2. k + 1 \in 1..m /\ next[k + 1] = x
        BY <2>5, <3>2, <4>1
      <4> QED
        BY <2>6, <3>1, <4>2
    <3> QED
      BY <1>0, <2>4, <2>7, <3>1, <3>2, <3>3
  <2>17. id \in Accounted'
    BY <2>0, <2>3, <2>4, <2>6 DEF Accounted
  \* What there is between an end of the list and its new head.
  <2>18. ASSUME items # <<>>, NEW p, WholeFrom(p), NEW x \in Due \cap rows, p <= x, x <= id, x # id
         PROVE  x \in Accounted
    <3>1. CASE x <= items[1]
      BY <2>18, <3>1 DEF WholeFrom
    <3>2. CASE ~(x <= items[1])
      <4>1. x \in notes.missed \/ \E k \in 1..c : items[k] = x
        BY <1>4, <2>18, <3>2, DueBelow
      <4>2. \A k \in 1..c : k \in 1..n
        BY <1>0, <1>1
      <4> QED
        BY <4>1, <4>2, Lists DEF Accounted
    <3> QED
      BY <3>1, <3>2
  <2>19. ASSUME b < m PROVE WholeFrom(items[Len(items)])'
    <3>1. m \in 2..m /\ m > b /\ m - 1 \in (c + 1)..n /\ next[m] = items[m - 1]
      BY <2>3, <2>4, <2>9, <2>11, <2>19
    <3>2. c < n /\ items # <<>> /\ n \in (c + 1)..n /\ m - 1 \in 1..n /\ n \in 1..n
      BY <1>0, <1>1, <3>1
    <3>3. WholeFrom(items[n])
      BY <1>1, <3>2 DEF LiveWhole
    <3>4. items[n] <= items[m - 1]
      <4>1. m - 1 < n => items[m - 1] > items[n]
        BY <1>1, <3>1, <3>2 DEF Live
      <4> QED
        BY <1>0, <3>2, <4>1
    <3>5. ASSUME NEW x \in Due \cap rows, items[m - 1] <= x, x <= id PROVE x \in Accounted'
      <4>0. items[m - 1] \in Nat /\ items[n] \in Nat /\ x \in Nat
        BY <1>0, <1>3, <3>2
      <4>1. CASE x = id
        BY <2>17, <4>1
      <4>2. CASE x # id
        <5>1. x \in Accounted
          BY <2>18, <3>2, <3>3, <3>4, <3>5, <4>0, <4>2
        <5>2. SUFFICES ASSUME x \notin Accounted' PROVE FALSE
          OBVIOUS
        <5>3. PICK k \in 1..n : items[k] = x /\ k >= m
          BY <2>16, <5>1, <5>2
        <5>4. k \in (c + 1)..n /\ m - 1 < k
          BY <1>0, <1>1, <2>4, <3>1, <5>3
        <5>5. items[m - 1] > items[k]
          BY <1>1, <3>1, <5>4 DEF Live
        <5> QED
          BY <3>5, <4>0, <5>3, <5>5
      <4> QED
        BY <4>1, <4>2
    <3> QED
      BY <1>3, <2>0, <2>2, <2>3, <3>1, <3>5 DEF WholeFrom
  <2>20. LiveWhole(b, d)'
    <3>1. b > 0 /\ b # 0
      BY <2>9
    <3>2. \A x \in Due : d < x /\ x <= id =>
             \/ x \in notes'.missed
             \/ \E k \in 1..b : next[k] = x
             \/ b > 0 /\ x < next[b]
      BY <2>15, <3>1
    <3> QED
      BY <1>3, <2>0, <2>2, <2>19, <3>1, <3>2 DEF LiveWhole
  <2>21. ASSUME NEW o \in older, ~o.stale PROVE Belongs(o.before, b)'
    <3>1. Belongs(o.before, c) /\ o.before \in Nat
      <4>1. o.before \in 1..lastID
        BY DEF Requests, OlderFits
      <4> QED
        BY <2>21, <4>1, Lists DEF OneList
    <3>2. o.before > id => o.before \in notes.early
      <4>1. o.before > id => o.before > delivered
        BY <1>0, <3>1
      <4> QED
        BY <3>1, <4>1 DEF Belongs
    <3>3. ASSUME NEW k \in 1..m, next[k] \notin notes.early \/ k > b PROVE next[k] >= o.before
      <4>1. CASE k = 1
        <5>1. id \notin notes.early
          BY <2>3, <2>9, <3>3, <4>1
        <5>2. ~(o.before > id)
          <6>1. SUFFICES ASSUME o.before > id PROVE id \in notes.early
            BY <5>1
          <6>2. o.before \in notes.early /\ delivered < id /\ id <= o.before
            BY <1>0, <3>1, <3>2, <6>1
          <6> QED
            BY <1>0, <1>1, <6>2 DEF EarlyNext
        <5> QED
          BY <1>0, <2>3, <3>1, <4>1, <5>2
      <4>2. CASE k \in 2..m
        <5>1. next[k] = items[k - 1] /\ k - 1 \in 1..n
          BY <2>3, <4>2
        <5>2. CASE next[k] \notin notes.early
          BY <3>1, <5>1, <5>2 DEF Belongs
        <5>3. CASE k > b
          <6>1. k - 1 > c
            BY <1>0, <1>1, <2>11, <4>2, <5>3
          <6> QED
            BY <3>1, <5>1, <6>1 DEF Belongs
        <5> QED
          BY <3>3, <5>2, <5>3
      <4> QED
        BY <2>4, <4>1, <4>2
    <3>4. WholeFrom(o.before)'
      <4>1. ASSUME NEW x \in Due \cap rows, o.before <= x, x <= id PROVE x \in Accounted'
        <5>1. CASE x = id
          BY <2>17, <5>1
        <5>2. CASE x # id
          <6>1. x \in Accounted
            BY <2>18, <3>1, <4>1, <5>2 DEF Belongs
          <6> QED
            BY <2>16, <2>21, <6>1
        <5> QED
          BY <5>1, <5>2
      <4> QED
        BY <1>3, <2>0, <2>3, <4>1 DEF WholeFrom
    <3> QED
      BY <2>0, <2>2, <2>4, <3>2, <3>3, <3>4 DEF Belongs
  <2> QED
    BY <2>12, <2>14, <2>20, <2>21 DEF OneList
<1> QED
  BY <1>5, <1>6

LEMMA DeliverKeeps == PageShape /\ TabInv /\ Deliver => TabInv'
<1> SUFFICES ASSUME PageShape, TabInv, Deliver PROVE TabInv'
  OBVIOUS
<1>1. PICK id \in emitted :
         /\ id > delivered
         /\ \A j \in emitted : j <= delivered \/ id <= j
         /\ delivered' = id
         /\ LET shown == LiveMatches(filters, Row(id))
                next  == IF shown THEN Capped(<<id>> \o items) ELSE items
                cut   == Range(items) \ Range(next)
                blind == ~shown /\ (filters # lastKey.filters \/ Blind(filters, Row(id)))
            IN  /\ items' = next
                /\ notes' = IF notes.crossed THEN Crossed
                            ELSE [notes EXCEPT !.missed = @ \cup (IF older # {} THEN cut ELSE {})
                                                            \cup (IF blind THEN {id} ELSE {})]
  BY DEF Deliver
<1>2. PICK shown : shown = LiveMatches(filters, Row(id))
  OBVIOUS
<1>3. items' = IF shown THEN Capped(<<id>> \o items) ELSE items
  BY <1>1, <1>2
<1>4. PICK missed :
         missed = notes.missed \cup (IF older # {} THEN Range(items) \ Range(items') ELSE {})
                    \cup (IF ~shown /\ (filters # lastKey.filters \/ Blind(filters, Row(id)))
                          THEN {id} ELSE {})
  OBVIOUS
<1>5. notes' = IF notes.crossed THEN Crossed ELSE [notes EXCEPT !.missed = missed]
  BY <1>1, <1>2, <1>3, <1>4
<1>6. /\ UNCHANGED <<vars, filters, eventID, lastKey, older, request>>
      /\ Ids /\ Requests
  BY DEF Deliver, TabInv
<1>7. Requests'
  BY <1>6, RequestsStay DEF vars
<1>8. /\ Len(items) \in Nat /\ \A k \in 1..Len(items) : items[k] \in 1..lastID
      /\ items \in Seq(Nat) /\ lastID \in Nat /\ id \in Nat /\ id \in 1..lastID
      /\ DOMAIN items = 1..Len(items)
  BY <1>6, Lists DEF Ids
<1>9. Ids'
  <2>1. items' \in Seq(Nat) /\ \A k \in DOMAIN items' : items'[k] \in 1..lastID
    <3>1. CASE shown
      <4>1. PICK next : next = items'
        OBVIOUS
      <4>2. /\ next \in Seq(Nat) /\ Len(next) \in 1..(Len(items) + 1) /\ next[1] = id
            /\ \A k \in 2..Len(next) : k - 1 \in 1..Len(items) /\ next[k] = items[k - 1]
        BY <1>3, <1>6, <1>8, <3>1, <4>1, Push
      <4>3. DOMAIN next = 1..Len(next) /\ \A k \in 1..Len(next) : k = 1 \/ k \in 2..Len(next)
        BY <1>8, <4>2, LenProperties
      <4> QED
        BY <1>8, <4>1, <4>2, <4>3
    <3>2. CASE ~shown
      BY <1>3, <1>8, <3>2
    <3> QED
      BY <3>1, <3>2
  <2>2. delivered' \in 0..lastID /\ (pc # "idle" => delivered' < lastID)
    BY <1>1, <1>6, <1>8 DEF Ids
  <2> QED
    BY <1>6, <2>1, <2>2 DEF Ids, vars
<1>10. CASE notes.crossed
  <2>1. notes'.crossed
    BY <1>5, <1>10, CrossedShape
  <2> QED
    BY <1>7, <1>9, <2>1 DEF TabInv
<1>11. CASE ~notes.crossed
  <2>1. notes'.missed = missed /\ notes'.early = notes.early
    BY <1>5, <1>11 DEF PageShape
  <2>2. PICK c \in Nat, d \in Nat : OneList(c, d)
    BY <1>11 DEF TabInv
  <2>3. \E b \in Nat : OneList(b, d)'
    <3>1. /\ id > delivered /\ delivered' = id
          /\ \A j \in emitted : j <= delivered \/ id <= j
      BY <1>1
    <3>2. PageShape /\ Ids /\ Requests /\ UNCHANGED <<vars, filters, lastKey, older>>
      BY <1>6
    <3>3. notes'.missed = missed /\ notes'.early = notes.early
      BY <2>1
    <3> QED
      BY <1>2, <1>3, <1>4, <2>2, <3>1, <3>2, <3>3, DeliverKeepsList
  <2> QED
    BY <1>7, <1>9, <2>3 DEF TabInv
<1> QED
  BY <1>10, <1>11

\* Each step of the store, the socket, the user, the effect and the two kinds of requests.
LEMMA TabGoesOn == PageInv /\ TabInv /\ [TabNext]_allVars => TabInv'
<1>1. SUFFICES ASSUME PageShape, TabInv, [TabNext]_allVars PROVE TabInv'
  BY DEF PageInv
<1>2. CASE UNCHANGED allVars
  <2>1. Ids /\ Requests
    BY <1>1 DEF TabInv
  <2>2. Requests'
    BY <1>2, <2>1, RequestsStay DEF allVars, vars, tabVars
  <2> QED
    BY <1>1, <1>2, <2>1, <2>2, TabStays DEF allVars, tabVars, Ids
<1>3. ASSUME NEW isOpen, NEW e \in 0..lastID, NEW f \in Filters, Set(isOpen, f, e)
      PROVE  TabInv'
  BY <1>1, <1>3, SetKeeps
<1>4. CASE OpenLog \/ LeaveLog \/ CloseEvent
  <2>1. 0 \in 0..lastID /\ filters \in Filters
    BY <1>1, Lists DEF TabInv, Ids
  <2> QED
    BY <1>3, <1>4, <2>1 DEF OpenLog, LeaveLog, CloseEvent
<1>5. CASE \E f \in FilterChoices : ChangeFilters(f)
  <2>1. 0 \in 0..lastID
    BY <1>1, Lists DEF TabInv
  <2> QED
    BY <1>3, <1>5, <2>1 DEF ChangeFilters, Filters
<1>6. CASE \E id \in Clickable : SelectEvent(id)
  <2>1. PICK id \in Clickable : id \in Range(items) /\ Set(TRUE, filters, id)
    BY <1>6 DEF SelectEvent
  <2>2. id \in 0..lastID /\ filters \in Filters
    <3>1. Ids
      BY <1>1 DEF TabInv
    <3>2. PICK k \in 1..Len(items) : items[k] = id
      BY <2>1, <3>1, Lists
    <3> QED
      BY <3>1, <3>2, Lists DEF Ids
  <2> QED
    BY <1>3, <2>1, <2>2
<1> QED
  BY <1>1, <1>2, <1>4, <1>5, <1>6, WriteKeeps, DeliverKeeps, EffectKeeps, QueryInitialKeeps,
     AnswerInitialKeeps, FailInitialKeeps, LoadMoreKeeps, QueryMoreKeeps, AnswerMoreKeeps,
     FailMoreKeeps DEF TabNext

LEMMA TabHolds == TabSpec => [](PageInv /\ TabInv)
<1>1. PageInv /\ TabInv /\ [TabNext]_allVars => (PageInv /\ TabInv)'
  BY PageGoesOn, TabGoesOn
<1> QED
  BY <1>1, PageStarts, TabStarts, PTL DEF TabSpec

\* In a list that goes down from an early row on, or up to one, it is there twice at most:
\* among the rows that came live, and among those of the pages.
LEMMA TwiceAtMost ==
    ASSUME Ids, NEW c, NEW d, Live(c, d), NEW id
    PROVE  Cardinality({k \in DOMAIN items : items[k] = id}) <= 2
<1>K. PICK K : K = {k \in DOMAIN items : items[k] = id}
  OBVIOUS
<1>0. /\ Len(items) \in Nat /\ c \in 0..Len(items) /\ DOMAIN items = 1..Len(items)
      /\ \A k \in 1..Len(items) : items[k] \in Nat
  BY Lists DEF Live
<1>1. ASSUME NEW k \in K, NEW l \in K, k <= c, l <= c PROVE k = l
  <2>1. k \in 1..c /\ l \in 1..c /\ items[k] = items[l] /\ items[k] \in Nat
    BY <1>0, <1>1, <1>K
  <2>2. ~(k < l) /\ ~(l < k)
    BY <2>1 DEF Live
  <2> QED
    BY <2>1, <2>2
<1>2. ASSUME NEW k \in K, NEW l \in K, k > c, l > c PROVE k = l
  <2>1. k \in (c + 1)..Len(items) /\ l \in (c + 1)..Len(items) /\ items[k] = items[l]
        /\ items[k] \in Nat
    BY <1>0, <1>2, <1>K
  <2>2. ~(k < l) /\ ~(l < k)
    BY <2>1 DEF Live
  <2> QED
    BY <2>1, <2>2
<1>3. \A k \in K : k <= c \/ k > c
  BY <1>0, <1>K
<1>a. PICK a : (\E k \in K : k <= c) => a \in K /\ a <= c
  OBVIOUS
<1>b. PICK b : (\E k \in K : k > c) => b \in K /\ b > c
  OBVIOUS
<1>4. K \in SUBSET {a, b}
  <2>1. SUFFICES ASSUME NEW k \in K PROVE k \in {a, b}
    OBVIOUS
  <2>2. CASE k <= c
    BY <1>1, <1>a, <2>2
  <2>3. CASE k > c
    BY <1>2, <1>b, <2>3
  <2> QED
    BY <1>3, <2>2, <2>3
<1>5. IsFiniteSet({a, b}) /\ Cardinality({a, b}) <= 2
  <2>1. IsFiniteSet({a}) /\ Cardinality({a}) = 1
    BY FS_Singleton
  <2>2. {a} \cup {b} = {a, b}
    OBVIOUS
  <2>3. /\ IsFiniteSet({a} \cup {b})
        /\ Cardinality({a} \cup {b}) = IF b \in {a} THEN Cardinality({a}) ELSE Cardinality({a}) + 1
    BY <2>1, FS_AddElement, Zenon
  <2> QED
    BY <2>1, <2>2, <2>3
<1>6. Cardinality(K) <= Cardinality({a, b}) /\ IsFiniteSet(K)
  BY <1>4, <1>5, FS_Subset
<1>7. Cardinality(K) \in Nat /\ Cardinality({a, b}) \in Nat
  BY <1>5, <1>6, FS_CardinalityType
<1>8. Cardinality(K) <= 2
  BY <1>5, <1>6, <1>7
<1> QED
  BY <1>8, <1>K

\* The log goes down by id and has a row once, while rows are written, pruned, announced,
\* brought live and paged in any order: but for a row that was on a page before its live
\* event came, which is there twice at most (App.tsx:842, stores/logState.ts).
THEOREM LogGoesDown == TabSpec => []ShownOnceInOrder
<1>1. PageInv /\ TabInv => ShownOnceInOrder
  <2> SUFFICES ASSUME TabInv, ~notes.crossed PROVE ShownOnceInOrder
    BY DEF ShownOnceInOrder
  <2>1. Ids
    BY DEF TabInv
  <2>2. PICK c \in Nat, d \in Nat : OneList(c, d)
    BY DEF TabInv
  <2>3. Live(c, d) /\ EarlyNext /\ DOMAIN items = 1..Len(items)
    BY <2>1, <2>2, Lists DEF OneList
  <2> QED
    BY <2>1, <2>3, TwiceAtMost DEF ShownOnceInOrder, EarlyNext
<1> QED
  BY <1>1, TabHolds, PTL


\* No announced row is left out between the ends of the list, however long the user pages
\* and whatever comes meanwhile, but for the rows the model names as missed.
THEOREM LogHasNoGaps == TabSpec => []NothingSkipped
<1>1. PageInv /\ TabInv => NothingSkipped
  <2> SUFFICES ASSUME TabInv, ~notes.crossed, items # <<>>,
                      NEW id \in emitted \cap rows,
                      StoredMatches(lastKey.filters, Row(id)), Last(items) <= id, id <= items[1]
               PROVE  id \in Range(items) \cup notes.missed
    BY DEF NothingSkipped
  <2>1. Ids
    BY DEF TabInv
  <2>2. PICK c \in Nat, d \in Nat : OneList(c, d)
    BY DEF TabInv
  <2>3. WholeFrom(items[Len(items)])
    BY <2>1, <2>2, WholeFromLast
  <2>4. id \in Due \cap rows /\ items[Len(items)] <= id
    BY DEF Due, Last
  <2> QED
    BY <2>3, <2>4 DEF WholeFrom, Accounted
<1> QED
  BY <1>1, TabHolds, PTL

=============================================================================
