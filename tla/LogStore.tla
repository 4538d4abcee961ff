------------------------------ MODULE LogStore ------------------------------
(***************************************************************************)
(* internal/persistence/sqlite/logs.go: the capped event log.  The ingest  *)
(* goroutine is the only writer: it inserts a row, decides in memory       *)
(* whether a prune is due, runs the prune, and only then tells the         *)
(* realtime hub.  A row is its id here; LogTab adds what the filters of a  *)
(* query read, and the client that pages through the table.  One statement *)
(* is one step, since the store holds a single connection; the process may *)
(* stop between two of them.                                               *)
(***************************************************************************)
EXTENDS Integers, FiniteSets

CONSTANTS LogMaxRows,       \* Store.logMaxRows
          LogPruneBatchRows,\* Store.logPruneBatchRows
          Limit,            \* rows on a page
          MaxID,            \* bound: the last id handed out
          MaxMisses         \* bound: due prunes in a row that fail or are cut short

ASSUME LogStoreAssumption == /\ LogMaxRows \in Nat
                             /\ LogPruneBatchRows \in Nat
                             /\ Limit \in Nat \ {0}
                             /\ MaxID \in Nat
                             /\ MaxMisses \in Nat

VARIABLES rows,      \* the ids in log_events
          lastID,    \* its AUTOINCREMENT counter
          nextPrune, \* Store.nextLogPruneAtID; 0 is not set yet
          pc,        \* where InsertLogEvent is
          emitted,   \* ids announced with a log.event
          misses     \* history: due prunes not done since the last one that was

vars == <<rows, lastID, nextPrune, pc, emitted, misses>>

----------------------------------------------------------------------------
(* Pruning                                                                 *)

Newer(s, id) == {j \in s : j > id}

Interval == IF LogPruneBatchRows > 1 THEN LogPruneBatchRows ELSE 1

FirstPrune == LogMaxRows + LogPruneBatchRows + 1

\* The threshold shouldPruneLogEvents compares the id with.
Threshold == IF nextPrune = 0 THEN FirstPrune ELSE nextPrune

\* Mutant: the newest row beyond the cap goes too.
PrunedTooFar(s) ==
    IF \E id \in s : Cardinality(Newer(s, id)) = LogMaxRows + LogPruneBatchRows
    THEN {id \in s : Cardinality(Newer(s, id)) < LogMaxRows - 1}
    ELSE s

\* The DELETE: when there is a row at offset LogMaxRows + LogPruneBatchRows from the
\* newest, everything from offset LogMaxRows on goes.
Pruned(s) ==
    IF \E id \in s : Cardinality(Newer(s, id)) = LogMaxRows + LogPruneBatchRows
    THEN {id \in s : Cardinality(Newer(s, id)) < LogMaxRows}
    ELSE s

----------------------------------------------------------------------------
(* InsertLogEvent                                                          *)

\* The INSERT commits.
Insert ==
    /\ pc = "idle"
    /\ lastID < MaxID
    /\ lastID' = lastID + 1
    /\ rows' = rows \cup {lastID + 1}
    /\ pc' = "inserted"
    /\ UNCHANGED <<nextPrune, emitted, misses>>

Return == pc' = "idle" /\ emitted' = emitted \cup {lastID}

\* shouldPruneLogEvents says no: the insert is done and the row is announced.
SkipPrune ==
    /\ pc = "inserted"
    /\ LogMaxRows = 0 \/ lastID < Threshold
    /\ nextPrune' = IF LogMaxRows = 0 THEN nextPrune ELSE Threshold
    /\ Return
    /\ UNCHANGED <<rows, lastID, misses>>

\* Mutant: the threshold moves by the cap and not by the batch.
SchedulePruneLate ==
    /\ pc = "inserted"
    /\ LogMaxRows # 0 /\ lastID >= Threshold
    /\ nextPrune' = lastID + FirstPrune
    /\ pc' = "pruning"
    /\ UNCHANGED <<rows, lastID, emitted, misses>>

\* It says yes, and moves the threshold before the prune is tried.
SchedulePrune ==
    /\ pc = "inserted"
    /\ LogMaxRows # 0 /\ lastID >= Threshold
    /\ nextPrune' = lastID + Interval
    /\ pc' = "pruning"
    /\ UNCHANGED <<rows, lastID, emitted, misses>>

Prune ==
    /\ pc = "pruning"
    /\ rows' = Pruned(rows)
    /\ misses' = 0
    /\ Return
    /\ UNCHANGED <<lastID, nextPrune>>

\* Mutant: the error of the prune is swallowed and the row announced.
PruneFailsQuietly ==
    /\ pc = "pruning"
    /\ misses < MaxMisses
    /\ misses' = misses + 1
    /\ Return
    /\ UNCHANGED <<rows, lastID, nextPrune>>

\* The DELETE fails: InsertLogEvent returns the id and the error, and persistLogEvent
\* does not announce the row.
PruneFails ==
    /\ pc = "pruning"
    /\ misses < MaxMisses
    /\ misses' = misses + 1
    /\ pc' = "idle"
    /\ UNCHANGED <<rows, lastID, nextPrune, emitted>>

\* The process stops and starts again: the table stays, the threshold is gone.
Restart ==
    /\ pc # "idle" => misses < MaxMisses
    /\ misses' = IF pc = "idle" THEN misses ELSE misses + 1
    /\ nextPrune' = 0
    /\ pc' = "idle"
    /\ UNCHANGED <<rows, lastID, emitted>>

----------------------------------------------------------------------------
(* ListLogEvents                                                           *)

\* Mutant: the cursor itself is on the next page again.
BelowInclusive(s, before) == {id \in s : before > 0 => id <= before}

\* BeforeID = 0 asks for the first page.
Below(s, before) == {id \in s : before > 0 => id < before}

\* Mutant: the rows in ascending order.
OldestPage(s, before) ==
    LET matching == Below(s, before)
    IN  {id \in matching : Cardinality({j \in matching : j < id}) < Limit}

Page(s, before) ==
    LET matching == Below(s, before)
    IN  {id \in matching : Cardinality(Newer(matching, id)) < Limit}

Init ==
    /\ rows = {}
    /\ lastID = 0
    /\ nextPrune = 0
    /\ pc = "idle"
    /\ emitted = {}
    /\ misses = 0

Next ==
    \/ Insert
    \/ SkipPrune
    \/ SchedulePrune
    \/ Prune
    \/ PruneFails
    \/ Restart

Spec == Init /\ [][Next]_vars

----------------------------------------------------------------------------
(* Properties                                                              *)

TypeOK ==
    /\ rows \subseteq 1..lastID
    /\ lastID \in 0..MaxID
    /\ nextPrune \in Nat
    /\ pc \in {"idle", "inserted", "pruning"}
    /\ emitted \subseteq 1..lastID
    /\ misses \in 0..MaxMisses

\* The cap the code does hold: the table never has more than LogMaxRows +
\* LogPruneBatchRows rows plus one interval, and one interval more for every due prune
\* that failed, or that the process did not live to run, since the last one done.
RowsBounded ==
    LogMaxRows > 0 =>
        Cardinality(rows) <= LogMaxRows + LogPruneBatchRows + Interval * (misses + 1)

\* README, storage.sql.log_prune_batch_rows: "Extra rows allowed above cap before prune
\* runs; prune then shrinks back to max rows."
RowsWithinAllowance ==
    pc = "idle" => Cardinality(rows) <= LogMaxRows + LogPruneBatchRows

\* However inserts, failed prunes and restarts mix, no row goes while it is one of the
\* LogMaxRows newest, and with the cap off no row goes at all.
NewestKept ==
    [][\A id \in rows \ rows' :
          LogMaxRows > 0 /\ Cardinality(Newer(rows, id)) >= LogMaxRows]_rows

\* The live log shows rows in the order of their ids, each while it is in the table,
\* and never one whose InsertLogEvent ended in an error: such a row stays in the table
\* and is only found by paging.
AnnouncedInOrder ==
    [][\A id \in emitted' \ emitted :
          /\ id \in rows'
          /\ \A j \in emitted : j < id
          /\ misses' <= misses]_<<emitted, misses>>

=============================================================================
