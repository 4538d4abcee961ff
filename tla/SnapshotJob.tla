---------------------------- MODULE SnapshotJob ----------------------------
(***************************************************************************)
(* internal/stats: the job that records, once a week, which firmware (in   *)
(* its twin: which hardware) each node of the fleet runs.  It looks at the *)
(* history table, inserts the rows of the current week if the table has    *)
(* none as recent, tells the HTTP server to drop its caches and sleeps     *)
(* until the next Monday, or for an hour after an error or an empty fleet. *)
(*                                                                         *)
(* The job reads the wall clock twice in a round, before its statements    *)
(* and after them; its timer runs on the monotonic clock.  Time counts in  *)
(* ticks, WeekTicks to a week; the wall clock may be set back a tick, the  *)
(* monotonic one goes on.                                                  *)
(***************************************************************************)
EXTENDS Integers, FiniteSets

CONSTANTS Nodes,       \* nodes of the fleet
          Versions,    \* what a node may run
          WeekTicks,   \* ticks from one Monday 00:00 UTC to the next
          RetryDelay,  \* snapshotRetryDelay
          Slow,        \* bound: ticks that may pass while the job is awake
          MaxWall,     \* bound: the last instant of the wall clock
          MaxSetbacks, \* bound: how often it is set back
          MaxFailures, \* bound: statements that fail
          MaxStops     \* bound: how often the process stops

None == 0

ASSUME SnapshotAssumption == /\ Versions \subseteq Nat \ {None}
                             /\ WeekTicks \in Nat \ {0}
                             /\ RetryDelay \in 1..WeekTicks
                             /\ Slow \in 0..WeekTicks - 1
                             /\ 2 * Slow + RetryDelay <= 2 * WeekTicks
                             /\ {MaxWall, MaxSetbacks, MaxFailures, MaxStops} \subseteq Nat

VARIABLES wall,     \* the wall clock
          fleet,    \* node -> what it runs, None when unknown or not heard of lately
          history,  \* table node_firmware_history
          pc,       \* where the job is
          round,    \* its locals: the week it read first, and whether it is to retry
          wait,     \* ticks left of its timer
          awake,    \* ticks since it woke up, 0 while it sleeps
          looked,   \* history: the week of the clock when it last looked at the table
          setbacks, failures, stops

jobVars == <<wall, fleet, history, pc, round, wait, awake, looked, setbacks, failures, stops>>

WeekOf(t) == t \div WeekTicks

\* Mutant: a week too far.
NextMondayButOne(t) == (WeekOf(t) + 2) * WeekTicks

NextMonday(t) == (WeekOf(t) + 1) * WeekTicks

Weeks(rows) == {r.week : r \in rows}

Goto(point) == pc' = point

Fails == failures < MaxFailures /\ failures' = failures + 1

----------------------------------------------------------------------------
(* A round of the job                                                      *)

\* Mutant: only the last week recorded is compared.
DueUnlessRecorded(week) ==
    \A w \in Weeks(history) : (\A v \in Weeks(history) : v <= w) => w # week

\* The table has no row of this week or of a later one.
Due(week) == \A w \in Weeks(history) : w < week

Check ==
    /\ pc = "check"
    /\ looked' = WeekOf(wall)
    /\ \/ /\ Due(WeekOf(wall))
          /\ round' = [week |-> WeekOf(wall), again |-> FALSE]
          /\ Goto("record")
          /\ UNCHANGED failures
       \/ /\ ~Due(WeekOf(wall))
          /\ round' = [week |-> WeekOf(wall), again |-> FALSE]
          /\ Goto("schedule")
          /\ UNCHANGED failures
       \/ /\ Fails
          /\ round' = [week |-> WeekOf(wall), again |-> TRUE]
          /\ Goto("schedule")
    /\ UNCHANGED <<wall, fleet, history, wait, awake, setbacks, stops>>

\* What INSERT OR IGNORE adds: a row of every active node that has none for the week.
Added == {[week |-> round.week, node |-> n, version |-> fleet[n]] :
             n \in {m \in Nodes : /\ fleet[m] # None
                                  /\ ~ \E r \in history : r.week = round.week /\ r.node = m}}

Record ==
    /\ pc = "record"
    /\ \/ /\ Added # {}
          /\ history' = history \cup Added
          /\ Goto("announce")
          /\ UNCHANGED <<round, failures>>
       \/ /\ Added = {}
          /\ round' = [round EXCEPT !.again = TRUE]
          /\ Goto("schedule")
          /\ UNCHANGED <<history, failures>>
       \/ /\ Fails
          /\ round' = [round EXCEPT !.again = TRUE]
          /\ Goto("schedule")
          /\ UNCHANGED history
    /\ UNCHANGED <<wall, fleet, wait, awake, looked, setbacks, stops>>

\* The OnSnapshot callback.
Announce ==
    /\ pc = "announce"
    /\ Goto("schedule")
    /\ UNCHANGED <<wall, fleet, history, round, wait, awake, looked, setbacks, failures, stops>>

\* nextWait reads the clock again.
Schedule ==
    /\ pc = "schedule"
    /\ wait' = IF round.again THEN RetryDelay ELSE NextMonday(wall) - wall
    /\ awake' = 0
    /\ Goto("asleep")
    /\ UNCHANGED <<wall, fleet, history, round, looked, setbacks, failures, stops>>

Wake ==
    /\ pc = "asleep"
    /\ wait = 0
    /\ Goto("check")
    /\ UNCHANGED <<wall, fleet, history, round, wait, awake, looked, setbacks, failures, stops>>

----------------------------------------------------------------------------
(* Its environment                                                         *)

\* A timer that has run out wakes the job before the next tick; a round of the job lasts
\* no more than Slow ticks.
Tick ==
    /\ wall < MaxWall
    /\ CASE pc = "asleep" -> wait > 0
         [] pc = "down"   -> TRUE
         [] OTHER         -> awake < Slow
    /\ wall' = wall + 1
    /\ wait' = IF wait > 0 THEN wait - 1 ELSE 0
    /\ awake' = IF pc \in {"asleep", "down"} THEN awake ELSE awake + 1
    /\ UNCHANGED <<fleet, history, pc, round, looked, setbacks, failures, stops>>

SetBack ==
    /\ wall > 0
    /\ setbacks < MaxSetbacks
    /\ setbacks' = setbacks + 1
    /\ wall' = wall - 1
    /\ UNCHANGED <<fleet, history, pc, round, wait, awake, looked, failures, stops>>

\* A map report reaches the running process, or map_report_max_age ends without one.
Hear(n, v) ==
    /\ fleet[n] # v
    /\ v # None => pc # "down"
    /\ fleet' = [fleet EXCEPT ![n] = v]
    /\ UNCHANGED <<wall, history, pc, round, wait, awake, looked, setbacks, failures, stops>>

\* The process stops, at any point of a round, and starts later.
Stop ==
    /\ pc # "down"
    /\ stops < MaxStops
    /\ stops' = stops + 1
    /\ Goto("down")
    /\ wait' = 0
    /\ awake' = 0
    /\ round' = [week |-> 0, again |-> FALSE]
    /\ UNCHANGED <<wall, fleet, history, looked, setbacks, failures>>

Start ==
    /\ pc = "down"
    /\ Goto("check")
    /\ looked' = WeekOf(wall)
    /\ UNCHANGED <<wall, fleet, history, round, wait, awake, setbacks, failures, stops>>

JobInit ==
    /\ wall \in 0..WeekTicks - 1
    /\ fleet \in [Nodes -> Versions \cup {None}]
    /\ history = {}
    /\ pc = "check"
    /\ round = [week |-> 0, again |-> FALSE]
    /\ wait = 0
    /\ awake = 0
    /\ looked = 0
    /\ setbacks = 0
    /\ failures = 0
    /\ stops = 0

----------------------------------------------------------------------------
(* Properties                                                              *)

Points == {"check", "record", "announce", "schedule", "asleep", "down"}

JobTypeOK ==
    /\ wall \in 0..MaxWall
    /\ fleet \in [Nodes -> Versions \cup {None}]
    /\ history \subseteq [week: Nat, node: Nodes, version: Versions]
    /\ pc \in Points
    /\ round \in [week: Nat, again: BOOLEAN]
    /\ wait \in 0..WeekTicks
    /\ awake \in 0..Slow
    /\ looked \in Nat
    /\ setbacks \in 0..MaxSetbacks
    /\ failures \in 0..MaxFailures
    /\ stops \in 0..MaxStops

\* "first-writer-wins": a week is written by one insert, after all earlier weeks, and its
\* rows never change or go; neither a stop between insert and callback, nor a clock set
\* back over a Monday, nor a retry makes the job add what the fleet runs later to it.
WrittenOnce ==
    [][/\ history \subseteq history'
       /\ \A r \in history' \ history, w \in Weeks(history) : w < r.week]_jobVars

\* The job looks at the table at least every other week: the second reading of the clock
\* may fall into the next week, of which the job then sees nothing, but never into one
\* after that.
LooksEveryOtherWeek == pc # "down" => WeekOf(wall) <= looked + 2

\* "It catches up on the current week on startup (if the most recent row in the table is
\* older than the current Monday) and then sleeps until the next Monday 00:00 UTC."
\* (internal/stats/firmware_snapshot.go): when it does so, the week it sleeps through is
\* in the table.
SleepsThroughRecordedWeek ==
    [][pc = "schedule" /\ pc' = "asleep" /\ ~round.again => ~Due(WeekOf(wall))]_jobVars

=============================================================================
