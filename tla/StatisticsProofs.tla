-------------------------- MODULE StatisticsProofs --------------------------
(***************************************************************************)
(* What is proved of the weekly statistics for every number of nodes,      *)
(* requests, weeks and failures, and for every length of a week, of the    *)
(* cache's time to live and of the job's and the requests' delays.         *)
(***************************************************************************)
EXTENDS Statistics, TLAPS

----------------------------------------------------------------------------
(* The history table                                                       *)

\* While the job is about to insert, the table has no week as recent as the one it
\* looked up: nobody else writes to the table.
Ready == pc = "record" => Due(round.week)

\* What WrittenOnce says of one step.
Extends ==
    /\ history \subseteq history'
    /\ \A r \in history' \ history, w \in Weeks(history) : w < r.week

\* Every step keeps the job ready: only Check enters "record", with a week that is due.
LEMMA ReadySteps == Ready /\ [Next]_vars => Ready'
<1> SUFFICES ASSUME Ready, [Next]_vars PROVE Ready'
  OBVIOUS
<1> USE DEF Ready, Due
<1>1. CASE Check
  BY <1>1 DEF Check, Goto
<1>2. CASE Record
  BY <1>2 DEF Record, Goto
<1>3. CASE Announce
  BY <1>3 DEF Announce, Goto
<1>4. CASE Schedule
  BY <1>4 DEF Schedule, Goto
<1>5. CASE Wake
  BY <1>5 DEF Wake, Goto
<1>6. CASE Tick \/ SetBack
  BY <1>6 DEF Tick, SetBack
<1>7. ASSUME NEW n \in Nodes, NEW v \in Versions \cup {None}, Hear(n, v) PROVE Ready'
  BY <1>7 DEF Hear
<1>8. CASE Stop \/ Start
  BY <1>8 DEF Stop, Start, Goto
<1>9. CASE UNCHANGED jobVars
  BY <1>9 DEF jobVars
<1>10. QED
  BY <1>1, <1>2, <1>3, <1>4, <1>5, <1>6, <1>7, <1>8, <1>9
  DEF Next, Job, Invalidated, Passing, Fleet, Process, Up, Serving, vars

\* A step of a job that is ready extends the table with a later week or leaves it.
LEMMA ReadyExtends == Ready /\ [Next]_vars => [Extends]_jobVars
<1> SUFFICES ASSUME Ready, [Next]_vars PROVE Extends \/ UNCHANGED jobVars
  OBVIOUS
<1>1. CASE Record
  <2>1. CASE history' = history
    BY <2>1 DEF Extends
  <2>2. CASE history' = history \cup Added
    <3>1. \A r \in Added : r.week = round.week
      BY DEF Added
    <3>2. \A w \in Weeks(history) : w < round.week
      BY <1>1 DEF Record, Ready, Due
    <3>3. QED
      BY <2>2, <3>1, <3>2 DEF Extends
  <2>3. QED
    BY <1>1, <2>1, <2>2 DEF Record
<1>2. CASE history' = history
  BY <1>2 DEF Extends
<1>3. ASSUME NEW n \in Nodes, NEW v \in Versions \cup {None}, Hear(n, v) PROVE history' = history
  BY <1>3 DEF Hear
<1>4. QED
  BY <1>1, <1>2, <1>3
  DEF Next, Job, Invalidated, Passing, Fleet, Process, Up, Serving, vars, jobVars, Check,
      Announce, Schedule, Wake, Tick, SetBack, Stop, Start

\* First writer wins: whatever stops, fails or is late, and wherever the clock is set
\* back to, a recorded week never changes and weeks are recorded in their order.
THEOREM WeeksWrittenOnce == Spec => WrittenOnce
<1>1. Init => Ready
  BY DEF Init, JobInit, Ready
<1>2. QED
  BY <1>1, ReadySteps, ReadyExtends, PTL DEF Spec, WrittenOnce, Extends

----------------------------------------------------------------------------
(* The cache                                                               *)

Flight == {"idle", "query", "store"}

\* What the proof needs of the types: a request and the cache entry are records of
\* weeks, and the announced weeks are told from the others.
Shape ==
    /\ history \subseteq [week: Int, node: Nodes, version: Versions]
    /\ fleet \in [Nodes -> Versions \cup {None}]
    /\ round \in [week: Int, again: BOOLEAN]
    /\ wall \in Int
    /\ announced \in [AllWeeks -> Int]
    /\ cache \in [weeks: SUBSET Int, left: Int, overlapped: SUBSET Int]
    /\ requests \in [Requests -> [at: Flight, weeks: SUBSET Int, overlapped: SUBSET Int, ticks: Int]]

\* Only weeks of the table are announced.
InTable == Cache!Announced \subseteq Weeks(history)

\* An answer on its way into the cache lacks only weeks announced since it left.
OnItsWay ==
    \A r \in Requests : requests[r].at = "store" =>
        Cache!Announced \ requests[r].weeks \subseteq requests[r].overlapped

\* What lasts through every step.
CInv == InTable /\ OnItsWay /\ StaleOnlyByOverlap

\* The steps of a request keep the shape of requests and cache.
LEMMA ServeShape ==
    ASSUME Shape, NEW r \in Requests, Cache!Serve(r), UNCHANGED jobVars
    PROVE  Shape'
<1>0. Weeks(history) \in SUBSET Int
  BY DEF Shape, Weeks
<1>z. 0 \in Int
  OBVIOUS
<1>t. TTL \in Int
  BY StatisticsAssumption
<1>i. \A w \in SUBSET Int : Cache!Idle(w) \in [at: Flight, weeks: SUBSET Int, overlapped: SUBSET Int, ticks: Int]
  BY <1>z DEF Cache!Idle, Flight
<1>e. {} \in SUBSET Int
  OBVIOUS
<1>1. CASE Cache!Hit(r)
  BY <1>1, <1>i DEF Cache!Hit, Shape, jobVars
<1>2. CASE Cache!Miss(r)
  <2>1. Cache!NoEntry \in [weeks: SUBSET Int, left: Int, overlapped: SUBSET Int]
    BY <1>z DEF Cache!NoEntry
  <2>2. [Cache!Idle({}) EXCEPT !.at = "query"] \in [at: Flight, weeks: SUBSET Int, overlapped: SUBSET Int, ticks: Int]
    BY <1>z DEF Cache!Idle, Flight
  <2>3. QED
    BY <1>2, <2>1, <2>2 DEF Cache!Miss, Shape, jobVars
<1>3. CASE Cache!Query(r)
  <2>1. [requests[r] EXCEPT !.at = "store", !.weeks = Weeks(history)]
            \in [at: Flight, weeks: SUBSET Int, overlapped: SUBSET Int, ticks: Int]
    BY <1>0 DEF Shape, Flight
  <2>2. requests' = [requests EXCEPT ![r] = [requests[r] EXCEPT !.at = "store", !.weeks = Weeks(history)]]
    BY <1>3 DEF Cache!Query, Shape
  <2>3. requests' \in [Requests -> [at: Flight, weeks: SUBSET Int, overlapped: SUBSET Int, ticks: Int]]
    BY <2>1, <2>2 DEF Shape
  <2>4. QED
    BY <1>3, <2>3 DEF Cache!Query, Shape, jobVars
<1>4. CASE Cache!QueryFails(r)
  BY <1>4, <1>i, <1>e DEF Cache!QueryFails, Shape, jobVars
<1>5. CASE Cache!Store(r)
  BY <1>5, <1>i, <1>t DEF Cache!Store, Cache!Set, Shape, jobVars
<1>6. QED
  BY <1>1, <1>2, <1>3, <1>4, <1>5 DEF Cache!Serve

\* The steps of a request keep what lasts: an answer that enters the cache brings along
\* the weeks announced on its way.
LEMMA ServeLasts ==
    ASSUME Shape, CInv, NEW r \in Requests, Cache!Serve(r), UNCHANGED jobVars
    PROVE  CInv'
<1> USE DEF Shape, CInv, InTable, OnItsWay, StaleOnlyByOverlap, Cache!StaleOnlyByOverlap,
            Cache!Fresh, Cache!Idle, jobVars
<1>0. Cache!Announced' = Cache!Announced /\ Weeks(history)' = Weeks(history)
  BY DEF Cache!Serve, Cache!Hit, Cache!Miss, Cache!Query, Cache!QueryFails, Cache!Store,
         Cache!Announced
<1>1. CASE Cache!Hit(r)
  BY <1>0, <1>1 DEF Cache!Hit
<1>2. CASE Cache!Miss(r)
  BY <1>0, <1>2 DEF Cache!Miss, Cache!NoEntry
<1>3. CASE Cache!Query(r)
  BY <1>0, <1>3 DEF Cache!Query
<1>4. CASE Cache!QueryFails(r)
  BY <1>0, <1>4 DEF Cache!QueryFails
<1>5. CASE Cache!Store(r)
  BY <1>0, <1>5 DEF Cache!Store, Cache!Set
<1>6. QED
  BY <1>1, <1>2, <1>3, <1>4, <1>5 DEF Cache!Serve

\* The callback announces the weeks of the table to the requests on their way, and to
\* nobody else, because it leaves nothing in the cache.
LEMMA InvalidateLasts ==
    ASSUME Shape, CInv, Announce, Cache!Invalidate
    PROVE  Shape' /\ CInv'
<1> USE DEF Shape, CInv, InTable, OnItsWay, StaleOnlyByOverlap, Cache!StaleOnlyByOverlap,
            Cache!Fresh, Cache!Announced, Cache!Never
<1>1. 0 \in Int /\ -1 \in Int
  OBVIOUS
<1>2. history' = history /\ round' = round /\ wall' = wall /\ fleet' = fleet
  BY DEF Announce
<1>3. Weeks(history) \in SUBSET Int /\ Weeks(history)' = Weeks(history)
  BY <1>2 DEF Weeks
<1>4. Cache!Announced' = Cache!Announced \cup (Weeks(history) \cap AllWeeks)
  BY <1>1 DEF Cache!Invalidate
<1>5. cache' = Cache!NoEntry /\ ~(cache'.left > 0)
  BY DEF Cache!Invalidate, Cache!NoEntry
<1>6. ASSUME NEW r \in Requests
      PROVE  /\ requests'[r] \in [at: Flight, weeks: SUBSET Int, overlapped: SUBSET Int, ticks: Int]
             /\ requests'[r].at = "store" =>
                   /\ requests[r].at = "store"
                   /\ requests'[r].weeks = requests[r].weeks
                   /\ requests'[r].overlapped =
                         requests[r].overlapped \cup (Weeks(history) \ Cache!Announced)
  BY <1>3, <1>6 DEF Cache!Invalidate, Flight
<1>7. Shape'
  <2>1. cache' \in [weeks: SUBSET Int, left: Int, overlapped: SUBSET Int]
    BY <1>1, <1>5 DEF Cache!NoEntry
  <2>2. announced' \in [AllWeeks -> Int]
    BY <1>1 DEF Cache!Invalidate
  <2>3. requests' = [r \in Requests |-> requests'[r]]
    BY DEF Cache!Invalidate
  <2>4. QED
    BY <1>2, <1>6, <2>1, <2>2, <2>3
<1>8. CInv'
  BY <1>3, <1>4, <1>5, <1>6
<1>9. QED
  BY <1>7, <1>8

\* Time takes entries out of the cache and nothing into it.
LEMMA AgeLasts ==
    ASSUME Shape, CInv, Tick, Cache!Age
    PROVE  Shape' /\ CInv'
<1> USE DEF Shape, CInv, InTable, OnItsWay, StaleOnlyByOverlap, Cache!StaleOnlyByOverlap,
            Cache!Fresh, Cache!Announced, Cache!Never
<1>1. 0 \in Int /\ -1 \in Int /\ TTL \in Int /\ MaxFlight \in Int
  BY StatisticsAssumption
<1>2. history' = history /\ round' = round /\ wall' \in Int /\ fleet' = fleet
  BY DEF Tick
<1>3. Weeks(history)' = Weeks(history)
  BY <1>2 DEF Weeks
<1>4. \A w \in AllWeeks : announced'[w] \in Int /\ (announced'[w] = -1 <=> announced[w] = -1)
  BY <1>1 DEF Cache!Age
<1>5. Cache!Announced' = Cache!Announced
  BY <1>4
<1>6. /\ cache' \in [weeks: SUBSET Int, left: Int, overlapped: SUBSET Int]
      /\ cache'.weeks = cache.weeks /\ cache'.overlapped = cache.overlapped
      /\ cache'.left > 0 => cache.left > 0
  <2>1. IF cache.left > 0 THEN cache.left - 1 \in Int ELSE 0 \in Int
    BY <1>1
  <2>2. QED
    BY <2>1 DEF Cache!Age
<1>7. ASSUME NEW r \in Requests
      PROVE  /\ requests'[r] \in [at: Flight, weeks: SUBSET Int, overlapped: SUBSET Int, ticks: Int]
             /\ requests'[r].at = requests[r].at
             /\ requests'[r].weeks = requests[r].weeks
             /\ requests'[r].overlapped = requests[r].overlapped
  <2>1. requests[r].ticks + 1 \in Int
    OBVIOUS
  <2>2. QED
    BY <2>1 DEF Cache!Age, Flight
<1>8. Shape'
  <2>1. announced' = [w \in AllWeeks |-> announced'[w]] /\ requests' = [r \in Requests |-> requests'[r]]
    BY DEF Cache!Age
  <2>2. QED
    BY <1>2, <1>4, <1>6, <1>7, <2>1
<1>9. CInv'
  BY <1>3, <1>5, <1>6, <1>7
<1>10. QED
  BY <1>8, <1>9

\* The other steps of the job leave cache and requests alone, and the table only grows.
LEMMA JobLasts ==
    ASSUME Shape, CInv, UNCHANGED cacheVars,
           \/ Check \/ Record \/ Schedule \/ Wake \/ SetBack \/ Start
           \/ \E n \in Nodes, v \in Versions \cup {None} : Hear(n, v)
    PROVE  Shape' /\ CInv'
<1>1. wall' \in Int
  BY DEF Shape, Check, Record, Schedule, Wake, SetBack, Start, Hear
<1>2. WeekOf(wall) \in Int
  BY SnapshotAssumption DEF Shape, WeekOf
<1>f. fleet' \in [Nodes -> Versions \cup {None}]
  BY DEF Shape, Check, Record, Schedule, Wake, SetBack, Start, Hear
<1>3. round' \in [week: Int, again: BOOLEAN]
  <2>1. CASE Check
    <3>1. \/ round' = [week |-> WeekOf(wall), again |-> TRUE]
          \/ round' = [week |-> WeekOf(wall), again |-> FALSE]
      BY <2>1 DEF Check
    <3>2. ASSUME NEW w \in Int, NEW b \in BOOLEAN
          PROVE  [week |-> w, again |-> b] \in [week: Int, again: BOOLEAN]
      OBVIOUS
    <3>3. QED
      BY <1>2, <3>1, <3>2, Zenon
  <2>2. CASE Record
    <3>1. [round EXCEPT !.again = TRUE] \in [week: Int, again: BOOLEAN]
      BY DEF Shape
    <3>2. round' = round \/ round' = [round EXCEPT !.again = TRUE]
      BY <2>2 DEF Record
    <3>3. QED
      BY <3>1, <3>2 DEF Shape
  <2>3. CASE round' = round
    BY <2>3 DEF Shape
  <2>4. Check \/ Record \/ round' = round
    BY DEF Schedule, Wake, SetBack, Start, Hear
  <2>5. QED
    BY <2>1, <2>2, <2>3, <2>4
<1>4. /\ history \subseteq history'
      /\ history' \subseteq [week: Int, node: Nodes, version: Versions]
  <2>1. CASE Record
    <3>1. Added \subseteq [week: Int, node: Nodes, version: Versions]
      BY DEF Added, Shape
    <3>2. QED
      BY <2>1, <3>1 DEF Record, Shape
  <2>2. CASE history' = history
    BY <2>2 DEF Shape
  <2>3. QED
    BY <2>1, <2>2 DEF Check, Schedule, Wake, SetBack, Start, Hear
<1>5. Weeks(history) \subseteq Weeks(history')
  BY <1>4 DEF Weeks
<1>6. UNCHANGED <<announced, cache, requests>>
  BY DEF cacheVars
<1>7. Shape'
  BY <1>1, <1>3, <1>4, <1>6, <1>f DEF Shape
<1>8. CInv'
  BY <1>5, <1>6 DEF CInv, InTable, OnItsWay, StaleOnlyByOverlap, Cache!StaleOnlyByOverlap,
                    Cache!Fresh, Cache!Announced
<1>9. QED
  BY <1>7, <1>8

\* The process stops: the cache is empty and no request is on its way.
LEMMA StopLasts ==
    ASSUME Shape, CInv, Stop, Cache!Drop
    PROVE  Shape' /\ CInv'
<1>1. 0 \in Int /\ {} \in SUBSET Int
  OBVIOUS
<1>2. /\ UNCHANGED <<history, wall, fleet, announced>>
      /\ Weeks(history)' = Weeks(history)
  BY DEF Stop, Cache!Drop, Weeks
<1>3. round' \in [week: Int, again: BOOLEAN]
  BY <1>1 DEF Stop
<1>4. /\ cache' \in [weeks: SUBSET Int, left: Int, overlapped: SUBSET Int]
      /\ ~(cache'.left > 0)
  BY <1>1 DEF Cache!Drop, Cache!NoEntry
<1>5. /\ requests' \in [Requests -> [at: Flight, weeks: SUBSET Int, overlapped: SUBSET Int, ticks: Int]]
      /\ \A r \in Requests : requests'[r].at # "store"
  BY <1>1 DEF Cache!Drop, Cache!Idle, Flight
<1>6. Shape'
  BY <1>2, <1>3, <1>4, <1>5 DEF Shape
<1>7. CInv'
  BY <1>2, <1>4, <1>5 DEF CInv, InTable, OnItsWay, StaleOnlyByOverlap, Cache!StaleOnlyByOverlap,
                          Cache!Fresh, Cache!Announced
<1>8. QED
  BY <1>6, <1>7

LEMMA StatisticsStart == Init => Shape /\ CInv
<1> SUFFICES ASSUME Init PROVE Shape /\ CInv
  OBVIOUS
<1>1. 0 \in Int /\ -1 \in Int /\ {} \in SUBSET Int
  OBVIOUS
<1>2. Shape
  <2>1. round \in [week: Int, again: BOOLEAN]
    BY <1>1 DEF Init, JobInit
  <2>2. cache \in [weeks: SUBSET Int, left: Int, overlapped: SUBSET Int]
    BY <1>1 DEF Init, Cache!CacheInit, Cache!NoEntry
  <2>3. requests \in [Requests -> [at: Flight, weeks: SUBSET Int, overlapped: SUBSET Int, ticks: Int]]
    BY <1>1 DEF Init, Cache!CacheInit, Cache!Idle, Flight
  <2>4. announced \in [AllWeeks -> Int] /\ history = {} /\ wall \in Int
        /\ fleet \in [Nodes -> Versions \cup {None}]
    BY <1>1 DEF Init, JobInit, Cache!CacheInit, Cache!Never
  <2>5. QED
    BY <2>1, <2>2, <2>3, <2>4 DEF Shape
<1>3. CInv
  BY <1>1 DEF Init, Cache!CacheInit, Cache!NoEntry, Cache!Idle, Cache!Never, CInv, InTable, OnItsWay,
         StaleOnlyByOverlap, Cache!StaleOnlyByOverlap, Cache!Fresh, Cache!Announced
<1>4. QED
  BY <1>2, <1>3

LEMMA StatisticsSteps == Shape /\ CInv /\ [Next]_vars => Shape' /\ CInv'
<1> SUFFICES ASSUME Shape, CInv, [Next]_vars PROVE Shape' /\ CInv'
  OBVIOUS
<1>1. CASE Job \/ Fleet \/ Up
  BY <1>1, JobLasts DEF Job, Fleet, Up
<1>2. CASE Invalidated
  BY <1>2, InvalidateLasts DEF Invalidated
<1>3. CASE Passing
  BY <1>3, AgeLasts DEF Passing
<1>4. CASE Process
  BY <1>4, StopLasts DEF Process
<1>5. CASE Serving
  BY <1>5, ServeShape, ServeLasts DEF Serving
<1>6. CASE UNCHANGED vars
  BY <1>6 DEF vars, jobVars, Shape, CInv, InTable, OnItsWay, StaleOnlyByOverlap,
              Cache!StaleOnlyByOverlap, Cache!Fresh, Cache!Announced, Weeks
<1>7. QED
  BY <1>1, <1>2, <1>3, <1>4, <1>5, <1>6 DEF Next

\* A cached answer that lacks an announced week was filled by a request that overlapped
\* the announcement: the race is the only way to a stale entry.
THEOREM StaleByRaceOnly == Spec => []StaleOnlyByOverlap
<1>1. Shape /\ CInv => StaleOnlyByOverlap
  BY DEF CInv
<1>2. QED
  BY <1>1, StatisticsStart, StatisticsSteps, PTL DEF Spec

----------------------------------------------------------------------------
(* How stale an answer of the cache may be                                 *)

\* An answer on its way lacks only weeks announced since its request began, and an entry
\* that lasts longer lacks only weeks announced more lately.
Timely ==
    /\ \A r \in Requests : requests[r].ticks \in 0..MaxFlight
    /\ \A r \in Requests : requests[r].at = "store" =>
          \A w \in Cache!Announced \ requests[r].weeks : announced[w] <= requests[r].ticks
    /\ Cache!Fresh(cache) =>
          \A w \in Cache!Announced \ cache.weeks : announced[w] + cache.left <= TTL + MaxFlight

LEMMA ServeTimely ==
    ASSUME Shape, InTable, Timely, NEW r \in Requests, Cache!Serve(r), UNCHANGED jobVars
    PROVE  Timely'
<1> USE DEF Shape, InTable, Timely, Cache!Fresh, Cache!Idle, jobVars
<1>n. TTL \in Nat \ {0} /\ MaxFlight \in Nat
  BY StatisticsAssumption
<1>0. announced' = announced /\ Cache!Announced' = Cache!Announced /\ Weeks(history)' = Weeks(history)
  BY DEF Cache!Serve, Cache!Hit, Cache!Miss, Cache!Query, Cache!QueryFails, Cache!Store,
         Cache!Announced
<1>1. CASE Cache!Hit(r)
  BY <1>n, <1>0, <1>1 DEF Cache!Hit
<1>2. CASE Cache!Miss(r)
  BY <1>n, <1>0, <1>2 DEF Cache!Miss, Cache!NoEntry
<1>3. CASE Cache!Query(r)
  BY <1>n, <1>0, <1>3 DEF Cache!Query
<1>4. CASE Cache!QueryFails(r)
  BY <1>n, <1>0, <1>4 DEF Cache!QueryFails
<1>5. CASE Cache!Store(r)
  <2>1. cache' = [weeks |-> requests[r].weeks, left |-> TTL, overlapped |-> requests[r].overlapped]
    BY <1>5 DEF Cache!Store, Cache!Set
  <2>2. \A w \in Cache!Announced \ requests[r].weeks :
           /\ announced[w] \in Int
           /\ announced[w] <= requests[r].ticks
    BY <1>5 DEF Cache!Store, Cache!Announced
  <2>3. \A w \in Cache!Announced' \ cache'.weeks : announced'[w] + cache'.left <= TTL + MaxFlight
    BY <1>n, <1>0, <2>1, <2>2
  <2>4. \A q \in Requests : requests'[q] = IF q = r THEN Cache!Idle(requests[r].weeks) ELSE requests[q]
    BY <1>5 DEF Cache!Store
  <2>5. QED
    BY <1>n, <1>0, <2>3, <2>4
<1>6. QED
  BY <1>1, <1>2, <1>3, <1>4, <1>5 DEF Cache!Serve

\* A week is announced to requests that are at least as old, and the cache is empty.
LEMMA InvalidateTimely ==
    ASSUME Shape, Timely, Announce, Cache!Invalidate
    PROVE  Timely'
<1> USE DEF Shape, Timely, Cache!Fresh, Cache!Announced, Cache!Never
<1>1. MaxFlight \in Nat
  BY StatisticsAssumption
<1>2. \A w \in AllWeeks : announced'[w] = announced[w] \/ announced'[w] = 0
  BY DEF Cache!Invalidate
<1>3. ~(cache'.left > 0)
  BY DEF Cache!Invalidate, Cache!NoEntry
<1>4. \A r \in Requests : /\ requests'[r].at = requests[r].at
                          /\ requests'[r].weeks = requests[r].weeks
                          /\ requests'[r].ticks = requests[r].ticks
  BY DEF Cache!Invalidate
<1>5. ASSUME NEW w \in Cache!Announced'
      PROVE  announced'[w] = 0 \/ (w \in Cache!Announced /\ announced'[w] = announced[w])
  BY <1>2, <1>5
<1>6. QED
  BY <1>1, <1>3, <1>4, <1>5

\* What time adds to a week it adds to the requests on their way and takes from the entry.
LEMMA AgeTimely ==
    ASSUME Shape, Timely, Tick, Cache!Age
    PROVE  Timely'
<1> USE DEF Shape, Timely, Cache!Fresh, Cache!Announced, Cache!Never
<1>1. TTL \in Nat /\ MaxFlight \in Nat
  BY StatisticsAssumption
<1>2. \A w \in AllWeeks : /\ announced[w] \in Int /\ announced'[w] \in Int
                          /\ announced'[w] <= announced[w] + 1
                          /\ announced'[w] = -1 <=> announced[w] = -1
  BY <1>1 DEF Cache!Age
<1>3. Cache!Announced' = Cache!Announced
  BY <1>2
<1>4. cache'.weeks = cache.weeks /\ (cache'.left > 0 => cache'.left = cache.left - 1)
  BY DEF Cache!Age
<1>5. \A r \in Requests :
         /\ requests'[r].at = requests[r].at /\ requests'[r].weeks = requests[r].weeks
         /\ requests[r].at = "idle" => requests'[r].ticks = requests[r].ticks
         /\ requests[r].at # "idle" => /\ requests[r].ticks < MaxFlight
                                       /\ requests'[r].ticks = requests[r].ticks + 1
  BY DEF Cache!Age
<1>6. \A r \in Requests : requests'[r].ticks \in 0..MaxFlight
  BY <1>1, <1>5
<1>7. ASSUME NEW r \in Requests, requests'[r].at = "store",
             NEW w \in Cache!Announced' \ requests'[r].weeks
      PROVE  announced'[w] <= requests'[r].ticks
  BY <1>2, <1>3, <1>5, <1>7
<1>8. ASSUME cache'.left > 0, NEW w \in Cache!Announced' \ cache'.weeks
      PROVE  announced'[w] + cache'.left <= TTL + MaxFlight
  <2>1. announced[w] + cache.left <= TTL + MaxFlight /\ cache.left \in Int
    BY <1>3, <1>4, <1>8
  <2>2. QED
    BY <1>1, <1>2, <1>4, <1>8, <2>1
<1>9. QED
  BY <1>6, <1>7, <1>8

LEMMA TimelyStart == Init => Timely
<1> SUFFICES ASSUME Init PROVE Timely
  OBVIOUS
<1>1. MaxFlight \in Nat
  BY StatisticsAssumption
<1>2. QED
  BY <1>1 DEF Init, Cache!CacheInit, Cache!NoEntry, Cache!Idle, Timely, Cache!Fresh

LEMMA TimelySteps == Shape /\ CInv /\ Timely /\ [Next]_vars => Timely'
<1> SUFFICES ASSUME Shape, CInv, Timely, [Next]_vars PROVE Timely'
  OBVIOUS
<1>1. CASE UNCHANGED cacheVars
  BY <1>1 DEF cacheVars, Timely, Cache!Fresh, Cache!Announced
<1>2. CASE Invalidated
  BY <1>2, InvalidateTimely DEF Invalidated
<1>3. CASE Passing
  BY <1>3, AgeTimely DEF Passing
<1>4. CASE Process
  <2>1. MaxFlight \in Nat
    BY StatisticsAssumption
  <2>2. /\ ~(cache'.left > 0)
        /\ \A r \in Requests : requests'[r].at = "idle" /\ requests'[r].ticks = 0
    BY <1>4 DEF Process, Cache!Drop, Cache!NoEntry, Cache!Idle
  <2>3. QED
    BY <2>1, <2>2 DEF Timely, Cache!Fresh
<1>5. CASE Serving
  BY <1>5, ServeTimely DEF Serving, CInv
<1>6. QED
  BY <1>1, <1>2, <1>3, <1>4, <1>5 DEF Next, Job, Fleet, Up, vars, cacheVars

\* Whatever the cache serves has every week that was announced a time to live and the
\* longest request ago, for any number of concurrent requests, weeks and stops.
THEOREM StaleForTTLOnly == Spec => []StaleAtMostTTL
<1>1. Shape /\ Timely => StaleAtMostTTL
  <2> SUFFICES ASSUME Shape, Timely, Cache!Fresh(cache), NEW w \in Cache!Announced,
                      announced[w] >= TTL + MaxFlight, w \notin cache.weeks
               PROVE  FALSE
    BY DEF StaleAtMostTTL, Cache!StaleAtMostTTL
  <2>1. announced[w] \in Int /\ cache.left \in Int /\ TTL \in Int /\ MaxFlight \in Int
    BY StatisticsAssumption DEF Shape, Cache!Announced
  <2>2. announced[w] + cache.left <= TTL + MaxFlight /\ cache.left > 0
    BY DEF Timely, Cache!Fresh
  <2>3. QED
    BY <2>1, <2>2
<1>2. QED
  BY <1>1, StatisticsStart, StatisticsSteps, TimelyStart, TimelySteps, PTL DEF Spec


----------------------------------------------------------------------------
(* How late the job looks                                                  *)

Monday(week) == week * WeekTicks

\* A round that looked in a week ends, and the job wakes up and looks again, before
\* the third Monday after; "awake" counts what it has used of the time a round may take.
OnTime ==
    /\ wall \in Int /\ wait \in Int /\ looked \in Int /\ awake \in 0..Slow
    /\ pc \in Points
    /\ pc = "asleep" => wait >= 0 /\ awake = 0 /\ wall + wait + Slow < Monday(looked + 3)
    /\ pc = "check" => wall + (Slow - awake) < Monday(looked + 3)
    /\ pc \in {"record", "announce", "schedule"} => wall - awake < Monday(looked + 1)
    /\ pc = "down" => awake = 0

\* Weeks are intervals between Mondays.
LEMMA WeekBounds ==
    ASSUME NEW t \in Int
    PROVE  /\ WeekOf(t) \in Int
           /\ Monday(WeekOf(t)) <= t
           /\ t < Monday(WeekOf(t) + 1)
BY SnapshotAssumption DEF WeekOf, Monday

\* An instant before a Monday is in an earlier week.
LEMMA BeforeMonday ==
    ASSUME NEW t \in Int, NEW week \in Int, t < Monday(week + 1)
    PROVE  WeekOf(t) <= week
<1>1. WeekOf(t) \in Int /\ Monday(WeekOf(t)) <= t
  BY WeekBounds
<1>2. WeekTicks \in Nat \ {0}
  BY SnapshotAssumption
<1> DEFINE d == WeekOf(t) - (week + 1)
<1>3. d \in Int /\ d * WeekTicks = Monday(WeekOf(t)) - Monday(week + 1)
  BY <1>1, <1>2 DEF Monday
<1>4. Monday(week + 1) \in Int /\ Monday(WeekOf(t)) \in Int
  BY <1>1, <1>2 DEF Monday
<1>5. d * WeekTicks < 0
  BY <1>1, <1>3, <1>4
<1> HIDE DEF d
<1>6. d < 0
  BY <1>2, <1>3, <1>5
<1>7. QED
  BY <1>1, <1>6 DEF d

LEMMA OnTimeStart == Init => OnTime
<1> SUFFICES ASSUME Init PROVE OnTime
  OBVIOUS
<1>1. WeekTicks \in Nat \ {0} /\ Slow \in 0..WeekTicks - 1
  BY SnapshotAssumption
<1>2. wall \in 0..WeekTicks - 1 /\ pc = "check" /\ wait = 0 /\ looked = 0 /\ awake = 0
  BY DEF Init, JobInit
<1>3. Monday(looked + 3) = 3 * WeekTicks
  BY <1>1, <1>2 DEF Monday
<1>4. QED
  BY <1>1, <1>2, <1>3 DEF OnTime, Points

LEMMA OnTimeSteps == OnTime /\ [Next]_vars => OnTime'
<1> SUFFICES ASSUME OnTime, [Next]_vars PROVE OnTime'
  OBVIOUS
<1>0. /\ WeekTicks \in Nat \ {0} /\ RetryDelay \in 1..WeekTicks /\ Slow \in 0..WeekTicks - 1
      /\ 2 * Slow + RetryDelay <= 2 * WeekTicks
  BY SnapshotAssumption
<1>1. /\ looked \in Int
      /\ Monday(looked + 1) \in Int
      /\ Monday(looked + 2) = Monday(looked + 1) + WeekTicks
      /\ Monday(looked + 3) = Monday(looked + 1) + 2 * WeekTicks
  BY <1>0 DEF OnTime, Monday
<1>2. /\ WeekOf(wall) \in Int
      /\ wall < Monday(WeekOf(wall) + 1)
      /\ Monday(WeekOf(wall) + 1) \in Int
      /\ Monday(WeekOf(wall) + 3) = Monday(WeekOf(wall) + 1) + 2 * WeekTicks
  <2>1. WeekOf(wall) \in Int /\ wall < Monday(WeekOf(wall) + 1)
    BY WeekBounds DEF OnTime
  <2>2. QED
    BY <1>0, <2>1 DEF Monday
<1>3. CASE Check
  <2>1. /\ looked' = WeekOf(wall) /\ pc' \in {"record", "schedule"}
        /\ wall' = wall /\ wait' = wait /\ awake' = awake
    BY <1>3 DEF Check, Goto
  <2>2. wall' - awake' < Monday(looked' + 1)
    BY <1>0, <1>2, <2>1 DEF OnTime
  <2>3. QED
    BY <1>2, <2>1, <2>2 DEF OnTime, Points
<1>4. CASE Record \/ Announce
  <2>1. /\ pc \in {"record", "announce"} /\ pc' \in {"announce", "schedule"}
        /\ wall' = wall /\ wait' = wait /\ awake' = awake /\ looked' = looked
    BY <1>4 DEF Record, Announce, Goto
  <2>2. QED
    BY <2>1 DEF OnTime, Points
<1>5. CASE Schedule
  <2>1. /\ pc = "schedule" /\ pc' = "asleep" /\ awake' = 0
        /\ wall' = wall /\ looked' = looked
        /\ wait' = RetryDelay \/ wait' = NextMonday(wall) - wall
    BY <1>5 DEF Schedule, Goto
  <2>2. wall - awake < Monday(looked + 1) /\ wall \in Int /\ awake \in 0..Slow
    BY <2>1 DEF OnTime
  <2>3. CASE wait' = RetryDelay
    BY <1>0, <1>1, <2>1, <2>2, <2>3 DEF OnTime, Points
  <2>4. CASE wait' = NextMonday(wall) - wall
    <3>1. wall < Monday(looked + 1 + 1)
      BY <1>0, <1>1, <2>2
    <3>2. WeekOf(wall) <= looked + 1
      BY <1>1, <2>2, <3>1, BeforeMonday
    <3>3. NextMonday(wall) = Monday(WeekOf(wall) + 1)
      BY DEF NextMonday, Monday
    <3>4. Monday(WeekOf(wall) + 1) <= Monday(looked + 2)
      BY <1>0, <1>1, <1>2, <3>2 DEF Monday
    <3>5. wait' \in Int /\ wait' >= 0 /\ wall' + wait' + Slow < Monday(looked' + 3)
      BY <1>0, <1>1, <1>2, <2>1, <2>2, <2>4, <3>3, <3>4
    <3>6. QED
      BY <1>0, <1>1, <2>1, <2>2, <3>5 DEF OnTime, Points
  <2>5. QED
    BY <2>1, <2>3, <2>4
<1>6. CASE Wake
  <2>1. /\ pc = "asleep" /\ wait = 0 /\ pc' = "check"
        /\ wall' = wall /\ wait' = wait /\ awake' = awake /\ looked' = looked
    BY <1>6 DEF Wake, Goto
  <2>2. QED
    BY <1>0, <1>1, <2>1 DEF OnTime, Points
<1>7. CASE Tick
  <2>1. /\ pc' = pc /\ looked' = looked /\ wall' = wall + 1
        /\ wait' = IF wait > 0 THEN wait - 1 ELSE 0
        /\ awake' = IF pc \in {"asleep", "down"} THEN awake ELSE awake + 1
        /\ pc = "asleep" => wait > 0
        /\ pc \notin {"asleep", "down"} => awake < Slow
    BY <1>7 DEF Tick
  <2>2. wall' \in Int /\ wait' \in Int /\ awake' \in 0..Slow
    BY <1>0, <2>1 DEF OnTime
  <2>3. QED
    BY <1>0, <1>1, <2>1, <2>2 DEF OnTime
<1>8. CASE SetBack
  <2>1. /\ pc' = pc /\ looked' = looked /\ wall' = wall - 1
        /\ wait' = wait /\ awake' = awake
    BY <1>8 DEF SetBack
  <2>2. QED
    BY <1>0, <1>1, <2>1 DEF OnTime
<1>9. CASE Stop
  <2>1. /\ pc' = "down" /\ looked' = looked /\ wall' = wall /\ wait' = 0 /\ awake' = 0
    BY <1>9 DEF Stop, Goto
  <2>2. QED
    BY <1>0, <2>1 DEF OnTime, Points
<1>10. CASE Start
  <2>1. /\ pc = "down" /\ pc' = "check" /\ looked' = WeekOf(wall)
        /\ wall' = wall /\ wait' = wait /\ awake' = awake
    BY <1>10 DEF Start, Goto
  <2>2. QED
    BY <1>0, <1>2, <2>1 DEF OnTime, Points
<1>11. CASE UNCHANGED <<wall, pc, wait, awake, looked>>
  BY <1>11 DEF OnTime
<1>12. ASSUME NEW n \in Nodes, NEW v \in Versions \cup {None}, Hear(n, v)
       PROVE  UNCHANGED <<wall, pc, wait, awake, looked>>
  BY <1>12 DEF Hear
<1>13. QED
  BY <1>3, <1>4, <1>5, <1>6, <1>7, <1>8, <1>9, <1>10, <1>11, <1>12
  DEF Next, Job, Invalidated, Passing, Fleet, Process, Up, Serving, vars, jobVars

\* A running job never lets two whole weeks go by without a look at the table, however
\* rounds fail, clocks are set back and the process stops: what the second reading of the
\* clock may miss is one week.
THEOREM NeverTwoWeeksBlind == Spec => []LooksEveryOtherWeek
<1>1. OnTime => LooksEveryOtherWeek
  <2> SUFFICES ASSUME OnTime, pc # "down" PROVE WeekOf(wall) <= looked + 2
    BY DEF LooksEveryOtherWeek
  <2>0. WeekTicks \in Nat \ {0} /\ Slow \in 0..WeekTicks - 1 /\ looked \in Int /\ wall \in Int
    BY SnapshotAssumption DEF OnTime
  <2>1. /\ Monday(looked + 1) \in Int
        /\ Monday(looked + 3) = Monday(looked + 1) + 2 * WeekTicks
    BY <2>0 DEF Monday
  <2>2. wall < Monday(looked + 2 + 1)
    BY <2>0, <2>1 DEF OnTime, Points
  <2>3. QED
    BY <2>0, <2>2, BeforeMonday
<1>2. QED
  BY <1>1, OnTimeStart, OnTimeSteps, PTL DEF Spec


=============================================================================
