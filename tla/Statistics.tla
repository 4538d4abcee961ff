----------------------------- MODULE Statistics -----------------------------
(***************************************************************************)
(* The weekly statistics as a whole: the snapshot job writes the history   *)
(* table and clears the cache through its OnSnapshot callback (app.go),    *)
(* while HTTP requests read the table through the cache.  Job and cache    *)
(* share the table, the clock and the process.                             *)
(***************************************************************************)
EXTENDS SnapshotJob

CONSTANTS Requests,  \* requests that may run at the same time
          AllWeeks,  \* the weeks there may be
          TTL,       \* the ttl the handlers pass
          MaxFlight  \* bound: ticks a request lasts

ASSUME StatisticsAssumption == TTL \in Nat \ {0} /\ MaxFlight \in Nat

VARIABLES announced, cache, requests

Cache == INSTANCE StatsCache WITH table <- Weeks(history)

vars == <<jobVars, announced, cache, requests>>

cacheVars == <<announced, cache, requests>>

\* OnSnapshot: the callback is api.InvalidateFirmwareCaches.
Invalidated == Announce /\ Cache!Invalidate

Job == (Check \/ Record \/ Schedule \/ Wake \/ SetBack) /\ UNCHANGED cacheVars

Passing == Tick /\ Cache!Age

Fleet == (\E n \in Nodes, v \in Versions \cup {None} : Hear(n, v)) /\ UNCHANGED cacheVars

Process == Stop /\ Cache!Drop

Up == Start /\ UNCHANGED cacheVars

Serving == pc # "down" /\ (\E r \in Requests : Cache!Serve(r)) /\ UNCHANGED jobVars

Init == JobInit /\ Cache!CacheInit

Next == Job \/ Invalidated \/ Passing \/ Fleet \/ Process \/ Up \/ Serving

Spec == Init /\ [][Next]_vars

----------------------------------------------------------------------------
(* Properties                                                              *)

TypeOK == JobTypeOK /\ Cache!CacheTypeOK

StaleOnlyByOverlap == Cache!StaleOnlyByOverlap

StaleAtMostTTL == Cache!StaleAtMostTTL

VisibleOnNextRequest == Cache!VisibleOnNextRequest

=============================================================================
