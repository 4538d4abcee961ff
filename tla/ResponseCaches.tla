--------------------------- MODULE ResponseCaches ---------------------------
(***************************************************************************)
(* internal/api/http/topology.go and activity.go: two response caches with *)
(* a mutex that is not held while the store is queried.  The topology has  *)
(* one slot for the last key; the activity an entry for each period, which *)
(* one request loads one after the other with one reading of the clock.    *)
(*                                                                         *)
(* A reading of the clock is an instant, and time.Now().UTC() has no       *)
(* monotonic part: the clock may be set back.  Links are known by the      *)
(* query they answer, a period by the instant it ends at.                  *)
(***************************************************************************)
EXTENDS Integers, Sequences

CONSTANTS Askers,      \* requests that may run at the same time
          LinkFilters, \* queries of the topology: node, channel and kinds
          LinksTTL,    \* web.map.topology_cache_ttl
          DailyBucket, WeeklyBucket,
          LastInstant, MaxClockSetbacks \* bounds

ASSUME ResponsesAssumption ==
    /\ LinksTTL \in Nat \ {0} /\ LastInstant \in Nat /\ MaxClockSetbacks \in Nat
    /\ DailyBucket \in Nat \ {0} /\ WeeklyBucket \in Nat \ {0}

VARIABLES instant,       \* what the clock reads
          clockSetbacks, \* how often it was set back
          linksSlot,     \* topologyCache
          periodCache,   \* activityCache
          asked,         \* each request that is being served
          told           \* the request the last step answered, with what it was told

responseVars == <<instant, clockSetbacks, linksSlot, periodCache, asked, told>>

NoKey == [filter |-> "", since |-> -1]
NoEnd == -1

\* activityPeriods, in the order they are loaded.
Bucket == <<DailyBucket, WeeklyBucket>>
Periods == DOMAIN Bucket

NoQuestion == [at |-> "none", key |-> NoKey, now |-> 0, links |-> NoKey, ends |-> <<>>]

Idle(a) == asked[a].at = "none"
Tell(a, answer) == told' = answer /\ asked' = [asked EXCEPT ![a] = NoQuestion]
GoOn(a, question) == told' = NoQuestion /\ asked' = [asked EXCEPT ![a] = question]

\* alignTime
Align(now, bucket) == (now \div bucket) * bucket

----------------------------------------------------------------------------
(* The topology                                                            *)

\* topologyCacheKey, with the cutoff the handler computed: its own reading of the clock,
\* less the age of evidence that counts.
LinksKey(filter) == [filter |-> filter, since |-> instant]

AskLinks(a, filter) ==
    /\ Idle(a)
    /\ GoOn(a, [NoQuestion EXCEPT !.at = "links", !.key = LinksKey(filter)])
    /\ UNCHANGED <<linksSlot, periodCache>>

\* cachedTopologyEdges
LinksCached(key, now) == linksSlot.key = key /\ now < linksSlot.expiresAt

TellLinks(a, links) == Tell(a, [asked[a] EXCEPT !.at = "told", !.links = links])

\* topologyEdges reads the clock again for loadTopologyEdges.
ReadClock(a) ==
    /\ asked[a].at = "links"
    /\ GoOn(a, [asked[a] EXCEPT !.at = "look up links", !.now = instant])
    /\ UNCHANGED <<linksSlot, periodCache>>

\* loadTopologyEdges, up to the query.
LookUpLinks(a) ==
    /\ asked[a].at = "look up links"
    /\ IF LinksCached(asked[a].key, asked[a].now) THEN TellLinks(a, linksSlot.links)
       ELSE GoOn(a, [asked[a] EXCEPT !.at = "query links"])
    /\ UNCHANGED <<linksSlot, periodCache>>

\* The query, whose answer is the links of its key; an error is the answer otherwise.
QueryLinks(a) ==
    /\ asked[a].at = "query links"
    /\ \/ GoOn(a, [asked[a] EXCEPT !.at = "fill links", !.links = asked[a].key])
       \/ GoOn(a, NoQuestion)
    /\ UNCHANGED <<linksSlot, periodCache>>

FillLinks(a) ==
    /\ asked[a].at = "fill links"
    /\ IF LinksCached(asked[a].key, asked[a].now)
       THEN TellLinks(a, linksSlot.links) /\ UNCHANGED linksSlot
       ELSE /\ linksSlot' = [key |-> asked[a].key, links |-> asked[a].links,
                             expiresAt |-> asked[a].now + LinksTTL]
            /\ TellLinks(a, asked[a].links)
    /\ UNCHANGED periodCache

----------------------------------------------------------------------------
(* The activity                                                            *)

AskActivity(a) ==
    /\ Idle(a)
    /\ GoOn(a, [NoQuestion EXCEPT !.at = "period", !.now = instant])
    /\ UNCHANGED <<linksSlot, periodCache>>

\* The period that is loaded next, and its answer, after which comes the next.
DuePeriod(a) == Len(asked[a].ends) + 1
TellPeriod(a, end) ==
    LET answer == [asked[a] EXCEPT !.at = "told", !.ends = Append(@, end)]
    IN  IF DuePeriod(a) = Len(Bucket) THEN Tell(a, answer)
        ELSE GoOn(a, [answer EXCEPT !.at = "period"])

\* An entry expires with the bucket that follows its end.
PeriodCached(p, now) == periodCache[p] # NoEnd /\ now < periodCache[p] + Bucket[p]

\* loadActivityPeriod
LookUpPeriod(a) ==
    /\ asked[a].at = "period"
    /\ IF PeriodCached(DuePeriod(a), asked[a].now) THEN TellPeriod(a, periodCache[DuePeriod(a)])
       ELSE GoOn(a, [asked[a] EXCEPT !.at = "query period"])
    /\ UNCHANGED <<linksSlot, periodCache>>

\* An error of the query is the answer to the whole request.
QueryPeriod(a) ==
    /\ asked[a].at = "query period"
    /\ \/ GoOn(a, [asked[a] EXCEPT !.at = "fill period"])
       \/ GoOn(a, NoQuestion)
    /\ UNCHANGED <<linksSlot, periodCache>>

\* Mutant: the cache is not looked at again after the query.
FillPeriodBlindly(a) ==
    /\ asked[a].at = "fill period"
    /\ LET end == Align(asked[a].now, Bucket[DuePeriod(a)])
       IN  periodCache' = [periodCache EXCEPT ![DuePeriod(a)] = end] /\ TellPeriod(a, end)
    /\ UNCHANGED linksSlot

FillPeriod(a) ==
    /\ asked[a].at = "fill period"
    /\ IF PeriodCached(DuePeriod(a), asked[a].now)
       THEN TellPeriod(a, periodCache[DuePeriod(a)]) /\ UNCHANGED periodCache
       ELSE LET end == Align(asked[a].now, Bucket[DuePeriod(a)])
            IN  periodCache' = [periodCache EXCEPT ![DuePeriod(a)] = end] /\ TellPeriod(a, end)
    /\ UNCHANGED linksSlot

----------------------------------------------------------------------------

ClockGoesOn ==
    /\ instant < LastInstant
    /\ instant' = instant + 1
    /\ told' = NoQuestion
    /\ UNCHANGED <<clockSetbacks, linksSlot, periodCache, asked>>

ClockIsSetBack ==
    /\ clockSetbacks < MaxClockSetbacks
    /\ clockSetbacks' = clockSetbacks + 1
    /\ instant' \in 0..instant - 1
    /\ told' = NoQuestion
    /\ UNCHANGED <<linksSlot, periodCache, asked>>

ResponsesInit ==
    /\ instant = 0
    /\ clockSetbacks = 0
    /\ linksSlot = [key |-> NoKey, links |-> NoKey, expiresAt |-> 0]
    /\ periodCache = [p \in Periods |-> NoEnd]
    /\ asked = [a \in Askers |-> NoQuestion]
    /\ told = NoQuestion

TopologyNext ==
    \/ \E a \in Askers : /\ \/ \E filter \in LinkFilters : AskLinks(a, filter)
                            \/ ReadClock(a) \/ LookUpLinks(a) \/ QueryLinks(a) \/ FillLinks(a)
                         /\ UNCHANGED <<instant, clockSetbacks>>
    \/ ClockGoesOn
    \/ ClockIsSetBack

ActivityNext ==
    \/ \E a \in Askers : /\ \/ AskActivity(a)
                            \/ LookUpPeriod(a) \/ QueryPeriod(a) \/ FillPeriod(a)
                         /\ UNCHANGED <<instant, clockSetbacks>>
    \/ ClockGoesOn
    \/ ClockIsSetBack

\* The caches share nothing but the clock.
ResponsesSpec == ResponsesInit /\ [][TopologyNext \/ ActivityNext]_responseVars

----------------------------------------------------------------------------
(* Properties                                                              *)

\* What a request is told fits what it asked, whichever request put it into the cache:
\* the links of its own filters, cut off where it asked, and of each period all the
\* buckets that were complete when it came, or later ones.
AnswersFit ==
    told.at = "told" =>
        /\ told.links = told.key
        /\ \A p \in DOMAIN told.ends : told.ends[p] >= Align(told.now, Bucket[p])

\* What the caches answer fits, and a period never goes back: a request that took its
\* time, or one after the clock was set back, does not put an older one in its place.
ResponsesRight ==
    /\ []AnswersFit
    /\ [][\A p \in Periods : periodCache'[p] >= periodCache[p]]_periodCache

\* "Shared TTL for the per-node topology/details cache on the frontend and for the global
\* topology snapshot cache on the backend" (README.md, web.map.topology_cache_ttl): while
\* the slot holds the links of the same query and has not expired, nobody queries them.
SlotServesItsTTL ==
    [][\A a \in Askers : asked[a].at = "look up links" /\ asked'[a].at = "query links" =>
          ~(linksSlot.key.filter = asked[a].key.filter /\ asked[a].now < linksSlot.expiresAt)]_responseVars

=============================================================================
