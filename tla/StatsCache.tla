----------------------------- MODULE StatsCache -----------------------------
(***************************************************************************)
(* internal/api/http: the cache in front of the weekly history.  Requests  *)
(* run concurrently; each asks the cache, and after a miss queries the     *)
(* store and puts the answer into the cache, three steps that nothing      *)
(* holds together.  The snapshot job inserts a week and then clears the    *)
(* cache.                                                                  *)
(*                                                                         *)
(* An answer is the set of weeks it shows.  The cache reads time.Now, whose*)
(* monotonic reading decides: an entry holds the ticks it has left.        *)
(***************************************************************************)
EXTENDS Integers, FiniteSets

CONSTANTS Requests,  \* requests that may run at the same time
          AllWeeks,  \* the weeks there may be
          TTL,       \* the ttl the handlers pass
          MaxFlight  \* bound: ticks a request lasts

VARIABLES table,     \* the weeks in the history table
          announced, \* week -> ticks since the cache was cleared for it, or Never
          cache,     \* the entry of the history, or NoEntry
          requests   \* where each request is, and its answer

cacheVars == <<announced, cache, requests>>

Never == -1

NoEntry == [weeks |-> {}, left |-> 0, overlapped |-> {}]

Announced == {w \in AllWeeks : announced[w] # Never}

----------------------------------------------------------------------------
(* ttlCache                                                                *)

Fresh(entry) == entry.left > 0

\* Mutant: the entry is used for twice its time.
SetTwice(answer, overlapped) ==
    cache' = [weeks |-> answer, left |-> TTL + TTL, overlapped |-> overlapped]

Set(answer, overlapped) == cache' = [weeks |-> answer, left |-> TTL, overlapped |-> overlapped]

\* Mutant: only an expired entry is cleared.
InvalidateExpired ==
    /\ cache' = IF Fresh(cache) THEN cache ELSE NoEntry
    /\ announced' = [w \in AllWeeks |-> IF w \in table /\ announced[w] = Never THEN 0 ELSE announced[w]]
    /\ requests' = [r \in Requests |->
                       IF requests[r].at = "idle" THEN requests[r]
                       ELSE [requests[r] EXCEPT !.overlapped = @ \cup (table \ Announced)]]

\* The entries go; requests on their way do not notice.
Invalidate ==
    /\ cache' = NoEntry
    /\ announced' = [w \in AllWeeks |-> IF w \in table /\ announced[w] = Never THEN 0 ELSE announced[w]]
    /\ requests' = [r \in Requests |->
                       IF requests[r].at = "idle" THEN requests[r]
                       ELSE [requests[r] EXCEPT !.overlapped = @ \cup (table \ Announced)]]

----------------------------------------------------------------------------
(* firmwareHistory, hardwareHistory                                        *)

Idle(answer) == [at |-> "idle", weeks |-> answer, overlapped |-> {}, ticks |-> 0]

Hit(r) ==
    /\ requests[r].at = "idle"
    /\ Fresh(cache)
    /\ requests' = [requests EXCEPT ![r] = Idle(cache.weeks)]
    /\ UNCHANGED <<announced, cache>>

\* Get drops an entry that has expired.
Miss(r) ==
    /\ requests[r].at = "idle"
    /\ ~Fresh(cache)
    /\ cache' = NoEntry
    /\ requests' = [requests EXCEPT ![r] = [Idle({}) EXCEPT !.at = "query"]]
    /\ UNCHANGED announced

Query(r) ==
    /\ requests[r].at = "query"
    /\ requests' = [requests EXCEPT ![r].at = "store", ![r].weeks = table]
    /\ UNCHANGED <<announced, cache>>

\* A failed query answers 500 and leaves the cache alone.
QueryFails(r) ==
    /\ requests[r].at = "query"
    /\ requests' = [requests EXCEPT ![r] = Idle({})]
    /\ UNCHANGED <<announced, cache>>

Store(r) ==
    /\ requests[r].at = "store"
    /\ Set(requests[r].weeks, requests[r].overlapped)
    /\ requests' = [requests EXCEPT ![r] = Idle(requests[r].weeks)]
    /\ UNCHANGED announced

Serve(r) == Hit(r) \/ Miss(r) \/ Query(r) \/ QueryFails(r) \/ Store(r)

----------------------------------------------------------------------------

\* A request lasts no more than MaxFlight ticks.
Age ==
    /\ \A r \in Requests : requests[r].at # "idle" => requests[r].ticks < MaxFlight
    /\ cache' = [cache EXCEPT !.left = IF @ > 0 THEN @ - 1 ELSE 0]
    /\ announced' = [w \in AllWeeks |-> IF announced[w] \in 0..TTL + MaxFlight - 1
                                        THEN announced[w] + 1 ELSE announced[w]]
    /\ requests' = [r \in Requests |-> IF requests[r].at = "idle" THEN requests[r]
                                       ELSE [requests[r] EXCEPT !.ticks = @ + 1]]

\* The process stops: its memory and its requests are gone.
Drop ==
    /\ cache' = NoEntry
    /\ requests' = [r \in Requests |-> Idle({})]
    /\ UNCHANGED announced

CacheInit ==
    /\ announced = [w \in AllWeeks |-> Never]
    /\ cache = NoEntry
    /\ requests = [r \in Requests |-> Idle({})]

----------------------------------------------------------------------------
(* Properties                                                              *)

CacheTypeOK ==
    /\ announced \in [AllWeeks -> Never..TTL + MaxFlight]
    /\ cache \in [weeks: SUBSET AllWeeks, left: 0..TTL, overlapped: SUBSET AllWeeks]
    /\ requests \in [Requests -> [at: {"idle", "query", "store"}, weeks: SUBSET AllWeeks,
                                  overlapped: SUBSET AllWeeks, ticks: 0..MaxFlight]]

\* The cache lacks a week the job has announced only if the request that filled it was
\* on its way while the job announced it.
StaleOnlyByOverlap ==
    Fresh(cache) => Announced \ cache.weeks \subseteq cache.overlapped

\* A week is in every answer served from the cache no later than the time to live of an
\* entry and the duration of a request after it was announced, however requests, inserts
\* and invalidations interleave.
StaleAtMostTTL ==
    Fresh(cache) => \A w \in Announced : announced[w] >= TTL + MaxFlight => w \in cache.weeks

\* "so the freshly-written week is visible on the next request without waiting for the
\* TTL" (internal/api/http/server.go, InvalidateFirmwareCaches).
VisibleOnNextRequest == Fresh(cache) => Announced \subseteq cache.weeks

=============================================================================
