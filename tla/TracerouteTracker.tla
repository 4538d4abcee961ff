------------------------- MODULE TracerouteTracker -------------------------
(***************************************************************************)
(* internal/ingest/traceroute_tracker.go: the bounded table that joins a   *)
(* traceroute request with its reply, its routing error or its timeout and *)
(* turns them into one "lifecycle" log event.  A request packet, and later *)
(* packets that belong to it, are kept out of the log; the lifecycle event *)
(* is what the log shows instead.                                          *)
(*                                                                         *)
(* The table is keyed by the request id alone (the packet id of the        *)
(* request, 0 when the packet has none), so two nodes may share a key.     *)
(* Every operation runs under the tracker's mutex and is one step.  The    *)
(* merged paths, the signal figures and the hop fields of an entry are     *)
(* left out: they are payload of the lifecycle event.                      *)
(*                                                                         *)
(* The code stores instants and reads only their distance to now, so an    *)
(* entry holds its two ages instead: how long ago it was started and last  *)
(* updated.  An age stops growing at MaxAge, from where no set-back of the *)
(* clock can bring it below Timeout or Retain again.                       *)
(***************************************************************************)
EXTENDS RequestTable, Integers, FiniteSets, Sequences, Functions

CONSTANTS Ids,         \* request ids; 0 is the id of a packet that carries none
          MaxEntries,  \* tracerouteTracker.max
          Timeout,     \* tracerouteTracker.timeout
          Retain,      \* tracerouteTracker.retain
          MaxRequests, \* bound: requests observed in a run
          MaxSetbacks  \* bound: how often the wall clock is set back

ASSUME TrackerAssumption == /\ Ids \subseteq Nat
                            /\ MaxEntries \in Nat \ {0}
                            /\ Timeout \in Nat \ {0}
                            /\ Retain \in Nat \ {0}
                            /\ MaxRequests \in Nat
                            /\ MaxSetbacks \in Nat

VARIABLES entries,   \* the table: request id -> entry
          setbacks,  \* how often it was set back
          emissions, \* history: emissions[r] lifecycle events were returned for the r-th request
          result     \* what the last operation returned

vars == <<entries, setbacks, emissions, result>>

FinalStatuses == {"completed", "partial", "failed", "timed_out"}

Statuses == {"requested"} \cup FinalStatuses

MaxAge == (IF Timeout > Retain THEN Timeout ELSE Retain) + MaxSetbacks

Ages == -MaxSetbacks .. MaxAge

Entry == [req: Nat, sinceStart: Ages, sinceUpdate: Ages, status: Statuses, final: BOOLEAN]

Lifecycle == [req: Nat, status: Statuses]

\* tracerouteTrackerResult, and the list Sweep returns.
Result == [suppress: BOOLEAN, lifecycles: SUBSET Lifecycle]

Nothing  == [suppress |-> FALSE, lifecycles |-> {}]
Suppress == [suppress |-> TRUE, lifecycles |-> {}]

----------------------------------------------------------------------------
(* Expiry and eviction                                                     *)

Spent(e)   == e.final /\ e.sinceUpdate >= Retain
Overdue(e) == ~e.final /\ e.sinceStart >= Timeout

Dropping(es, S) == Restrict(es, DOMAIN es \ S)

Room(es) == Cardinality(DOMAIN es) < MaxEntries

Live(es) == {k \in DOMAIN es : ~es[k].final}

\* Mutant: the victim is any entry, finished or not.
AnyVictim(es) == DOMAIN es

\* The oldest live entries or, when none is live, the finished ones touched longest
\* ago.  The code iterates a Go map: among equals any one may be picked.
Victims(es) ==
    IF Live(es) # {}
    THEN {k \in Live(es) : \A j \in Live(es) : es[k].sinceStart >= es[j].sinceStart}
    ELSE {k \in DOMAIN es : \A j \in DOMAIN es : es[k].sinceUpdate >= es[j].sinceUpdate}

\* Mutant: when nothing has expired the table is left full.
EvictExpired(es) ==
    {Dropping(es, {k \in DOMAIN es : Spent(es[k]) \/ Overdue(es[k])})}

\* The tables evictForInsert may leave: spent entries go first; if the table is still
\* full, overdue ones go without a lifecycle event; if it is still full, one victim goes.
EvictForInsert(es) ==
    LET kept  == Dropping(es, {k \in DOMAIN es : Spent(es[k])})
        fresh == Dropping(kept, {k \in DOMAIN kept : Overdue(kept[k])})
    IN  IF Room(kept) THEN {kept}
        ELSE IF Room(fresh) THEN {fresh}
        ELSE {Dropping(fresh, {v}) : v \in Victims(fresh)}

Put(es, k, e) == [j \in DOMAIN es \cup {k} |-> IF j = k THEN e ELSE es[j]]

----------------------------------------------------------------------------
(* The operations                                                          *)

\* A request opens a new entry under its id, over whatever was there.
OnRequest(k) ==
    LET e == [req |-> Len(emissions) + 1, sinceStart |-> 0, sinceUpdate |-> 0,
              status |-> "requested", final |-> FALSE]
    IN  /\ \E es \in EvictForInsert(entries) : entries' = Put(es, k, e)
        /\ emissions' = Append(emissions, 0)
        /\ result' = Suppress
        /\ UNCHANGED setbacks

Ended(e, status) == [e EXCEPT !.status = status, !.sinceUpdate = 0, !.final = TRUE]

\* The entry of k becomes final with the given status and is returned.
Finish(k, status) ==
    /\ entries' = [entries EXCEPT ![k] = Ended(@, status)]
    /\ emissions' = [emissions EXCEPT ![entries[k].req] = @ + 1]
    /\ result' = [suppress |-> TRUE,
                  lifecycles |-> {[req |-> entries[k].req, status |-> status]}]

Ignore(outcome) ==
    /\ UNCHANGED <<entries, emissions>>
    /\ result' = outcome

\* Mutant: the check of finalEmitted is missing.
OnReplyAgain(k, reply, status) ==
    /\ IF k \in DOMAIN entries THEN Finish(k, status)
       ELSE IF reply > 0 /\ reply \in DOMAIN entries THEN Finish(reply, status)
       ELSE Ignore(Nothing)
    /\ UNCHANGED setbacks

\* A reply is looked up by its request id, then by its reply id.
OnReply(k, reply, status) ==
    LET key == IF k \notin DOMAIN entries /\ reply > 0 THEN reply ELSE k
    IN  /\ CASE key \notin DOMAIN entries -> Ignore(Nothing)
             [] key \in DOMAIN entries /\ entries[key].final -> Ignore(Suppress)
             [] OTHER -> Finish(key, status)
        /\ UNCHANGED setbacks

\* A routing packet without an error only renews the entry; one with an error ends it.
OnRouting(k, failed) ==
    /\ CASE k = 0 \/ k \notin DOMAIN entries -> Ignore(Nothing)
         [] k # 0 /\ k \in DOMAIN entries /\ entries[k].final -> Ignore(Suppress)
         [] OTHER -> IF failed THEN Finish(k, "failed")
                     ELSE /\ entries' = [entries EXCEPT ![k].sinceUpdate = 0]
                          /\ UNCHANGED emissions
                          /\ result' = Suppress
    /\ UNCHANGED setbacks

TimedOut(e) == Ended(e, "timed_out")

\* Mutant: finished entries are never released.
SweepKeeping ==
    LET overdue == {k \in DOMAIN entries : Overdue(entries[k])}
    IN  /\ entries' = [k \in DOMAIN entries |->
                          IF k \in overdue THEN TimedOut(entries[k]) ELSE entries[k]]
        /\ emissions' = [r \in DOMAIN emissions |->
               emissions[r] + Cardinality({k \in overdue : entries[k].req = r})]
        /\ result' = [suppress |-> FALSE,
                      lifecycles |-> {[req |-> entries[k].req, status |-> "timed_out"] : k \in overdue}]
        /\ UNCHANGED setbacks

\* Overdue entries become timed out and are returned; spent ones are deleted.
Sweep ==
    LET overdue == {k \in DOMAIN entries : Overdue(entries[k])}
        kept    == {k \in DOMAIN entries : ~Spent(entries[k])}
    IN  /\ entries' = [k \in kept |-> IF k \in overdue THEN TimedOut(entries[k]) ELSE entries[k]]
        /\ emissions' = [r \in DOMAIN emissions |->
               emissions[r] + Cardinality({k \in overdue : entries[k].req = r})]
        /\ result' = [suppress |-> FALSE,
                      lifecycles |-> {[req |-> entries[k].req, status |-> "timed_out"] : k \in overdue}]
        /\ UNCHANGED setbacks

----------------------------------------------------------------------------
(* The environment and the specification                                   *)

Grown(age) == IF age < MaxAge THEN age + 1 ELSE age

Tick ==
    /\ entries' = [k \in DOMAIN entries |->
                      [entries[k] EXCEPT !.sinceStart = Grown(@), !.sinceUpdate = Grown(@)]]
    /\ result' = Nothing
    /\ UNCHANGED <<setbacks, emissions>>

\* time.Now().UTC() has no monotonic reading: an adjusted wall clock goes back.
SetBack ==
    /\ setbacks < MaxSetbacks
    /\ setbacks' = setbacks + 1
    /\ entries' = [k \in DOMAIN entries |->
                      [entries[k] EXCEPT !.sinceStart = @ - 1, !.sinceUpdate = @ - 1]]
    /\ result' = Nothing
    /\ UNCHANGED emissions

Init ==
    /\ entries = <<>>
    /\ setbacks = 0
    /\ emissions = <<>>
    /\ result = Nothing

Request(k) == Len(emissions) < MaxRequests /\ OnRequest(k)

\* The decoder puts the reply id in the place of an absent request id.
Reply(k, reply, status) == (k = 0 => reply = 0) /\ OnReply(k, reply, status)

Next ==
    \/ \E k \in Ids : Request(k)
    \/ \E k, reply \in Ids, status \in {"completed", "partial"} : Reply(k, reply, status)
    \/ \E k \in Ids, failed \in BOOLEAN : OnRouting(k, failed)
    \/ Sweep
    \/ Tick
    \/ SetBack

Spec == Init /\ [][Next]_vars

\* Sweep runs at the start of every HandleMessage: it recurs as long as the broker
\* keeps delivering messages of any kind.
FairSpec == Spec /\ WF_vars(Tick) /\ WF_vars(Sweep)

----------------------------------------------------------------------------
(* Properties                                                              *)

TypeOK ==
    /\ DOMAIN entries \subseteq Ids
    /\ entries \in [DOMAIN entries -> Entry]
    /\ setbacks \in 0..MaxSetbacks
    /\ emissions \in Seq(Nat)
    /\ result \in Result

\* The table never outgrows ingest.traceroute.max_entries, although an insert evicts
\* at most one entry once nothing has expired.
Bounded == Cardinality(DOMAIN entries) <= MaxEntries

\* An entry belongs to one request, and its request was reported exactly when the
\* entry is final: reply, routing error and timeout may race for the same request in
\* any order, its packet may be evicted and its id reused, and still at most one
\* lifecycle event is ever returned for it.
OneLifecycleEach ==
    /\ \A r \in DOMAIN emissions : emissions[r] <= 1
    /\ \A k \in DOMAIN entries :
          /\ entries[k].req \in DOMAIN emissions
          /\ emissions[entries[k].req] = IF entries[k].final THEN 1 ELSE 0
          /\ entries[k].final <=> entries[k].status \in FinalStatuses
    /\ \A j, k \in DOMAIN entries : entries[j].req = entries[k].req => j = k

TrackedBy(es, r) == \E k \in DOMAIN es : es[k].req = r

\* The entry of k is replaced by a request of the same id.
Overwritten(k) == k \in DOMAIN entries' /\ entries'[k].req = Len(emissions')

\* What may take an entry out of the table or replace it, for a request that is waiting:
\* a request with the same id takes its key, or the table is full and it was overdue
\* already or one of the oldest still waiting.
WaitingEntryLeaves(k) ==
    \/ Overwritten(k)
    \/ /\ ~Room(entries)
       /\ \/ Overdue(entries[k])
          \/ \A j \in Live(entries) : entries[k].sinceStart >= entries[j].sinceStart

\* And for one that is finished: its retention is over, its id is requested again, or the
\* table is full and no request that could still be answered is left in it.
FinishedEntryLeaves(k) ==
    \/ Spent(entries[k])
    \/ Overwritten(k)
    \/ ~Room(entries) /\ \A j \in Live(entries) : Overdue(entries[j])

\* The outcome of k stays as it is, no more than an adjusted clock younger.
OutcomeKept(k) ==
    /\ k \in DOMAIN entries'
    /\ entries'[k].req = entries[k].req
    /\ entries'[k].status = entries[k].status
    /\ entries'[k].sinceUpdate >= entries[k].sinceUpdate - (setbacks' - setbacks)

\* A suppressed request is lost without a report under pressure only, and a finished one
\* keeps its outcome as long as it must: "How long final traceroute tracker entries stay in
\* memory for duplicate suppression" (README, ingest.traceroute.final_retention).
LeavesForReason ==
    [][\A k \in DOMAIN entries :
          IF entries[k].final THEN OutcomeKept(k) \/ FinishedEntryLeaves(k)
          ELSE TrackedBy(entries', entries[k].req) \/ WaitingEntryLeaves(k)]_vars

\* A table as the ingest pipeline knows it, and what the last operation made and told of it.
Requests(es) == [i \in Ids |-> IF i \in DOMAIN es
                               THEN [key |-> <<es[i].req>>, final |-> es[i].final]
                               ELSE NoEntry]

Outcome == [table |-> Requests(entries), suppress |-> result.suppress,
            reports |-> {<<l.req>> : l \in result.lifecycles}]

\* The tracker implements the table that Ingest is built on: whatever the ages, an operation
\* ends, renews, reports and suppresses as RequestTable says, a request goes unreported only
\* for another one in a full table, and the table never outgrows
\* ingest.traceroute.max_entries.
ImplementsTable ==
    /\ Held(Outcome.table) = {}
    /\ [][TableStep(MaxEntries, Outcome.table, Outcome')]_Outcome

\* Nothing stays in the table for ever: as long as messages keep arriving every
\* request is answered, times out or is evicted, and its entry is released.
EverythingReleased == \A r \in 1..MaxRequests : TrackedBy(entries, r) ~> ~TrackedBy(entries, r)

=============================================================================
