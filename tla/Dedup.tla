------------------------------- MODULE Dedup -------------------------------
(***************************************************************************)
(* internal/dedup: the in-memory set of packet keys the ingest service has *)
(* seen lately.  The Go store keeps a doubly linked list of entries, the   *)
(* most recently touched at the front, and a map from a key to its list    *)
(* element; both change under one mutex, so a call is one step.  Here the  *)
(* list is the sequence `order` and the map is its domain, `items`: an     *)
(* element a key of the map points to is the list entry of that key.       *)
(*                                                                         *)
(* "now" is an input of every call.  The service reads it with             *)
(* time.Now().UTC(), which drops the monotonic reading, so it may step     *)
(* back between two calls: the calls below take any instant at any time.   *)
(***************************************************************************)
EXTENDS Integers, Sequences, FiniteSets

CONSTANTS Keys,   \* the keys a caller may pass ("<node id>:<packet id>")
          Times,  \* the instants a caller may pass as now
          Size,   \* Options.Size as configured
          TTL     \* Options.TTL as configured

ASSUME DedupAssumption == /\ Times \subseteq Int
                          /\ Size \in Int
                          /\ TTL \in Int

VARIABLES order,   \* the list of entries, front first
          items,   \* the keys of the map
          verdict  \* the last call and what it returned

dedupVars == <<order, items, verdict>>

DedupEntry == [key: Keys, at: Times]

NoVerdict == [asked |-> FALSE]

Verdict == [asked: {TRUE}, key: Keys, now: Times, duplicate: BOOLEAN]

\* A size below one is raised to one.
Capacity == IF Size < 1 THEN 1 ELSE Size

----------------------------------------------------------------------------
(* The call                                                                *)

\* The list without its i-th element.
Without(s, i) == SubSeq(s, 1, i - 1) \o SubSeq(s, i + 1, Len(s))

\* The place of the list element the map holds for k.
Place(k) == CHOOSE i \in 1..Len(order) : order[i].key = k

Fresh(e, now) == TTL <= 0 \/ now - e.at <= TTL

Hit(k, now) == k \in items /\ Fresh(order[Place(k)], now)

\* What is left of the list once the expired entry of k is gone.
Unexpired(k) == IF k \in items THEN Without(order, Place(k)) ELSE order

\* The list after the loop that drops elements from the back.
Trimmed(s) == IF Len(s) > Capacity THEN SubSeq(s, 1, Capacity) ELSE s

\* The keys that loop deletes from the map.
TrimmedKeys(s) == {s[i].key : i \in Capacity + 1 .. Len(s)}

Answer(k, now, duplicate) ==
    verdict' = [asked |-> TRUE, key |-> k, now |-> now, duplicate |-> duplicate]

\* Mutant: the entry is touched in place and keeps its old position.
TouchInPlace(k, now) ==
    order' = [order EXCEPT ![Place(k)] = [key |-> k, at |-> now]]

\* A hit moves the entry to the front and renews its time.
Touch(k, now) ==
    order' = <<[key |-> k, at |-> now]>> \o Without(order, Place(k))

Seen(k, now) ==
    /\ Hit(k, now)
    /\ Touch(k, now)
    /\ UNCHANGED items
    /\ Answer(k, now, TRUE)

\* Mutant: eviction forgets to delete the key from the map.
MarkLeakingKeys(k, now) ==
    LET pushed == <<[key |-> k, at |-> now]>> \o Unexpired(k)
    IN  order' = Trimmed(pushed) /\ items' = items \cup {k}

\* A miss puts a new entry at the front and evicts from the back.
Mark(k, now) ==
    LET pushed == <<[key |-> k, at |-> now]>> \o Unexpired(k)
    IN  /\ order' = Trimmed(pushed)
        /\ items' = (items \cup {k}) \ TrimmedKeys(pushed)

New(k, now) ==
    /\ ~Hit(k, now)
    /\ Mark(k, now)
    /\ Answer(k, now, FALSE)

CheckAndMark(k, now) == Seen(k, now) \/ New(k, now)

DedupInit ==
    /\ order = <<>>
    /\ items = {}
    /\ verdict = NoVerdict

DedupNext == \E k \in Keys, now \in Times : CheckAndMark(k, now)

DedupSpec == DedupInit /\ [][DedupNext]_dedupVars

----------------------------------------------------------------------------
(* Properties                                                              *)

\* The type invariant: the list holds entries, the map holds keys.
DedupTypeOK ==
    /\ order \in Seq(DedupEntry)
    /\ items \in SUBSET Keys
    /\ verdict \in {NoVerdict} \cup Verdict

Distinct(s) == \A i, j \in 1..Len(s) : s[i].key = s[j].key => i = j

\* The map and the list never disagree: every key of the map has exactly one
\* list element and every list element is reachable from the map, after any mix
\* of hits, expiries and evictions; and the list never outgrows its capacity.
\* A key left behind in the map is a packet dropped for ever and a leak; an
\* element left behind in the list evicts live keys early.
Coherent ==
    /\ Distinct(order)
    /\ items = {order[i].key : i \in 1..Len(order)}
    /\ Len(order) <= Capacity

----------------------------------------------------------------------------
(* With a history of all keys ever asked the bounded store is shown to     *)
(* implement RecencyWindow, which never forgets: eviction from the back of *)
(* the list loses nothing the promise needs.                               *)

VARIABLE history  \* history: for every key asked so far, when last, and the keys asked since

Window == INSTANCE RecencyWindow

HInit == DedupInit /\ history = <<>>

HNext == \E k \in Keys, now \in Times : CheckAndMark(k, now) /\ Window!Remember(k, now)

HVars == <<dedupVars, history>>

HSpec == HInit /\ [][HNext]_HVars

\* The store answers "duplicate" exactly when RecencyWindow does: a first sighting
\* is never swallowed, and a repeat is let through only when it is older than the
\* TTL or Capacity other keys were asked since.
AnswersLikeWindow == Window!Spec

=============================================================================
