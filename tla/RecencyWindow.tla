--------------------------- MODULE RecencyWindow ---------------------------
(***************************************************************************)
(* What the duplicate filter of the ingest pipeline promises, with no      *)
(* bookkeeping: it remembers every key it was ever asked about, when that  *)
(* was last and which keys were asked since, and answers "duplicate"       *)
(* exactly for a key since which fewer than Capacity others were asked and *)
(* which was last asked no more than TTL ago (a TTL of zero or less never  *)
(* expires).                                                               *)
(***************************************************************************)
EXTENDS Integers, FiniteSets

CONSTANTS Keys,      \* the keys a caller may ask about
          Times,     \* the instants a caller may pass as "now"
          Capacity,  \* how many keys count as recent
          TTL        \* how long a key stays a duplicate

VARIABLES history,   \* for every key asked so far: when last, and the keys asked since
          verdict    \* the last question and its answer

vars == <<history, verdict>>

NoVerdict == [asked |-> FALSE]

Verdict == [asked: {TRUE}, key: Keys, now: Times, duplicate: BOOLEAN]

Duplicate(k, now) ==
    /\ k \in DOMAIN history
    /\ Cardinality(history[k].since) < Capacity
    /\ TTL <= 0 \/ now - history[k].at <= TTL

\* The question itself: k is the last one asked, and every other key has k after it.
Remember(k, now) ==
    history' = [j \in DOMAIN history \cup {k} |->
                 IF j = k THEN [at |-> now, since |-> {}]
                          ELSE [at |-> history[j].at, since |-> history[j].since \cup {k}]]

Ask(k, now) ==
    /\ verdict' = [asked |-> TRUE, key |-> k, now |-> now, duplicate |-> Duplicate(k, now)]
    /\ Remember(k, now)

Init == history = <<>> /\ verdict = NoVerdict

Next == \E k \in Keys, now \in Times : Ask(k, now)

Spec == Init /\ [][Next]_vars

=============================================================================
