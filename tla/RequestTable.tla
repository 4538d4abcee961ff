---------------------------- MODULE RequestTable ----------------------------
(***************************************************************************)
(* What the traceroute tracker promises the ingest pipeline, with no ages, *)
(* statuses or counts: a table of requests that are open or final, by the  *)
(* id they are found under.  An operation makes an outcome of a table: the *)
(* table it leaves, whether the packet is kept out of the log, and the     *)
(* requests to report.  TracerouteTracker implements the steps below, and  *)
(* Ingest is built on the same operations.                                 *)
(***************************************************************************)
EXTENDS Naturals, FiniteSets

NoEntry == [key |-> <<>>, final |-> FALSE]

Held(t)   == {i \in DOMAIN t : t[i] # NoEntry}
Finals(t) == {i \in DOMAIN t : t[i].final}
Opens(t)  == Held(t) \ Finals(t)

Same(t, suppress) == [table |-> t, suppress |-> suppress, reports |-> {}]

\* A request takes its id, whatever had it.
Noted(t, i, key) ==
    [table |-> [t EXCEPT ![i] = [key |-> key, final |-> FALSE]], suppress |-> TRUE, reports |-> {}]

\* A reply to a request that is not open is kept out of the log when it has ended.
Silenced(t, i) == i \in Finals(t)

\* A reply or a routing error.
Answered(t, i) ==
    IF i \in Opens(t)
    THEN [table |-> [t EXCEPT ![i].final = TRUE], suppress |-> TRUE, reports |-> {t[i].key}]
    ELSE Same(t, Silenced(t, i))

\* A routing packet without an error.
Touched(t, i) == Same(t, i \in Held(t))

\* Requests that took too long are reported, and final ones kept long enough go.
Swept(t, overdue, spent) ==
    [table |-> [i \in DOMAIN t |-> IF i \in spent THEN NoEntry
                                   ELSE [t[i] EXCEPT !.final = @ \/ i \in overdue]],
     suppress |-> FALSE, reports |-> {t[i].key : i \in overdue}]

Emptied(t, ids) == [i \in DOMAIN t |-> IF i \in ids THEN NoEntry ELSE t[i]]

----------------------------------------------------------------------------
(* The steps of a table that has room for so many requests                 *)

\* A request that was not there yet is noted.  Final ones may go; any may, without a
\* report, when the table is full still.  It is never over-full.
Notes(capacity, t, o) ==
    \E spent \in SUBSET Finals(t), evicted \in SUBSET Held(t), i \in DOMAIN t :
       /\ evicted # {} => Cardinality(Held(t) \ spent) >= capacity
       /\ o = Noted(Emptied(t, spent \cup evicted), i, o.table[i].key)
       /\ o.table[i].key \notin {t[j].key : j \in DOMAIN t}
       /\ Cardinality(Held(o.table)) <= capacity

TableStep(capacity, t, o) ==
    \/ o = Same(t, FALSE)
    \/ \E i \in DOMAIN t : o = Answered(t, i) \/ o = Touched(t, i)
    \/ \E overdue \in SUBSET Opens(t), spent \in SUBSET Finals(t) : o = Swept(t, overdue, spent)
    \/ Notes(capacity, t, o)

=============================================================================
