---------------------------- MODULE TableProofs ----------------------------
(***************************************************************************)
(* Proofs about the two tables that the ingest pipeline keeps in memory.   *)
(*                                                                         *)
(* The duplicate filter, for every set of keys, every size, every TTL and  *)
(* every sequence of instants: its invariants, and that it implements      *)
(* RecencyWindow.  DedupTypeOK /\ Coherent is inductive: that the map's    *)
(* keys are exactly the list's is what makes the lookup of a key's element *)
(* well defined.  The refinement needs Ranked besides: the place of an     *)
(* entry counts the keys asked since, so what falls off the back has had   *)
(* Capacity others after it.                                               *)
(*                                                                         *)
(* The traceroute tracker, for every table size, timeout and retention:    *)
(* the table stays within its bound, and no request is ever reported       *)
(* twice.                                                                  *)
(***************************************************************************)
EXTENDS Dedup, TracerouteTracker, SequenceTheorems, FiniteSetTheorems, FunctionTheorems,
        TLAPS

----------------------------------------------------------------------------
(* The duplicate filter                                                    *)

KeysOf(s) == {s[i].key : i \in 1..Len(s)}

\* Taking one element out of a list leaves the others in their order.
LEMMA WithoutPlaces ==
    ASSUME NEW s \in Seq(DedupEntry), NEW p \in 1..Len(s)
    PROVE  /\ Without(s, p) \in Seq(DedupEntry)
           /\ Len(Without(s, p)) = Len(s) - 1
           /\ \A i \in 1..Len(s) - 1 : Without(s, p)[i] = IF i < p THEN s[i] ELSE s[i + 1]
<1> DEFINE w == Without(s, p)
           a == SubSeq(s, 1, p - 1)
           b == SubSeq(s, p + 1, Len(s))
           n == Len(s)
<1>1. n \in Nat /\ p \in Int
  BY LenProperties
<1>2. /\ a \in Seq(DedupEntry)
      /\ Len(a) = p - 1
      /\ \A i \in 1..p - 1 : a[i] = s[i]
  BY <1>1, ElementOfSeq
<1>3. /\ b \in Seq(DedupEntry)
      /\ Len(b) = n - p
      /\ \A i \in 1..n - p : b[i] = s[p + i]
  BY <1>1, ElementOfSeq
<1> HIDE DEF a, b
<1>4. w = a \o b
  BY DEF Without, a, b
<1> HIDE DEF w
<1>5. /\ w \in Seq(DedupEntry)
      /\ Len(w) = n - 1
  <2>1. a \o b \in Seq(DedupEntry) /\ Len(a \o b) = Len(a) + Len(b)
    BY <1>2, <1>3, ConcatProperties
  <2>2. Len(a) + Len(b) = n - 1
    BY <1>1, <1>2, <1>3
  <2> QED
    BY <1>4, <2>1, <2>2
<1>6. ASSUME NEW i \in 1..n - 1
      PROVE  w[i] = IF i < p THEN s[i] ELSE s[i + 1]
  <2>1. w[i] = IF i <= p - 1 THEN a[i] ELSE b[i - (p - 1)]
    BY <1>4, <1>1, <1>2, <1>3, ConcatProperties
  <2>2. CASE i < p
    BY <2>1, <2>2, <1>1, <1>2
  <2>3. CASE i >= p
    <3>1. i - (p - 1) \in 1..n - p /\ p + (i - (p - 1)) = i + 1
      BY <2>3, <1>1
    <3> QED
      BY <2>1, <2>3, <3>1, <1>1, <1>3
  <2> QED
    BY <2>2, <2>3, <1>1
<1> QED
  BY <1>5, <1>6 DEF w

\* Taking one element out of a list with distinct keys leaves a list with
\* distinct keys that has lost exactly that element's key.
LEMMA WithoutProperties ==
    ASSUME NEW s \in Seq(DedupEntry), Distinct(s), NEW p \in 1..Len(s)
    PROVE  /\ Without(s, p) \in Seq(DedupEntry)
           /\ Len(Without(s, p)) = Len(s) - 1
           /\ Distinct(Without(s, p))
           /\ KeysOf(Without(s, p)) = KeysOf(s) \ {s[p].key}
<1> DEFINE w == Without(s, p)
           n == Len(s)
<1>1. /\ n \in Nat
      /\ p \in Int
      /\ \A i \in 1..n : s[i] \in DedupEntry
  BY LenProperties, ElementOfSeq
<1>4. /\ w \in Seq(DedupEntry)
      /\ Len(w) = n - 1
      /\ \A i \in 1..n - 1 : w[i] = IF i < p THEN s[i] ELSE s[i + 1]
  BY WithoutPlaces
<1> HIDE DEF w
<1>5. Distinct(w)
  BY <1>1, <1>4 DEF Distinct
<1>6. KeysOf(w) \subseteq KeysOf(s) \ {s[p].key}
  BY <1>1, <1>4 DEF Distinct, KeysOf
<1>7. KeysOf(s) \ {s[p].key} \subseteq KeysOf(w)
  <2> SUFFICES ASSUME NEW i \in 1..n, i # p
               PROVE  \E j \in 1..n - 1 : s[i].key = w[j].key
    BY SMTT(30), <1>4 DEF KeysOf
  <2>1. CASE i < p
    BY <2>1, <1>1, <1>4
  <2>2. CASE i > p
    <3>1. i - 1 \in 1..n - 1 /\ w[i - 1] = s[i]
      BY <2>2, <1>1, <1>4
    <3> QED
      BY <3>1
  <2> QED
    BY <2>1, <2>2, <1>1
<1> QED
  BY <1>4, <1>5, <1>6, <1>7 DEF w

\* Pushing an entry to the front moves every other one place back.
LEMMA PushPlaces ==
    ASSUME NEW s \in Seq(DedupEntry), NEW e \in DedupEntry
    PROVE  /\ <<e>> \o s \in Seq(DedupEntry)
           /\ Len(<<e>> \o s) = Len(s) + 1
           /\ \A i \in 1..Len(s) + 1 : (<<e>> \o s)[i] = IF i = 1 THEN e ELSE s[i - 1]
<1>1. Len(s) \in Nat /\ <<e>> \in Seq(DedupEntry) /\ Len(<<e>>) = 1 /\ <<e>>[1] = e
  BY LenProperties
<1>2. /\ <<e>> \o s \in Seq(DedupEntry)
      /\ Len(<<e>> \o s) = 1 + Len(s)
      /\ \A i \in 1..1 + Len(s) : (<<e>> \o s)[i] = IF i <= 1 THEN <<e>>[i] ELSE s[i - 1]
  BY <1>1, ConcatProperties
<1> QED
  BY <1>1, <1>2

\* Pushing a key that is not in the list to its front keeps the keys distinct.
LEMMA PushProperties ==
    ASSUME NEW s \in Seq(DedupEntry), Distinct(s), NEW e \in DedupEntry, e.key \notin KeysOf(s)
    PROVE  /\ <<e>> \o s \in Seq(DedupEntry)
           /\ Len(<<e>> \o s) = Len(s) + 1
           /\ Distinct(<<e>> \o s)
           /\ KeysOf(<<e>> \o s) = KeysOf(s) \cup {e.key}
<1> DEFINE t == <<e>> \o s
           n == Len(s)
<1>1. n \in Nat /\ \A i \in 1..n : s[i] \in DedupEntry
  BY LenProperties, ElementOfSeq
<1>2. /\ t \in Seq(DedupEntry)
      /\ Len(t) = n + 1
      /\ \A i \in 1..n + 1 : t[i] = IF i = 1 THEN e ELSE s[i - 1]
  BY PushPlaces
<1> HIDE DEF t
<1>3. Distinct(t)
  <2> SUFFICES ASSUME NEW i \in 1..n + 1, NEW j \in 1..n + 1, t[i].key = t[j].key
               PROVE  i = j
    BY <1>2 DEF Distinct
  <2>1. \A m \in 1..n : s[m].key # e.key
    BY DEF KeysOf
  <2>2. \A m \in 1..n + 1 : m # 1 => m - 1 \in 1..n /\ t[m] = s[m - 1]
    BY <1>1, <1>2
  <2>3. t[1] = e
    BY <1>1, <1>2
  <2>4. CASE i = 1 \/ j = 1
    BY <2>1, <2>2, <2>3, <2>4
  <2>5. CASE i # 1 /\ j # 1
    <3> DEFINE x == i - 1
               y == j - 1
    <3>1. x \in 1..n /\ y \in 1..n /\ t[i] = s[x] /\ t[j] = s[y]
      BY <2>2, <2>5
    <3> HIDE DEF x, y
    <3>2. x = y
      BY <3>1 DEF Distinct
    <3>3. i - 1 = j - 1
      BY <3>2 DEF x, y
    <3> QED
      BY <3>3, <1>1
  <2> QED
    BY <2>4, <2>5
<1>4. KeysOf(t) \subseteq KeysOf(s) \cup {e.key}
  BY SMTT(30), <1>1, <1>2 DEF KeysOf
<1>5. KeysOf(s) \cup {e.key} \subseteq KeysOf(t)
  <2>1. e.key \in KeysOf(t)
    BY <1>1, <1>2 DEF KeysOf
  <2>2. ASSUME NEW i \in 1..n
        PROVE  s[i].key \in KeysOf(t)
    <3>1. i + 1 \in 1..n + 1 /\ t[i + 1] = s[i]
      BY <1>1, <1>2
    <3> QED
      BY <3>1, <1>2 DEF KeysOf
  <2> QED
    BY <2>1, <2>2 DEF KeysOf
<1> QED
  BY <1>2, <1>3, <1>4, <1>5 DEF t

\* Dropping elements from the back bounds the length, keeps the keys distinct and
\* loses exactly the keys the loop deletes from the map.
LEMMA TrimProperties ==
    ASSUME NEW s \in Seq(DedupEntry), Distinct(s)
    PROVE  /\ Trimmed(s) \in Seq(DedupEntry)
           /\ Len(Trimmed(s)) <= Capacity
           /\ Len(Trimmed(s)) <= Len(s)
           /\ \A i \in 1..Len(Trimmed(s)) : Trimmed(s)[i] = s[i]
           /\ Distinct(Trimmed(s))
           /\ KeysOf(Trimmed(s)) = KeysOf(s) \ TrimmedKeys(s)
<1> DEFINE n == Len(s)
<1>1. /\ n \in Nat
      /\ \A i \in 1..n : s[i] \in DedupEntry
      /\ Capacity \in Nat
      /\ Capacity >= 1
  BY LenProperties, ElementOfSeq, DedupAssumption DEF Capacity
<1>2. CASE n <= Capacity
  <2>1. Trimmed(s) = s /\ TrimmedKeys(s) = {}
    BY <1>1, <1>2 DEF Trimmed, TrimmedKeys
  <2> QED
    BY <2>1, <1>2
<1>3. CASE n > Capacity
  <2> DEFINE t == SubSeq(s, 1, Capacity)
  <2>1. Trimmed(s) = t
    BY <1>3, <1>1 DEF Trimmed
  <2>2. /\ t \in Seq(DedupEntry)
        /\ Len(t) = Capacity
        /\ \A i \in 1..Capacity : t[i] = s[i]
    BY <1>1, <1>3
  <2> HIDE DEF t
  <2>3. Distinct(t)
    BY <1>1, <1>3, <2>2 DEF Distinct
  <2>4. Len(t) <= Len(s) /\ \A i \in 1..Len(t) : t[i] = s[i]
    BY <2>2, <1>1, <1>3
  <2>5. KeysOf(t) = KeysOf(s) \ TrimmedKeys(s)
    BY <1>1, <1>3, <2>2 DEF Distinct, KeysOf, TrimmedKeys
  <2> QED
    BY <2>1, <2>2, <2>3, <2>4, <2>5, <1>1
<1> QED
  BY <1>1, <1>2, <1>3

IInv == DedupTypeOK /\ Coherent

\* Under the invariant the element the map holds for a key is its entry in the list.
LEMMA PlaceProperties ==
    ASSUME IInv, NEW k \in items
    PROVE  Place(k) \in 1..Len(order) /\ order[Place(k)].key = k
BY DEF IInv, Coherent, Place

\* With the element of k gone, k can be pushed to the front.
LEMMA UnexpiredProperties ==
    ASSUME IInv, NEW k \in Keys
    PROVE  /\ Unexpired(k) \in Seq(DedupEntry)
           /\ Distinct(Unexpired(k))
           /\ KeysOf(Unexpired(k)) = items \ {k}
<1>1. CASE k \in items
  <2> DEFINE p == Place(k)
  <2>1. p \in 1..Len(order) /\ order[p].key = k
    BY <1>1, PlaceProperties
  <2>2. Unexpired(k) = Without(order, p)
    BY <1>1 DEF Unexpired
  <2>3. order \in Seq(DedupEntry) /\ Distinct(order) /\ KeysOf(order) = items
    BY DEF IInv, DedupTypeOK, Coherent, KeysOf
  <2> HIDE DEF p
  <2> QED
    BY <2>1, <2>2, <2>3, WithoutProperties
<1>2. CASE k \notin items
  BY <1>2 DEF IInv, DedupTypeOK, Coherent, Unexpired, KeysOf
<1> QED
  BY <1>1, <1>2

LEMMA SeenKeepsInvariant ==
    ASSUME IInv, NEW k \in Keys, NEW now \in Times, Seen(k, now)
    PROVE  IInv'
<1> DEFINE e == [key |-> k, at |-> now]
           s == Without(order, Place(k))
<1>1. k \in items /\ e \in DedupEntry /\ e.key = k
  BY DEF Seen, Hit, DedupEntry
<1>2. Place(k) \in 1..Len(order) /\ order[Place(k)].key = k
  BY <1>1, PlaceProperties
<1>3. /\ s \in Seq(DedupEntry)
      /\ Distinct(s)
      /\ KeysOf(s) = items \ {k}
      /\ Len(s) = Len(order) - 1
  BY <1>2, WithoutProperties DEF IInv, DedupTypeOK, Coherent, KeysOf
<1>4. order' = <<e>> \o s /\ items' = items
  BY DEF Seen, Touch
<1> HIDE DEF e, s
<1>5. /\ order' \in Seq(DedupEntry)
      /\ Len(order') = Len(order)
      /\ Distinct(order')
      /\ KeysOf(order') = items
  <2>1. /\ <<e>> \o s \in Seq(DedupEntry)
        /\ Len(<<e>> \o s) = Len(s) + 1
        /\ Distinct(<<e>> \o s)
        /\ KeysOf(<<e>> \o s) = KeysOf(s) \cup {e.key}
    BY <1>1, <1>3, PushProperties
  <2>2. Len(order) \in Nat
    BY LenProperties DEF IInv, DedupTypeOK
  <2>3. Len(s) + 1 = Len(order)
    BY <2>2, <1>3
  <2>4. (items \ {k}) \cup {e.key} = items
    BY <1>1
  <2> QED
    BY <2>1, <2>3, <2>4, <1>3, <1>4
<1>6. verdict' \in Verdict
  BY DEF Seen, Answer, Verdict
<1> QED
  BY <1>4, <1>5, <1>6 DEF IInv, DedupTypeOK, Coherent, KeysOf, Distinct

LEMMA NewKeepsInvariant ==
    ASSUME IInv, NEW k \in Keys, NEW now \in Times, New(k, now)
    PROVE  IInv'
<1> DEFINE e == [key |-> k, at |-> now]
           s == <<e>> \o Unexpired(k)
<1>1. e \in DedupEntry /\ e.key = k
  BY DEF DedupEntry
<1>2. /\ s \in Seq(DedupEntry)
      /\ Distinct(s)
      /\ KeysOf(s) = items \cup {k}
  <2>1. /\ Unexpired(k) \in Seq(DedupEntry)
        /\ Distinct(Unexpired(k))
        /\ KeysOf(Unexpired(k)) = items \ {k}
    BY UnexpiredProperties
  <2> HIDE DEF e
  <2> QED
    BY <1>1, <2>1, PushProperties
<1>3. order' = Trimmed(s) /\ items' = (items \cup {k}) \ TrimmedKeys(s)
  BY DEF New, Mark
<1> HIDE DEF s
<1>4. /\ order' \in Seq(DedupEntry)
      /\ Len(order') <= Capacity
      /\ Distinct(order')
      /\ KeysOf(order') = items'
  BY <1>2, <1>3, TrimProperties
<1>5. items' \in SUBSET Keys
  BY <1>3 DEF IInv, DedupTypeOK
<1>6. verdict' \in Verdict
  BY DEF New, Answer, Verdict
<1> QED
  BY <1>4, <1>5, <1>6 DEF IInv, DedupTypeOK, Coherent, KeysOf, Distinct

LEMMA InvariantStarts == DedupInit => IInv
BY DedupAssumption, EmptySeq DEF DedupInit, IInv, DedupTypeOK, Coherent, Distinct, Capacity, DedupEntry

LEMMA InvariantSteps == IInv /\ [DedupNext]_dedupVars => IInv'
<1> SUFFICES ASSUME IInv, [DedupNext]_dedupVars
             PROVE  IInv'
  OBVIOUS
<1>1. CASE UNCHANGED dedupVars
  BY <1>1 DEF dedupVars, IInv, DedupTypeOK, Coherent, Distinct
<1>2. ASSUME NEW k \in Keys, NEW now \in Times, CheckAndMark(k, now)
      PROVE  IInv'
  BY <1>2, SeenKeepsInvariant, NewKeepsInvariant DEF CheckAndMark
<1> QED
  BY <1>1, <1>2 DEF DedupNext

\* For every Size, TTL, set of keys and sequence of calls, the clock going back included,
\* the variables of the store keep their types.
THEOREM TypesHold == DedupSpec => []DedupTypeOK
<1>1. IInv => DedupTypeOK
  BY DEF IInv
<1> QED
  BY <1>1, InvariantStarts, InvariantSteps, PTL DEF DedupSpec

\* The map and the list of the store never disagree and never outgrow the capacity: no
\* key leaks from either, whatever mixture of marks, renewals and evictions went before.
THEOREM StoreIsCoherent == DedupSpec => []Coherent
<1>1. IInv => Coherent
  BY DEF IInv
<1> QED
  BY <1>1, InvariantStarts, InvariantSteps, PTL DEF DedupSpec
----------------------------------------------------------------------------
(* The refinement                                                          *)

\* The keys of the entries before the i-th.
KeysBefore(s, i) == {s[j].key : j \in 1..(i - 1)}

\* The list stands in the order its keys were last asked: an entry has the time of the
\* last question, and the keys asked since are those of the entries before it.
Sorted(s, asks) ==
    \A i \in 1..Len(s) : /\ s[i].key \in DOMAIN asks
                         /\ asks[s[i].key].at = s[i].at
                         /\ asks[s[i].key].since = KeysBefore(s, i)

\* A key that was asked and is no longer in the list has had Capacity others asked since.
Outlived ==
    \A k \in DOMAIN history \ items : Cardinality(history[k].since) >= Capacity

FiniteSince == \A k \in DOMAIN history : IsFiniteSet(history[k].since)

Ranked == Sorted(order, history) /\ Outlived /\ FiniteSince

\* With distinct keys, an entry's place counts the entries before it.
LEMMA PlaceCounts ==
    ASSUME NEW s \in Seq(DedupEntry), Distinct(s), NEW i \in 1..Len(s)
    PROVE  IsFiniteSet(KeysBefore(s, i)) /\ Cardinality(KeysBefore(s, i)) = i - 1
<1> DEFINE f == [j \in 1..(i - 1) |-> s[j].key]
<1>1. Len(s) \in Nat /\ i - 1 \in Nat
  BY LenProperties
<1>2. ExistsBijection(1..(i - 1), KeysBefore(s, i))
  <2>1. /\ f \in [1..(i - 1) -> KeysBefore(s, i)]
        /\ \A x, y \in 1..(i - 1) : f[x] = f[y] => x = y
        /\ \A k \in KeysBefore(s, i) : \E x \in 1..(i - 1) : f[x] = k
    BY <1>1 DEF Distinct, KeysBefore
  <2> HIDE DEF f
  <2>2. f \in Bijection(1..(i - 1), KeysBefore(s, i))
    BY <2>1, Fun_IsBij
  <2> QED
    BY <2>2 DEF ExistsBijection
<1>3. IsFiniteSet(1..(i - 1)) /\ Cardinality(1..(i - 1)) = i - 1
  <2> DEFINE b == i - 1
  <2>1. 1 \in Int /\ b \in Int /\ b \in Nat
    BY <1>1
  <2> HIDE DEF b
  <2>2. IsFiniteSet(1..b) /\ Cardinality(1..b) = IF 1 > b THEN 0 ELSE b - 1 + 1
    BY <2>1, FS_Interval
  <2>3. Cardinality(1..b) = b
    BY <2>1, <2>2
  <2> QED
    BY <2>2, <2>3 DEF b
<1> QED
  BY <1>2, <1>3, FS_Bijection
\* What every call does to the list before it may be cut: the entry of k is taken out
\* where it stood, if it had one, and a new one put to the front.
Rest(k) == IF k \in items THEN Without(order, Place(k)) ELSE order
Pushed(k, now) == <<[key |-> k, at |-> now]>> \o Rest(k)

\* The list without k's entry is in the order of the history, up to k.
LEMMA RestSorted ==
    ASSUME IInv, Ranked, NEW k \in Keys
    PROVE  /\ Rest(k) \in Seq(DedupEntry)
           /\ Distinct(Rest(k))
           /\ KeysOf(Rest(k)) = items \ {k}
           /\ \A i \in 1..Len(Rest(k)) :
                 /\ Rest(k)[i].key \in DOMAIN history \ {k}
                 /\ history[Rest(k)[i].key].at = Rest(k)[i].at
                 /\ history[Rest(k)[i].key].since \cup {k} = KeysBefore(Rest(k), i) \cup {k}
<1> DEFINE w == Rest(k)
           n == Len(order)
<1>1. /\ w \in Seq(DedupEntry)
      /\ Distinct(w)
      /\ KeysOf(w) = items \ {k}
  BY UnexpiredProperties DEF Rest, Unexpired
<1>2. n \in Nat /\ order \in Seq(DedupEntry) /\ Len(w) \in Nat
  BY <1>1, LenProperties DEF IInv, DedupTypeOK
<1>3. ASSUME NEW i \in 1..Len(w)
      PROVE  w[i].key # k
  BY <1>1, <1>3 DEF KeysOf
<1>4. CASE k \notin items
  <2>1. w = order
    BY <1>4 DEF Rest
  <2> QED
    BY <2>1, <1>1, <1>3 DEF Ranked, Sorted
<1>5. CASE k \in items
  <2> DEFINE p == Place(k)
  <2>1. p \in 1..n /\ order[p].key = k
    BY <1>5, PlaceProperties
  <2>2. w = Without(order, p)
    BY <1>5 DEF Rest
  <2> HIDE DEF p, w
  <2>3. /\ Len(w) = n - 1
        /\ \A i \in 1..n - 1 : w[i] = IF i < p THEN order[i] ELSE order[i + 1]
    BY <1>2, <2>1, <2>2, WithoutPlaces
  <2>4. ASSUME NEW i \in 1..Len(w)
        PROVE  /\ w[i].key \in DOMAIN history
               /\ history[w[i].key].at = w[i].at
               /\ history[w[i].key].since \cup {k} = KeysBefore(w, i) \cup {k}
    <3> DEFINE m == IF i < p THEN i ELSE i + 1
    <3>1. m \in 1..n /\ w[i] = order[m]
      BY <1>2, <2>1, <2>3
    <3>2. /\ order[m].key \in DOMAIN history
          /\ history[order[m].key].at = order[m].at
          /\ history[order[m].key].since = KeysBefore(order, m)
      BY <3>1 DEF Ranked, Sorted
    <3>3. KeysBefore(order, m) \subseteq KeysBefore(w, i) \cup {k}
      <4> SUFFICES ASSUME NEW j \in 1..(m - 1), j # p
                   PROVE  order[j].key \in KeysBefore(w, i)
        BY <2>1 DEF KeysBefore
      <4> DEFINE x == IF j < p THEN j ELSE j - 1
      <4>1. x \in 1..(i - 1) /\ w[x] = order[j]
        BY <1>2, <2>1, <2>3
      <4> QED
        BY <4>1 DEF KeysBefore
    <3>4. KeysBefore(w, i) \subseteq KeysBefore(order, m)
      <4> SUFFICES ASSUME NEW j \in 1..(i - 1)
                   PROVE  w[j].key \in KeysBefore(order, m)
        BY DEF KeysBefore
      <4> DEFINE x == IF j < p THEN j ELSE j + 1
      <4>1. j \in 1..n - 1 /\ x \in 1..(m - 1)
        BY <1>2, <2>1, <2>3
      <4>2. w[j] = order[x]
        BY <4>1, <2>3
      <4> QED
        BY <4>1, <4>2 DEF KeysBefore
    <3> HIDE DEF m
    <3> QED
      BY <3>1, <3>2, <3>3, <3>4
  <2> QED
    BY <1>1, <1>3, <2>4 DEF w
<1> QED
  BY <1>4, <1>5

\* With k in front and the question remembered, the list is in the order of the history.
LEMMA PushedSorted ==
    ASSUME IInv, Ranked, NEW k \in Keys, NEW now \in Times, Window!Remember(k, now)
    PROVE  /\ Pushed(k, now) \in Seq(DedupEntry)
           /\ Distinct(Pushed(k, now))
           /\ KeysOf(Pushed(k, now)) = items \cup {k}
           /\ Sorted(Pushed(k, now), history')
<1> DEFINE e == [key |-> k, at |-> now]
           w == Rest(k)
           s == Pushed(k, now)
<1>1. e \in DedupEntry /\ e.key = k /\ e.at = now
  BY DEF DedupEntry
<1>2. /\ w \in Seq(DedupEntry)
      /\ Distinct(w)
      /\ KeysOf(w) = items \ {k}
  BY RestSorted
<1>3. s = <<e>> \o w
  BY DEF Pushed
<1> HIDE DEF e, w, s
<1>4. /\ s \in Seq(DedupEntry)
      /\ Distinct(s)
      /\ KeysOf(s) = items \cup {k}
      /\ Len(s) = Len(w) + 1
      /\ \A i \in 1..Len(w) + 1 : s[i] = IF i = 1 THEN e ELSE w[i - 1]
  BY <1>1, <1>2, <1>3, PushProperties, PushPlaces
<1>5. Len(w) \in Nat
  BY <1>2, LenProperties
<1>6. ASSUME NEW i \in 1..Len(s)
      PROVE  /\ s[i].key \in DOMAIN history'
             /\ history'[s[i].key].at = s[i].at
             /\ history'[s[i].key].since = KeysBefore(s, i)
  <2>1. CASE i = 1
    <3>1. s[i] = e
      BY <2>1, <1>4, <1>5
    <3>2. KeysBefore(s, i) = {}
      BY <2>1 DEF KeysBefore
    <3> QED
      BY <3>1, <3>2, <1>1 DEF Window!Remember
  <2>2. CASE i # 1
    <3> DEFINE m == i - 1
    <3>1. m \in 1..Len(w) /\ s[i] = w[m]
      BY <2>2, <1>4, <1>5
    <3>2. /\ w[m].key \in DOMAIN history \ {k}
          /\ history[w[m].key].at = w[m].at
          /\ history[w[m].key].since \cup {k} = KeysBefore(w, m) \cup {k}
      BY <3>1, RestSorted DEF w
    <3>3. /\ w[m].key \in DOMAIN history'
          /\ history'[w[m].key].at = w[m].at
          /\ history'[w[m].key].since = history[w[m].key].since \cup {k}
      BY <3>2 DEF Window!Remember
    <3>4. KeysBefore(s, i) = KeysBefore(w, m) \cup {k}
      <4>1. KeysBefore(s, i) \subseteq KeysBefore(w, m) \cup {k}
        <5> SUFFICES ASSUME NEW j \in 1..(i - 1), j # 1
                     PROVE  s[j].key \in KeysBefore(w, m)
          BY <1>1, <1>4, <1>5 DEF KeysBefore
        <5>1. j - 1 \in 1..(m - 1) /\ s[j] = w[j - 1]
          BY <1>4, <1>5
        <5> QED
          BY <5>1 DEF KeysBefore
      <4>2. k \in KeysBefore(s, i)
        <5>1. 1 \in 1..(i - 1) /\ s[1] = e
          BY <2>2, <1>4, <1>5
        <5> QED
          BY <5>1, <1>1 DEF KeysBefore
      <4>3. ASSUME NEW j \in 1..(m - 1)
            PROVE  w[j].key \in KeysBefore(s, i)
        <5> DEFINE x == j + 1
        <5>1. x \in 1..(i - 1) /\ s[x] = w[j]
          BY <1>4, <1>5
        <5> HIDE DEF x
        <5> QED
          BY <5>1 DEF KeysBefore
      <4> QED
        BY <4>1, <4>2, <4>3 DEF KeysBefore
    <3> HIDE DEF m
    <3> QED
      BY <3>1, <3>2, <3>3, <3>4
  <2> QED
    BY <2>1, <2>2
<1> QED
  BY <1>4, <1>6 DEF Sorted, s
\* A list in the order of the history stays so when its back is cut off.
LEMMA TrimmedSorted ==
    ASSUME NEW s \in Seq(DedupEntry), Distinct(s), NEW asks, Sorted(s, asks)
    PROVE  Sorted(Trimmed(s), asks)
<1> DEFINE t == Trimmed(s)
<1>1. /\ Len(t) \in Nat /\ Len(s) \in Nat
      /\ Len(t) <= Len(s)
      /\ \A i \in 1..Len(t) : t[i] = s[i]
  BY TrimProperties, LenProperties
<1> HIDE DEF t
<1>2. ASSUME NEW i \in 1..Len(t)
      PROVE  KeysBefore(t, i) = KeysBefore(s, i)
  BY <1>1 DEF KeysBefore
<1>3. Sorted(t, asks)
  BY <1>1, <1>2 DEF Sorted
<1> QED
  BY <1>3 DEF t

\* The history of a key only grows until the key is asked again.
LEMMA SinceGrows ==
    ASSUME FiniteSince, NEW k \in Keys, NEW now \in Times, Window!Remember(k, now)
    PROVE  /\ FiniteSince'
           /\ DOMAIN history' = DOMAIN history \cup {k}
           /\ \A j \in DOMAIN history \ {k} :
                 Cardinality(history[j].since) \in Nat
                 /\ Cardinality(history'[j].since) >= Cardinality(history[j].since)
<1>1. /\ DOMAIN history' = DOMAIN history \cup {k}
      /\ history'[k].since = {}
      /\ \A j \in DOMAIN history \ {k} : history'[j].since = history[j].since \cup {k}
  BY DEF Window!Remember
<1>2. ASSUME NEW j \in DOMAIN history \ {k}
      PROVE  /\ IsFiniteSet(history'[j].since)
             /\ Cardinality(history[j].since) \in Nat
             /\ Cardinality(history'[j].since) >= Cardinality(history[j].since)
  <2> DEFINE S == history[j].since
  <2>1. IsFiniteSet(S) /\ history'[j].since = S \cup {k}
    BY <1>1 DEF FiniteSince
  <2> HIDE DEF S
  <2>2. IsFiniteSet(S \cup {k}) /\ Cardinality(S) \in Nat
    BY <2>1, FS_AddElement, FS_CardinalityType
  <2>3. Cardinality(S \cup {k}) = IF k \in S THEN Cardinality(S) ELSE Cardinality(S) + 1
    BY <2>1, FS_AddElement
  <2> QED
    BY <2>1, <2>2, <2>3 DEF S
<1>3. IsFiniteSet(history'[k].since)
  BY <1>1, FS_EmptySet
<1> QED
  BY <1>1, <1>2, <1>3 DEF FiniteSince

\* A renewal cuts nothing off: what has left the list had left it before.
LEMMA SeenStaysRanked ==
    ASSUME IInv, Ranked, NEW k \in Keys, NEW now \in Times, Seen(k, now), Window!Remember(k, now)
    PROVE  Ranked'
<1>1. k \in items /\ items' = items /\ order' = Pushed(k, now)
  BY DEF Seen, Hit, Touch, Pushed, Rest
<1>2. Sorted(order, history)'
  BY <1>1, PushedSorted DEF Sorted
<1>3. FiniteSince'
  BY SinceGrows DEF Ranked
<1>4. ASSUME NEW j \in DOMAIN history' \ items'
      PROVE  Cardinality(history'[j].since) >= Capacity
  <2>1. j \in (DOMAIN history \ {k}) \ items
    BY <1>1, SinceGrows DEF Ranked
  <2>2. Capacity \in Nat /\ Cardinality(history[j].since) >= Capacity
    BY <2>1, DedupAssumption DEF Capacity, Ranked, Outlived
  <2>3. /\ Cardinality(history[j].since) \in Nat
        /\ Cardinality(history'[j].since) >= Cardinality(history[j].since)
    BY <2>1, SinceGrows DEF Ranked
  <2>4. Cardinality(history'[j].since) \in Nat
    BY <1>3, <2>1, FS_CardinalityType, SinceGrows DEF Ranked, FiniteSince
  <2> QED
    BY <2>2, <2>3, <2>4
<1> QED
  BY <1>2, <1>3, <1>4 DEF Ranked, Outlived

\* A first sighting may cut an entry off, and that entry had Capacity others before it.
LEMMA NewStaysRanked ==
    ASSUME IInv, Ranked, NEW k \in Keys, NEW now \in Times, New(k, now), Window!Remember(k, now)
    PROVE  Ranked'
<1> DEFINE s == Pushed(k, now)
<1>1. order' = Trimmed(s) /\ items' = (items \cup {k}) \ TrimmedKeys(s)
  BY DEF New, Mark, Pushed, Rest, Unexpired
<1>2. /\ s \in Seq(DedupEntry)
      /\ Distinct(s)
      /\ KeysOf(s) = items \cup {k}
      /\ Sorted(s, history')
  BY PushedSorted
<1> HIDE DEF s
<1>3. Sorted(order, history)'
  <2>1. Sorted(Trimmed(s), history')
    BY <1>2, TrimmedSorted
  <2> QED
    BY <1>1, <2>1 DEF Sorted
<1>4. Capacity \in Nat /\ Len(s) \in Nat
  BY <1>2, LenProperties, DedupAssumption DEF Capacity
<1>5. FiniteSince' /\ DOMAIN history' = DOMAIN history \cup {k}
  BY SinceGrows DEF Ranked
<1>6. ASSUME NEW j \in DOMAIN history' \ items'
      PROVE  Cardinality(history'[j].since) >= Capacity
  <2>1. CASE j \in TrimmedKeys(s)
    <3>1. PICK i \in Capacity + 1 .. Len(s) : j = s[i].key
      BY <2>1 DEF TrimmedKeys
    <3>2. i \in 1..Len(s) /\ i - 1 >= Capacity
      BY <3>1, <1>4
    <3>3. history'[j].since = KeysBefore(s, i)
      BY <3>1, <3>2, <1>2 DEF Sorted
    <3>4. Cardinality(KeysBefore(s, i)) = i - 1
      BY <3>2, <1>2, PlaceCounts
    <3> QED
      BY <3>2, <3>3, <3>4
  <2>2. CASE j \notin TrimmedKeys(s)
    <3>1. j \in (DOMAIN history \ {k}) \ items
      BY <2>2, <1>1, <1>5
    <3>2. Cardinality(history[j].since) >= Capacity
      BY <3>1 DEF Ranked, Outlived
    <3>3. /\ Cardinality(history[j].since) \in Nat
          /\ Cardinality(history'[j].since) >= Cardinality(history[j].since)
      BY <3>1, SinceGrows DEF Ranked
    <3>4. Cardinality(history'[j].since) \in Nat
      <4>1. IsFiniteSet(history'[j].since)
        BY <1>5, <3>1 DEF FiniteSince
      <4> QED
        BY <4>1, FS_CardinalityType
    <3> QED
      BY <3>2, <3>3, <3>4, <1>4
  <2> QED
    BY <2>1, <2>2
<1> QED
  BY <1>3, <1>5, <1>6 DEF Ranked, Outlived

\* The window counts sets as this module does.
LEMMA SameCount ==
    ASSUME NEW S
    PROVE  Window!Cardinality(S) = Cardinality(S)
BY DEF Window!Cardinality, Cardinality, Window!IsFiniteSet, IsFiniteSet

\* The answer of the list is the answer of the history.
LEMMA SameAnswer ==
    ASSUME IInv, Ranked, NEW k \in Keys, NEW now \in Times
    PROVE  Window!Duplicate(k, now) = Hit(k, now)
<1>1. Capacity \in Nat /\ Len(order) \in Nat /\ order \in Seq(DedupEntry)
  BY LenProperties, DedupAssumption DEF Capacity, IInv, DedupTypeOK
<1>2. CASE k \in items
  <2> DEFINE p == Place(k)
  <2>1. p \in 1..Len(order) /\ order[p].key = k
    BY <1>2, PlaceProperties
  <2> HIDE DEF p
  <2>2. /\ k \in DOMAIN history
        /\ history[k].at = order[p].at
        /\ history[k].since = KeysBefore(order, p)
    BY <2>1 DEF Ranked, Sorted
  <2>3. Cardinality(KeysBefore(order, p)) = p - 1
    BY <1>1, <2>1, PlaceCounts DEF IInv, Coherent
  <2>4. Len(order) <= Capacity
    BY DEF IInv, Coherent
  <2>5. Cardinality(history[k].since) < Capacity
    BY <1>1, <2>1, <2>2, <2>3, <2>4
  <2>6. Hit(k, now) = (TTL <= 0 \/ now - order[p].at <= TTL)
    BY <1>2 DEF Hit, Fresh, p
  <2>7. Window!Duplicate(k, now) = (TTL <= 0 \/ now - order[p].at <= TTL)
    BY <2>2, <2>5, SameCount DEF Window!Duplicate
  <2> QED
    BY <2>6, <2>7
<1>3. CASE k \notin items
  <2>1. k \in DOMAIN history => ~(Cardinality(history[k].since) < Capacity)
    <3>1. SUFFICES ASSUME k \in DOMAIN history
                   PROVE  ~(Cardinality(history[k].since) < Capacity)
      OBVIOUS
    <3>2. Cardinality(history[k].since) >= Capacity
      BY <1>3, <3>1 DEF Ranked, Outlived
    <3>3. Cardinality(history[k].since) \in Nat
      BY <3>1, FS_CardinalityType DEF Ranked, FiniteSince
    <3> QED
      BY <3>2, <3>3, <1>1
  <2>2. Window!Duplicate(k, now) = FALSE
    BY <2>1, SameCount DEF Window!Duplicate
  <2>3. Hit(k, now) = FALSE
    BY <1>3 DEF Hit
  <2> QED
    BY <2>2, <2>3
<1> QED
  BY <1>2, <1>3

HInv == IInv /\ Ranked

LEMMA RankedSteps == HInv /\ [HNext]_HVars => HInv'
<1> SUFFICES ASSUME HInv, [HNext]_HVars
             PROVE  HInv'
  OBVIOUS
<1>1. CASE UNCHANGED HVars
  <2>1. order' = order /\ items' = items /\ verdict' = verdict /\ history' = history
    BY <1>1 DEF HVars, dedupVars
  <2>2. IInv'
    BY <2>1, InvariantSteps DEF HInv, dedupVars
  <2> QED
    BY <2>1, <2>2 DEF HInv, Ranked, Sorted, KeysBefore, Outlived, FiniteSince
<1>2. ASSUME NEW k \in Keys, NEW now \in Times, CheckAndMark(k, now), Window!Remember(k, now)
      PROVE  HInv'
  BY <1>2, SeenKeepsInvariant, NewKeepsInvariant, SeenStaysRanked, NewStaysRanked
     DEF HInv, CheckAndMark
<1> QED
  BY <1>1, <1>2 DEF HNext

LEMMA RankedStarts == HInit => HInv /\ Window!Init
<1> SUFFICES ASSUME HInit
             PROVE  HInv /\ Window!Init
  OBVIOUS
<1>1. IInv
  BY InvariantStarts DEF HInit
<1>2. Len(order) = 0 /\ DOMAIN history = {}
  BY DEF HInit, DedupInit
<1>3. Ranked
  BY <1>2 DEF Ranked, Sorted, Outlived, FiniteSince
<1>4. Window!Init
  BY DEF HInit, DedupInit, Window!Init, NoVerdict, Window!NoVerdict
<1> QED
  BY <1>1, <1>3, <1>4 DEF HInv

\* Every call of the store is a question of the window with the same answer.
LEMMA CallsAsk == HInv /\ [HNext]_HVars => [Window!Next]_Window!vars
<1> SUFFICES ASSUME HInv, [HNext]_HVars
             PROVE  [Window!Next]_Window!vars
  OBVIOUS
<1>1. CASE UNCHANGED HVars
  BY <1>1 DEF HVars, dedupVars, Window!vars
<1>2. ASSUME NEW k \in Keys, NEW now \in Times, CheckAndMark(k, now), Window!Remember(k, now)
      PROVE  Window!Ask(k, now)
  <2>1. Window!Duplicate(k, now) = Hit(k, now)
    BY SameAnswer DEF HInv
  <2>2. CASE Seen(k, now)
    <3>1. Window!Duplicate(k, now) = TRUE
      BY <2>1, <2>2 DEF Seen, Window!Duplicate
    <3> QED
      BY <3>1, <2>2, <1>2 DEF Seen, Answer, Window!Ask
  <2>3. CASE New(k, now)
    <3>1. Window!Duplicate(k, now) = FALSE
      BY <2>1, <2>3 DEF New, Window!Duplicate
    <3> QED
      BY <3>1, <2>3, <1>2 DEF New, Answer, Window!Ask
  <2> QED
    BY <1>2, <2>2, <2>3 DEF CheckAndMark
<1> QED
  BY <1>1, <1>2 DEF HNext, Window!Next

\* The duplicate filter implements the promise: for every size, TTL and sequence of calls
\* it answers "duplicate" exactly for a key last asked within the TTL and since which fewer
\* than Capacity other keys were asked, although it forgets every key but Capacity.
THEOREM FilterImplementsWindow == HSpec => AnswersLikeWindow
<1> QED
  BY RankedStarts, RankedSteps, CallsAsk, PTL DEF HSpec, AnswersLikeWindow, Window!Spec

----------------------------------------------------------------------------
(* The traceroute tracker                                                  *)

\* The entries as far as the reports depend on them: the ages may be any integers.
Fields == [req: Nat, sinceStart: Int, sinceUpdate: Int, status: Statuses, final: BOOLEAN]

\* The table is a finite function whose entries are well formed.
Table ==
    /\ IsFiniteSet(DOMAIN entries)
    /\ entries = [k \in DOMAIN entries |-> entries[k]]
    /\ \A k \in DOMAIN entries : entries[k] \in Fields
    /\ emissions \in Seq(Nat)

\* The inductive invariant of the reports: what OneLifecycleEach says, where the statuses
\* of the entries follow their final flag.
Joined ==
    /\ \A r \in DOMAIN emissions : emissions[r] <= 1
    /\ \A k \in DOMAIN entries :
          /\ entries[k].req \in DOMAIN emissions
          /\ emissions[entries[k].req] = IF entries[k].final THEN 1 ELSE 0
          /\ entries[k].final <=> entries[k].status \in FinalStatuses
    /\ \A j, k \in DOMAIN entries : entries[j].req = entries[k].req => j = k

Sound == Table /\ Bounded /\ Joined

LEMMA DroppingRestricts ==
    ASSUME NEW es, NEW S
    PROVE  /\ DOMAIN Dropping(es, S) = DOMAIN es \ S
           /\ \A k \in DOMAIN es \ S : Dropping(es, S)[k] = es[k]
BY DEF Dropping, Restrict

\* What evictForInsert leaves is a part of the table with room for one more entry.
LEMMA EvictionMakesRoom ==
    ASSUME NEW es, IsFiniteSet(DOMAIN es), Cardinality(DOMAIN es) <= MaxEntries,
           NEW left \in EvictForInsert(es)
    PROVE  /\ DOMAIN left \subseteq DOMAIN es
           /\ \A k \in DOMAIN left : left[k] = es[k]
           /\ IsFiniteSet(DOMAIN left)
           /\ Cardinality(DOMAIN left) < MaxEntries
<1> DEFINE spent == {k \in DOMAIN es : Spent(es[k])}
           kept  == Dropping(es, spent)
           late  == {k \in DOMAIN kept : Overdue(kept[k])}
           fresh == Dropping(kept, late)
<1>0. MaxEntries \in Nat \ {0}
  BY TrackerAssumption
<1> HIDE DEF spent, late
<1>1. DOMAIN kept \subseteq DOMAIN es /\ \A k \in DOMAIN kept : kept[k] = es[k]
  <2>1. DOMAIN kept = DOMAIN es \ spent /\ \A k \in DOMAIN es \ spent : kept[k] = es[k]
    BY DroppingRestricts
  <2> QED
    BY <2>1
<1> HIDE DEF kept
<1>2. DOMAIN fresh \subseteq DOMAIN kept /\ \A k \in DOMAIN fresh : fresh[k] = kept[k]
  <2>1. DOMAIN fresh = DOMAIN kept \ late /\ \A k \in DOMAIN kept \ late : fresh[k] = kept[k]
    BY DroppingRestricts
  <2> QED
    BY <2>1
<1>3. /\ IsFiniteSet(DOMAIN kept)
      /\ IsFiniteSet(DOMAIN fresh)
      /\ Cardinality(DOMAIN fresh) <= Cardinality(DOMAIN es)
  <2>1. DOMAIN kept \in SUBSET DOMAIN es /\ DOMAIN fresh \in SUBSET DOMAIN es
    BY <1>1, <1>2
  <2> QED
    BY <2>1, FS_Subset
<1>4. left \in IF Room(kept) THEN {kept}
               ELSE IF Room(fresh) THEN {fresh}
               ELSE {Dropping(fresh, {v}) : v \in Victims(fresh)}
  BY DEF EvictForInsert, spent, kept, late
<1> HIDE DEF fresh
<1>5. CASE Room(kept)
  BY <1>1, <1>3, <1>4, <1>5 DEF Room
<1>6. CASE ~Room(kept) /\ Room(fresh)
  BY <1>1, <1>2, <1>3, <1>4, <1>6 DEF Room
<1>7. CASE ~Room(kept) /\ ~Room(fresh)
  <2>1. PICK v \in Victims(fresh) : left = Dropping(fresh, {v})
    BY <1>4, <1>7
  <2>2. v \in DOMAIN fresh
    BY DEF Victims, Live
  <2>3. DOMAIN left = DOMAIN fresh \ {v} /\ \A k \in DOMAIN left : left[k] = fresh[k]
    <3>1. /\ DOMAIN Dropping(fresh, {v}) = DOMAIN fresh \ {v}
          /\ \A k \in DOMAIN fresh \ {v} : Dropping(fresh, {v})[k] = fresh[k]
      BY DroppingRestricts
    <3> QED
      BY <2>1, <3>1
  <2>4. /\ IsFiniteSet(DOMAIN left)
        /\ Cardinality(DOMAIN left) = Cardinality(DOMAIN fresh) - 1
    BY <2>2, <2>3, <1>3, FS_RemoveElement
  <2>5. Cardinality(DOMAIN fresh) \in Nat /\ Cardinality(DOMAIN es) \in Nat
    BY <1>3, FS_CardinalityType
  <2>6. Cardinality(DOMAIN left) < MaxEntries
    BY <2>4, <2>5, <1>0, <1>3
  <2> QED
    BY <2>3, <2>4, <2>6, <1>1, <1>2
<1> QED
  BY <1>5, <1>6, <1>7

\* A new request takes a fresh number and a place that eviction has made.
LEMMA RequestKeepsSound ==
    ASSUME Sound, NEW k \in Ids, OnRequest(k)
    PROVE  Sound'
<1>0. MaxEntries \in Nat \ {0}
  BY TrackerAssumption
<1> DEFINE n == Len(emissions) + 1
           e == [req |-> n, sinceStart |-> 0, sinceUpdate |-> 0,
                 status |-> "requested", final |-> FALSE]
<1>1. PICK left \in EvictForInsert(entries) : entries' = Put(left, k, e)
  BY DEF OnRequest
<1>2. /\ DOMAIN left \subseteq DOMAIN entries
      /\ \A j \in DOMAIN left : left[j] = entries[j]
      /\ IsFiniteSet(DOMAIN left)
      /\ Cardinality(DOMAIN left) < MaxEntries
  BY EvictionMakesRoom DEF Sound, Table, Bounded
<1>3. /\ DOMAIN entries' = DOMAIN left \cup {k}
      /\ entries' = [j \in DOMAIN entries' |-> entries'[j]]
      /\ entries'[k] = e
      /\ \A j \in DOMAIN entries' : j # k => j \in DOMAIN entries /\ entries'[j] = entries[j]
  BY <1>1, <1>2 DEF Put
<1>4. /\ emissions' \in Seq(Nat)
      /\ n \in Nat
      /\ DOMAIN emissions' = DOMAIN emissions \cup {n}
      /\ n \notin DOMAIN emissions
      /\ emissions'[n] = 0
      /\ \A r \in DOMAIN emissions : emissions'[r] = emissions[r]
  BY DEF Sound, Table, OnRequest
<1>5. e \in Fields
  BY <1>4 DEF Fields, Statuses
<1>6. e.req = n /\ e.final = FALSE /\ e.status \notin FinalStatuses
  BY DEF FinalStatuses
<1> HIDE DEF n, e
<1>7. Table'
  <2>1. IsFiniteSet(DOMAIN entries')
    BY <1>2, <1>3, FS_AddElement
  <2> QED
    BY <2>1, <1>3, <1>4, <1>5 DEF Sound, Table
<1>8. Bounded'
  <2>1. Cardinality(DOMAIN left) \in Nat
    BY <1>2, FS_CardinalityType
  <2>2. Cardinality(DOMAIN entries') <= Cardinality(DOMAIN left) + 1
    <3>1. IsFiniteSet(DOMAIN left)
      BY <1>2
    <3>2. \/ Cardinality(DOMAIN left \cup {k}) = Cardinality(DOMAIN left)
          \/ Cardinality(DOMAIN left \cup {k}) = Cardinality(DOMAIN left) + 1
      BY <3>1, FS_AddElement
    <3>3. DOMAIN entries' = DOMAIN left \cup {k}
      BY <1>3
    <3> QED
      BY <3>2, <3>3, <2>1
  <2>3. Cardinality(DOMAIN entries') \in Nat
    BY <1>2, <1>3, FS_AddElement, FS_CardinalityType
  <2> QED
    BY <2>1, <2>2, <2>3, <1>0, <1>2 DEF Bounded
<1>9. Joined'
  BY <1>3, <1>4, <1>6 DEF Sound, Joined
<1> QED
  BY <1>7, <1>8, <1>9 DEF Sound

LEMMA EndedFields ==
    ASSUME NEW e \in Fields, NEW status \in Statuses
    PROVE  /\ Ended(e, status) \in Fields
           /\ Ended(e, status).req = e.req
           /\ Ended(e, status).final = TRUE
           /\ Ended(e, status).status = status
<1>1. 0 \in Int
  OBVIOUS
<1> QED
  BY <1>1 DEF Ended, Fields

\* Ending an open entry reports its request, for the first and only time.
LEMMA FinishKeepsSound ==
    ASSUME Sound, NEW k \in DOMAIN entries, ~entries[k].final,
           NEW status \in FinalStatuses, Finish(k, status)
    PROVE  Sound'
<1> DEFINE r == entries[k].req
<1>1. /\ DOMAIN entries' = DOMAIN entries
      /\ entries' = [j \in DOMAIN entries' |-> entries'[j]]
      /\ \A j \in DOMAIN entries : j # k => entries'[j] = entries[j]
      /\ entries'[k] = Ended(entries[k], status)
  BY DEF Finish, Sound, Table
<1>2. /\ entries'[k] \in Fields
      /\ entries'[k].req = r
      /\ entries'[k].final = TRUE
      /\ entries'[k].status = status
  <2>1. entries[k] \in Fields /\ status \in Statuses
    BY DEF Sound, Table, Statuses
  <2>2. /\ Ended(entries[k], status) \in Fields
        /\ Ended(entries[k], status).req = entries[k].req
        /\ Ended(entries[k], status).final = TRUE
        /\ Ended(entries[k], status).status = status
    BY <2>1, EndedFields
  <2> QED
    BY <1>1, <2>2
<1>3. r \in DOMAIN emissions /\ emissions[r] = 0
  BY DEF Sound, Joined
<1>4. /\ emissions' \in Seq(Nat)
      /\ DOMAIN emissions' = DOMAIN emissions
      /\ emissions'[r] = 1
      /\ \A q \in DOMAIN emissions : q # r => emissions'[q] = emissions[q]
  BY <1>3 DEF Finish, Sound, Table
<1> HIDE DEF r
<1>5. Table' /\ Bounded'
  BY <1>1, <1>2, <1>4 DEF Sound, Table, Bounded
<1>6. Joined'
  <2>1. \A j \in DOMAIN entries : j # k => entries[j].req # r
    BY DEF Sound, Joined, r
  <2>2. \A q \in DOMAIN emissions' : emissions'[q] <= 1
    BY <1>4 DEF Sound, Joined
  <2>3. \A j \in DOMAIN entries' :
          /\ entries'[j].req \in DOMAIN emissions'
          /\ emissions'[entries'[j].req] = IF entries'[j].final THEN 1 ELSE 0
          /\ entries'[j].final <=> entries'[j].status \in FinalStatuses
    <3> SUFFICES ASSUME NEW j \in DOMAIN entries
                 PROVE  /\ entries'[j].req \in DOMAIN emissions'
                        /\ emissions'[entries'[j].req] = IF entries'[j].final THEN 1 ELSE 0
                        /\ entries'[j].final <=> entries'[j].status \in FinalStatuses
      BY <1>1
    <3>1. CASE j = k
      BY <3>1, <1>2, <1>3, <1>4
    <3>2. CASE j # k
      BY <3>2, <2>1, <1>1, <1>4 DEF Sound, Joined
    <3> QED
      BY <3>1, <3>2
  <2>4. \A i, j \in DOMAIN entries' : entries'[i].req = entries'[j].req => i = j
    <3> SUFFICES ASSUME NEW i \in DOMAIN entries, NEW j \in DOMAIN entries,
                        entries'[i].req = entries'[j].req
                 PROVE  i = j
      BY <1>1
    <3>1. \A q \in DOMAIN entries : entries'[q].req = IF q = k THEN r ELSE entries[q].req
      BY <1>1, <1>2
    <3> QED
      BY <3>1, <2>1 DEF Sound, Joined
  <2> QED
    BY <2>2, <2>3, <2>4 DEF Joined
<1> QED
  BY <1>5, <1>6 DEF Sound

\* A step that changes nothing but the ages of the entries.
LEMMA AgingKeepsSound ==
    ASSUME Sound, DOMAIN entries' = DOMAIN entries, emissions' = emissions,
           entries' = [k \in DOMAIN entries' |-> entries'[k]],
           \A k \in DOMAIN entries :
              /\ entries'[k] \in Fields
              /\ entries'[k].req = entries[k].req
              /\ entries'[k].status = entries[k].status
              /\ entries'[k].final = entries[k].final
    PROVE  Sound'
BY DEF Sound, Table, Bounded, Joined

\* A sweep reports each overdue request, once, and forgets entries that were reported.
LEMMA SweepKeepsSound ==
    ASSUME Sound, Sweep
    PROVE  Sound'
<1> DEFINE overdue == {k \in DOMAIN entries : Overdue(entries[k])}
           kept    == {k \in DOMAIN entries : ~Spent(entries[k])}
           For(r)  == {k \in overdue : entries[k].req = r}
<1>1. /\ entries' = [k \in kept |-> IF k \in overdue THEN TimedOut(entries[k]) ELSE entries[k]]
      /\ emissions' = [r \in DOMAIN emissions |-> emissions[r] + Cardinality(For(r))]
  BY DEF Sweep
<1>2. \A k \in overdue : k \in DOMAIN entries /\ ~entries[k].final
  BY DEF Overdue
<1>3. kept \subseteq DOMAIN entries
  OBVIOUS
<1>4. \A k \in DOMAIN entries : For(entries[k].req) = IF k \in overdue THEN {k} ELSE {}
  BY DEF Sound, Joined
<1>5. Cardinality({}) = 0 /\ \A k : Cardinality({k}) = 1
  BY FS_EmptySet, FS_Singleton
<1>6. \A r \in DOMAIN emissions : Cardinality(For(r)) = 0 \/ (Cardinality(For(r)) = 1 /\ emissions[r] = 0)
  <2> SUFFICES ASSUME NEW r \in DOMAIN emissions
               PROVE  Cardinality(For(r)) = 0 \/ (Cardinality(For(r)) = 1 /\ emissions[r] = 0)
    OBVIOUS
  <2>1. CASE For(r) = {}
    BY <2>1, <1>5
  <2>2. CASE For(r) # {}
    <3>1. PICK k \in overdue : entries[k].req = r
      BY <2>2
    <3>2. For(r) = {k} /\ emissions[r] = 0
      BY <3>1, <1>2, <1>4 DEF Sound, Joined
    <3> QED
      BY <3>2, <1>5
  <2> QED
    BY <2>1, <2>2
<1>7. \A k \in DOMAIN entries :
         Cardinality(For(entries[k].req)) = IF k \in overdue THEN 1 ELSE 0
  BY <1>4, <1>5
<1>8. \A k \in kept :
        /\ entries'[k] \in Fields
        /\ entries'[k].req = entries[k].req
        /\ entries'[k].final = (entries[k].final \/ k \in overdue)
        /\ entries'[k].status = IF k \in overdue THEN "timed_out" ELSE entries[k].status
  <2> SUFFICES ASSUME NEW k \in kept
               PROVE  /\ entries'[k] \in Fields
                      /\ entries'[k].req = entries[k].req
                      /\ entries'[k].final = (entries[k].final \/ k \in overdue)
                      /\ entries'[k].status = IF k \in overdue THEN "timed_out" ELSE entries[k].status
    OBVIOUS
  <2>1. entries[k] \in Fields
    BY <1>3 DEF Sound, Table
  <2>2. entries'[k] = IF k \in overdue THEN TimedOut(entries[k]) ELSE entries[k]
    BY <1>1
  <2> HIDE DEF kept, overdue
  <2>3. CASE k \in overdue
    <3>1. /\ TimedOut(entries[k]) \in Fields
          /\ TimedOut(entries[k]).req = entries[k].req
          /\ TimedOut(entries[k]).final = TRUE
          /\ TimedOut(entries[k]).status = "timed_out"
      BY <2>1, EndedFields DEF TimedOut, Statuses, FinalStatuses
    <3> QED
      BY <2>2, <2>3, <3>1
  <2>4. CASE k \notin overdue
    BY <2>1, <2>2, <2>4 DEF Fields
  <2> QED
    BY <2>3, <2>4
<1>9. DOMAIN entries' = kept /\ entries' = [k \in DOMAIN entries' |-> entries'[k]]
  BY <1>1
<1> HIDE DEF overdue, kept, For
<1>10. /\ DOMAIN emissions' = DOMAIN emissions
       /\ \A r \in DOMAIN emissions : /\ emissions'[r] \in Nat
                                      /\ emissions'[r] = emissions[r] + Cardinality(For(r))
  BY <1>1, <1>6 DEF Sound, Table
<1>11. emissions' \in Seq(Nat)
  <2>1. emissions' = [i \in 1..Len(emissions) |-> emissions'[i]]
    BY <1>1, <1>10 DEF Sound, Table
  <2> QED
    BY <2>1, <1>10 DEF Sound, Table
<1>12. Table'
  <2>1. IsFiniteSet(kept)
    BY <1>3, FS_Subset DEF Sound, Table
  <2> QED
    BY <2>1, <1>8, <1>9, <1>11 DEF Table
<1>13. Bounded'
  <2>1. /\ Cardinality(kept) <= Cardinality(DOMAIN entries)
        /\ Cardinality(kept) \in Nat
        /\ Cardinality(DOMAIN entries) \in Nat
    BY <1>3, FS_Subset, FS_CardinalityType DEF Sound, Table
  <2> QED
    BY <2>1, <1>9, TrackerAssumption DEF Sound, Bounded
<1>14. Joined'
  <2>1. \A r \in DOMAIN emissions' : emissions'[r] <= 1
    <3> SUFFICES ASSUME NEW r \in DOMAIN emissions PROVE emissions'[r] <= 1
      BY <1>10
    <3>1. emissions[r] <= 1 /\ emissions[r] \in Nat
      BY DEF Sound, Joined, Table
    <3>2. emissions'[r] = emissions[r] + Cardinality(For(r))
      BY <1>10
    <3> QED
      BY <1>6, <3>1, <3>2
  <2>2. \A k \in kept :
          /\ entries'[k].req \in DOMAIN emissions'
          /\ emissions'[entries'[k].req] = IF entries'[k].final THEN 1 ELSE 0
          /\ entries'[k].final <=> entries'[k].status \in FinalStatuses
    <3> SUFFICES ASSUME NEW k \in kept
                 PROVE  /\ entries'[k].req \in DOMAIN emissions'
                        /\ emissions'[entries'[k].req] = IF entries'[k].final THEN 1 ELSE 0
                        /\ entries'[k].final <=> entries'[k].status \in FinalStatuses
      OBVIOUS
    <3>1. k \in DOMAIN entries
      BY <1>3
    <3>2. entries[k].final \in BOOLEAN /\ (k \in overdue => ~entries[k].final)
      BY <3>1, <1>2 DEF Sound, Table, Fields
    <3>3. CASE k \in overdue
      <4>1. /\ entries[k].req \in DOMAIN emissions
            /\ emissions[entries[k].req] = 0
            /\ Cardinality(For(entries[k].req)) = 1
        BY <3>1, <3>2, <3>3, <1>7 DEF Sound, Joined
      <4>2. /\ entries'[k].req = entries[k].req
            /\ entries'[k].final = TRUE
            /\ entries'[k].status = "timed_out"
        BY <3>3, <1>8
      <4>3. emissions'[entries[k].req] = 1
        BY <4>1, <1>10
      <4> QED
        BY <4>1, <4>2, <4>3, <1>10 DEF FinalStatuses
    <3>4. CASE k \notin overdue
      BY <3>1, <3>2, <3>4, <1>7, <1>8, <1>10 DEF Sound, Joined
    <3> QED
      BY <3>3, <3>4
  <2>3. \A j, k \in kept : entries'[j].req = entries'[k].req => j = k
    BY <1>3, <1>8 DEF Sound, Joined
  <2> QED
    BY <2>1, <2>2, <2>3, <1>9 DEF Joined
<1> QED
  BY <1>12, <1>13, <1>14 DEF Sound

LEMMA SoundInit == Init => Sound
<1> SUFFICES ASSUME Init PROVE Sound
  OBVIOUS
<1>1. DOMAIN entries = {} /\ entries = [k \in DOMAIN entries |-> entries[k]]
  BY DEF Init
<1>2. emissions \in Seq(Nat) /\ DOMAIN emissions = {}
  BY DEF Init
<1> QED
  BY <1>1, <1>2, FS_EmptySet, TrackerAssumption DEF Sound, Table, Bounded, Joined

LEMMA SoundStep == Sound /\ [Next]_vars => Sound'
<1> SUFFICES ASSUME Sound, [Next]_vars PROVE Sound'
  OBVIOUS
<1>1. ASSUME NEW k \in Ids, Request(k) PROVE Sound'
  BY <1>1, RequestKeepsSound DEF Request
<1>2. ASSUME UNCHANGED <<entries, emissions>> PROVE Sound'
  BY <1>2 DEF Sound, Table, Bounded, Joined
<1>3. ASSUME NEW k \in Ids, NEW reply \in Ids, NEW status \in {"completed", "partial"},
             Reply(k, reply, status)
      PROVE  Sound'
  <2> DEFINE key == IF k \notin DOMAIN entries /\ reply > 0 THEN reply ELSE k
  <2>1. \/ UNCHANGED <<entries, emissions>>
        \/ key \in DOMAIN entries /\ ~entries[key].final /\ Finish(key, status)
    BY <1>3 DEF Reply, OnReply, Ignore
  <2>2. status \in FinalStatuses
    BY DEF FinalStatuses
  <2> QED
    BY <2>1, <2>2, <1>2, FinishKeepsSound
<1>4. ASSUME NEW k \in Ids, NEW failed \in BOOLEAN, OnRouting(k, failed) PROVE Sound'
  <2>1. \/ UNCHANGED <<entries, emissions>>
        \/ k \in DOMAIN entries /\ ~entries[k].final /\ Finish(k, "failed")
        \/ /\ k \in DOMAIN entries
           /\ entries' = [entries EXCEPT ![k].sinceUpdate = 0]
           /\ emissions' = emissions
    BY <1>4 DEF OnRouting, Ignore
  <2>2. CASE /\ k \in DOMAIN entries
             /\ entries' = [entries EXCEPT ![k].sinceUpdate = 0]
             /\ emissions' = emissions
    <3>1. \A j \in DOMAIN entries : entries[j] \in Fields
      BY DEF Sound, Table
    <3>2. /\ DOMAIN entries' = DOMAIN entries
          /\ entries' = [j \in DOMAIN entries' |-> entries'[j]]
          /\ \A j \in DOMAIN entries :
                entries'[j] = IF j = k THEN [entries[j] EXCEPT !.sinceUpdate = 0] ELSE entries[j]
      BY <2>2 DEF Sound, Table
    <3>3. \A j \in DOMAIN entries :
            /\ entries'[j] \in Fields
            /\ entries'[j].req = entries[j].req
            /\ entries'[j].status = entries[j].status
            /\ entries'[j].final = entries[j].final
      BY <3>1, <3>2 DEF Fields
    <3> QED
      BY <2>2, <3>2, <3>3, AgingKeepsSound
  <2> QED
    BY <2>1, <2>2, <1>2, FinishKeepsSound DEF FinalStatuses
<1>5. CASE Sweep
  BY <1>5, SweepKeepsSound
<1>6. CASE Tick
  <2>1. \A age \in Int : Grown(age) \in Int
    BY DEF Grown
  <2> QED
    BY <1>6, <2>1, AgingKeepsSound DEF Tick, Sound, Table, Fields
<1>7. CASE SetBack
  <2>1. \A k \in DOMAIN entries : entries[k] \in Fields
    BY DEF Sound, Table
  <2>2. /\ DOMAIN entries' = DOMAIN entries
        /\ entries' = [k \in DOMAIN entries' |-> entries'[k]]
        /\ \A k \in DOMAIN entries :
              entries'[k] = [entries[k] EXCEPT !.sinceStart = @ - 1, !.sinceUpdate = @ - 1]
    BY <1>7 DEF SetBack
  <2>3. \A k \in DOMAIN entries :
          /\ entries'[k] \in Fields
          /\ entries'[k].req = entries[k].req
          /\ entries'[k].status = entries[k].status
          /\ entries'[k].final = entries[k].final
    <3> SUFFICES ASSUME NEW k \in DOMAIN entries
                 PROVE  /\ entries'[k] \in Fields
                        /\ entries'[k].req = entries[k].req
                        /\ entries'[k].status = entries[k].status
                        /\ entries'[k].final = entries[k].final
      OBVIOUS
    <3>1. entries[k].sinceStart - 1 \in Int /\ entries[k].sinceUpdate - 1 \in Int
      BY <2>1 DEF Fields
    <3> QED
      BY <2>1, <2>2, <3>1 DEF Fields
  <2> QED
    BY <1>7, <2>2, <2>3, AgingKeepsSound DEF SetBack
<1> QED
  BY <1>1, <1>2, <1>3, <1>4, <1>5, <1>6, <1>7 DEF Next, vars

\* max_entries is never exceeded, however requests, replies, timeouts and set-backs of
\* the clock mix.
THEOREM TableIsBounded == Spec => []Bounded
<1>1. Sound => Bounded
  BY DEF Sound
<1> QED
  BY <1>1, SoundInit, SoundStep, PTL DEF Spec

\* No request is reported twice, and an entry is final exactly when its request has been.
THEOREM ReportedOnce == Spec => []OneLifecycleEach
<1>1. Sound => OneLifecycleEach
  BY DEF Sound, Joined, OneLifecycleEach
<1> QED
  BY <1>1, SoundInit, SoundStep, PTL DEF Spec

----------------------------------------------------------------------------
(* Why an entry leaves                                                     *)

\* What an insert drops, and when: spent entries at any time, overdue ones and one victim
\* from a full table only.
LEMMA EvictionReasons ==
    ASSUME Sound, NEW left \in EvictForInsert(entries), NEW k \in DOMAIN entries \ DOMAIN left
    PROVE  \/ Spent(entries[k])
           \/ ~Room(entries) /\ Overdue(entries[k])
           \/ /\ ~Room(entries)
              /\ IF Live(entries) = {} THEN entries[k].final
                 ELSE /\ ~entries[k].final
                      /\ \A j \in Live(entries) : entries[k].sinceStart >= entries[j].sinceStart
<1> DEFINE spent == {j \in DOMAIN entries : Spent(entries[j])}
           kept  == Dropping(entries, spent)
           late  == {j \in DOMAIN kept : Overdue(kept[j])}
           fresh == Dropping(kept, late)
<1>0. MaxEntries \in Nat \ {0} /\ IsFiniteSet(DOMAIN entries) /\ Cardinality(DOMAIN entries) <= MaxEntries
  BY TrackerAssumption DEF Sound, Table, Bounded
<1> HIDE DEF spent, late
<1>1. DOMAIN kept = DOMAIN entries \ spent /\ \A j \in DOMAIN kept : kept[j] = entries[j]
  BY DEF Dropping, Restrict
<1> HIDE DEF kept
<1>2. DOMAIN fresh = DOMAIN kept \ late /\ \A j \in DOMAIN fresh : fresh[j] = kept[j]
  BY DEF Dropping, Restrict
<1>3. left \in IF Room(kept) THEN {kept}
               ELSE IF Room(fresh) THEN {fresh}
               ELSE {Dropping(fresh, {v}) : v \in Victims(fresh)}
  BY DEF EvictForInsert, spent, kept, late
<1> HIDE DEF fresh
<1>4. /\ DOMAIN kept \in SUBSET DOMAIN entries /\ DOMAIN fresh \in SUBSET DOMAIN entries
      /\ \A j \in DOMAIN fresh : fresh[j] = entries[j]
  BY <1>1, <1>2
<1>5. /\ Cardinality(DOMAIN entries) \in Nat
      /\ Cardinality(DOMAIN kept) \in Nat /\ Cardinality(DOMAIN kept) <= Cardinality(DOMAIN entries)
      /\ Cardinality(DOMAIN fresh) \in Nat /\ Cardinality(DOMAIN fresh) <= Cardinality(DOMAIN entries)
      /\ Cardinality(DOMAIN fresh) = Cardinality(DOMAIN entries) => DOMAIN fresh = DOMAIN entries
  BY <1>0, <1>4, FS_Subset, FS_CardinalityType
<1>6. CASE k \in spent
  BY <1>6 DEF spent
<1>7. CASE k \notin spent /\ Room(kept)
  BY <1>1, <1>3, <1>7
<1>8. CASE k \notin spent /\ ~Room(kept)
  <2>1. ~Room(entries)
    BY <1>0, <1>5, <1>8 DEF Room
  <2>2. CASE k \in late
    BY <1>1, <2>1, <2>2 DEF late
  <2>3. CASE k \notin late
    <3>1. k \in DOMAIN fresh
      BY <1>1, <1>2, <1>8, <2>3
    <3>2. ~Room(fresh) /\ left \in {Dropping(fresh, {v}) : v \in Victims(fresh)}
      BY <1>3, <1>8, <3>1
    <3>3. k \in Victims(fresh)
      <4>1. PICK v \in Victims(fresh) : left = Dropping(fresh, {v})
        BY <3>2
      <4>2. DOMAIN left = DOMAIN fresh \ {v}
        BY <4>1, DroppingRestricts
      <4>3. QED
        BY <3>1, <4>1, <4>2
    <3>4. DOMAIN fresh = DOMAIN entries
      BY <1>0, <1>5, <3>2 DEF Room
    <3>5. Live(fresh) = Live(entries) /\ Live(entries) \subseteq DOMAIN entries
      BY <1>4, <3>4 DEF Live
    <3>6. CASE Live(entries) = {}
      BY <2>1, <3>6 DEF Live
    <3>7. CASE Live(entries) # {}
      <4>1. k \in Live(fresh) /\ \A j \in Live(fresh) : fresh[k].sinceStart >= fresh[j].sinceStart
        BY <3>3, <3>5, <3>7 DEF Victims
      <4>2. ~entries[k].final
        BY <3>5, <4>1 DEF Live
      <4>3. \A j \in Live(entries) : entries[k].sinceStart >= entries[j].sinceStart
        BY <1>4, <3>1, <3>4, <3>5, <4>1
      <4>4. QED
        BY <2>1, <3>7, <4>2, <4>3
    <3>8. QED
      BY <3>6, <3>7
  <2>4. QED
    BY <2>2, <2>3
<1>9. QED
  BY <1>6, <1>7, <1>8

\* How often the clock was set back is a number.
Counted == setbacks \in Nat

\* What LeavesForReason says of one step.
Reasoned ==
    \A k \in DOMAIN entries :
        IF entries[k].final THEN OutcomeKept(k) \/ FinishedEntryLeaves(k)
        ELSE TrackedBy(entries', entries[k].req) \/ WaitingEntryLeaves(k)

\* An entry that stays under its key with its request and outcome, no younger than the
\* clock allows, has nothing to answer for.
LEMMA StayingIsReasoned ==
    ASSUME NEW k \in DOMAIN entries, k \in DOMAIN entries',
           entries'[k].req = entries[k].req,
           entries[k].final => /\ entries'[k].status = entries[k].status
                               /\ entries'[k].sinceUpdate >= entries[k].sinceUpdate - (setbacks' - setbacks)
    PROVE  IF entries[k].final THEN OutcomeKept(k) ELSE TrackedBy(entries', entries[k].req)
BY DEF OutcomeKept, TrackedBy

LEMMA RequestReasoned ==
    ASSUME Sound, setbacks \in Nat, NEW id \in Ids, OnRequest(id)
    PROVE  Reasoned
<1> DEFINE n == Len(emissions) + 1
           e == [req |-> n, sinceStart |-> 0, sinceUpdate |-> 0,
                 status |-> "requested", final |-> FALSE]
<1>1. PICK left \in EvictForInsert(entries) : entries' = Put(left, id, e)
  BY DEF OnRequest
<1>2. DOMAIN left \subseteq DOMAIN entries /\ \A j \in DOMAIN left : left[j] = entries[j]
  BY EvictionMakesRoom DEF Sound, Table, Bounded
<1>3. /\ DOMAIN entries' = DOMAIN left \cup {id}
      /\ entries'[id].req = n
      /\ \A j \in DOMAIN left : j # id => entries'[j] = entries[j]
  BY <1>1, <1>2 DEF Put
<1>4. Len(emissions') = n
  BY DEF OnRequest, Sound, Table
<1> HIDE DEF n, e
<1> SUFFICES ASSUME NEW k \in DOMAIN entries
             PROVE  IF entries[k].final THEN OutcomeKept(k) \/ FinishedEntryLeaves(k)
                    ELSE TrackedBy(entries', entries[k].req) \/ WaitingEntryLeaves(k)
  BY DEF Reasoned
<1>5. CASE k = id
  BY <1>3, <1>4, <1>5 DEF FinishedEntryLeaves, WaitingEntryLeaves, Overwritten
<1>6. CASE k # id /\ k \in DOMAIN left
  <2>1. entries[k].sinceUpdate \in Int /\ setbacks' = setbacks
    BY DEF Sound, Table, Fields, OnRequest
  <2>2. k \in DOMAIN entries' /\ entries'[k] = entries[k]
    BY <1>3, <1>6
  <2>3. QED
    BY <2>1, <2>2, StayingIsReasoned
<1>7. CASE k \notin DOMAIN left
  <2>1. \/ Spent(entries[k])
        \/ ~Room(entries) /\ Overdue(entries[k])
        \/ /\ ~Room(entries)
           /\ IF Live(entries) = {} THEN entries[k].final
              ELSE /\ ~entries[k].final
                   /\ \A j \in Live(entries) : entries[k].sinceStart >= entries[j].sinceStart
    BY <1>7, EvictionReasons
  <2>2. QED
    BY <2>1 DEF FinishedEntryLeaves, WaitingEntryLeaves, Spent, Overdue
<1>8. QED
  BY <1>5, <1>6, <1>7

\* Ending an entry leaves the others alone and its request in the table.
LEMMA FinishReasoned ==
    ASSUME Sound, setbacks \in Nat, setbacks' = setbacks,
           NEW id \in DOMAIN entries, ~entries[id].final,
           NEW e, e.req = entries[id].req, entries' = [entries EXCEPT ![id] = e]
    PROVE  Reasoned
<1> SUFFICES ASSUME NEW k \in DOMAIN entries
             PROVE  IF entries[k].final THEN OutcomeKept(k) ELSE TrackedBy(entries', entries[k].req)
  BY DEF Reasoned
<1>1. k \in DOMAIN entries' /\ entries'[k] = IF k = id THEN e ELSE entries[k]
  BY DEF Sound, Table
<1>2. entries[k].sinceUpdate \in Int
  BY DEF Sound, Table, Fields
<1>3. CASE k = id
  <2>1. entries'[k].req = entries[k].req
    BY <1>1, <1>3
  <2>2. QED
    BY <1>1, <1>3, <2>1 DEF TrackedBy
<1>4. CASE k # id
  <2>1. k \in DOMAIN entries' /\ entries'[k] = entries[k]
    BY <1>1, <1>4
  <2>2. entries'[k].sinceUpdate >= entries[k].sinceUpdate - (setbacks' - setbacks)
    BY <1>2, <2>1
  <2>3. QED
    BY <2>1, <2>2 DEF OutcomeKept, TrackedBy
<1>5. QED
  BY <1>3, <1>4

\* A sweep deletes what is spent.
LEMMA SweepReasoned ==
    ASSUME Sound, setbacks \in Nat, Sweep
    PROVE  Reasoned
<1> SUFFICES ASSUME NEW k \in DOMAIN entries
             PROVE  IF entries[k].final THEN OutcomeKept(k) \/ FinishedEntryLeaves(k)
                    ELSE TrackedBy(entries', entries[k].req) \/ WaitingEntryLeaves(k)
  BY DEF Reasoned
<1>1. CASE Spent(entries[k])
  BY <1>1 DEF Spent, FinishedEntryLeaves
<1>2. CASE ~Spent(entries[k])
  <2>1. /\ k \in DOMAIN entries'
        /\ entries'[k] = IF Overdue(entries[k]) THEN TimedOut(entries[k]) ELSE entries[k]
    BY <1>2 DEF Sweep
  <2>2. entries[k] \in Fields /\ setbacks' = setbacks
    BY DEF Sound, Table, Sweep
  <2>3. entries'[k].req = entries[k].req
    <3>1. "timed_out" \in Statuses
      BY DEF Statuses, FinalStatuses
    <3>2. TimedOut(entries[k]).req = entries[k].req
      BY <2>2, <3>1, EndedFields DEF TimedOut
    <3>3. QED
      BY <2>1, <3>2
  <2>4. entries[k].final => entries'[k] = entries[k]
    BY <2>1 DEF Overdue
  <2>5. entries[k].sinceUpdate \in Int
    BY <2>2 DEF Fields
  <2>6. QED
    BY <2>1, <2>2, <2>3, <2>4, <2>5, StayingIsReasoned
<1>3. QED
  BY <1>1, <1>2

\* Time and set-backs of the clock change ages only.
LEMMA AgingReasoned ==
    ASSUME Sound, setbacks \in Nat, Tick \/ SetBack
    PROVE  Reasoned
<1> SUFFICES ASSUME NEW k \in DOMAIN entries
             PROVE  IF entries[k].final THEN OutcomeKept(k) ELSE TrackedBy(entries', entries[k].req)
  BY DEF Reasoned
<1>1. entries[k] \in Fields
  BY DEF Sound, Table
<1>2. /\ k \in DOMAIN entries'
      /\ entries'[k].req = entries[k].req
      /\ entries'[k].status = entries[k].status
      /\ entries'[k].sinceUpdate >= entries[k].sinceUpdate - (setbacks' - setbacks)
  <2>1. CASE Tick
    <3>1. \A age \in Int : Grown(age) \in Int /\ Grown(age) >= age
      BY DEF Grown
    <3>2. entries'[k] = [entries[k] EXCEPT !.sinceStart = Grown(@), !.sinceUpdate = Grown(@)]
          /\ k \in DOMAIN entries' /\ setbacks' = setbacks
      BY <2>1 DEF Tick
    <3>3. QED
      BY <1>1, <3>1, <3>2 DEF Fields
  <2>2. CASE SetBack
    <3>1. entries'[k] = [entries[k] EXCEPT !.sinceStart = @ - 1, !.sinceUpdate = @ - 1]
          /\ k \in DOMAIN entries' /\ setbacks' = setbacks + 1
      BY <2>2 DEF SetBack
    <3>2. QED
      BY <1>1, <3>1 DEF Fields
  <2>3. QED
    BY <2>1, <2>2
<1>3. QED
  BY <1>2, StayingIsReasoned

LEMMA StepReasoned == Sound /\ Counted /\ [Next]_vars => [Reasoned]_vars
<1> SUFFICES ASSUME Sound, Counted, Next PROVE Reasoned
  OBVIOUS
<1>0. setbacks \in Nat
  BY DEF Counted
<1>1. ASSUME NEW k \in Ids, Request(k) PROVE Reasoned
  BY <1>0, <1>1, RequestReasoned DEF Request
<1>2. ASSUME UNCHANGED <<entries, setbacks>> PROVE Reasoned
  <2> SUFFICES ASSUME NEW k \in DOMAIN entries
               PROVE  IF entries[k].final THEN OutcomeKept(k) ELSE TrackedBy(entries', entries[k].req)
    BY DEF Reasoned
  <2>1. entries[k].sinceUpdate \in Int
    BY DEF Sound, Table, Fields
  <2>2. QED
    BY <1>0, <1>2, <2>1, StayingIsReasoned
<1>3. ASSUME NEW id \in DOMAIN entries, ~entries[id].final, NEW status \in FinalStatuses,
             Finish(id, status), setbacks' = setbacks
      PROVE  Reasoned
  <2>1. entries' = [entries EXCEPT ![id] = Ended(entries[id], status)]
    BY <1>3 DEF Finish, Sound, Table
  <2>2. Ended(entries[id], status).req = entries[id].req
    BY EndedFields DEF Sound, Table, Statuses
  <2>3. QED
    BY <1>0, <1>3, <2>1, <2>2, FinishReasoned
<1>4. ASSUME NEW k \in Ids, NEW reply \in Ids, NEW status \in {"completed", "partial"},
             Reply(k, reply, status)
      PROVE  Reasoned
  <2> DEFINE key == IF k \notin DOMAIN entries /\ reply > 0 THEN reply ELSE k
  <2>1. /\ setbacks' = setbacks
        /\ \/ UNCHANGED entries
           \/ key \in DOMAIN entries /\ ~entries[key].final /\ Finish(key, status)
    BY <1>4 DEF Reply, OnReply, Ignore
  <2>2. status \in FinalStatuses
    BY DEF FinalStatuses
  <2>3. QED
    BY <1>2, <1>3, <2>1, <2>2
<1>5. ASSUME NEW k \in Ids, NEW failed \in BOOLEAN, OnRouting(k, failed) PROVE Reasoned
  <2>1. /\ setbacks' = setbacks
        /\ \/ UNCHANGED entries
           \/ k \in DOMAIN entries /\ ~entries[k].final /\ Finish(k, "failed")
           \/ /\ k \in DOMAIN entries /\ ~entries[k].final
              /\ entries' = [entries EXCEPT ![k].sinceUpdate = 0]
    BY <1>5 DEF OnRouting, Ignore
  <2>2. CASE /\ k \in DOMAIN entries /\ ~entries[k].final
             /\ entries' = [entries EXCEPT ![k].sinceUpdate = 0]
    <3> DEFINE e == [entries[k] EXCEPT !.sinceUpdate = 0]
    <3>1. e.req = entries[k].req
      BY <2>2 DEF Sound, Table, Fields
    <3>2. entries' = [entries EXCEPT ![k] = e]
      BY <2>2
    <3>3. QED
      BY <1>0, <2>1, <2>2, <3>1, <3>2, FinishReasoned
  <2>3. "failed" \in FinalStatuses
    BY DEF FinalStatuses
  <2>4. QED
    BY <1>2, <1>3, <2>1, <2>2, <2>3
<1>6. CASE Sweep
  BY <1>0, <1>6, SweepReasoned
<1>7. CASE Tick \/ SetBack
  BY <1>0, <1>7, AgingReasoned
<1>8. QED
  BY <1>1, <1>4, <1>5, <1>6, <1>7 DEF Next

\* A waiting request leaves the table only when its id is asked for again or the table is
\* full, and a finished one only when it is spent, too, or no waiting one was left to give
\* way; until then its outcome stays.
THEOREM NoneLeavesWithoutReason == Spec => LeavesForReason
<1>1. Init => Counted
  BY DEF Init, Counted
<1>2. Counted /\ [Next]_vars => Counted'
  <2> SUFFICES ASSUME Counted, [Next]_vars PROVE setbacks' = setbacks \/ setbacks' = setbacks + 1
    BY DEF Counted
  <2>1. ASSUME NEW k \in Ids, NEW failed \in BOOLEAN, OnRouting(k, failed) PROVE setbacks' = setbacks
    BY <2>1 DEF OnRouting
  <2>2. ASSUME NEW k \in Ids, NEW reply \in Ids, NEW status, Reply(k, reply, status)
        PROVE  setbacks' = setbacks
    BY <2>2 DEF Reply, OnReply
  <2>3. ASSUME NEW k \in Ids, Request(k) PROVE setbacks' = setbacks
    BY <2>3 DEF Request, OnRequest
  <2>4. CASE Sweep \/ Tick \/ SetBack
    BY <2>4 DEF Sweep, Tick, SetBack
  <2>5. QED
    BY <2>1, <2>2, <2>3, <2>4 DEF Next, vars
<1>3. QED
  BY <1>1, <1>2, SoundInit, SoundStep, StepReasoned, PTL DEF Spec, LeavesForReason, Reasoned

----------------------------------------------------------------------------
(* The table that Ingest is built on                                       *)

KeyedById == DOMAIN entries \subseteq Ids

LEMMA KeyedStep == KeyedById /\ [Next]_vars => KeyedById'
<1> SUFFICES ASSUME KeyedById, [Next]_vars PROVE KeyedById'
  OBVIOUS
<1>1. ASSUME NEW k \in Ids, Request(k) PROVE KeyedById'
  <2>1. PICK left \in EvictForInsert(entries) : DOMAIN entries' = DOMAIN left \cup {k}
    BY <1>1 DEF Request, OnRequest, Put
  <2>2. DOMAIN left \subseteq DOMAIN entries
    BY DEF EvictForInsert, Dropping, Restrict
  <2>3. QED
    BY <2>1, <2>2 DEF KeyedById
<1>2. ASSUME NEW k \in Ids, NEW reply \in Ids, NEW status, Reply(k, reply, status) PROVE KeyedById'
  BY <1>2 DEF Reply, OnReply, Finish, Ignore, KeyedById
<1>3. ASSUME NEW k \in Ids, NEW failed \in BOOLEAN, OnRouting(k, failed) PROVE KeyedById'
  BY <1>3 DEF OnRouting, Finish, Ignore, KeyedById
<1>4. CASE Sweep \/ Tick \/ SetBack
  BY <1>4 DEF Sweep, Tick, SetBack, KeyedById
<1>5. CASE UNCHANGED vars
  BY <1>5 DEF vars, KeyedById
<1>6. QED
  BY <1>1, <1>2, <1>3, <1>4, <1>5 DEF Next

\* An entry is one that is held, and is open or final as it is.
LEMMA RequestsTell ==
    ASSUME NEW es, DOMAIN es \subseteq Ids, \A k \in DOMAIN es : es[k] \in Fields
    PROVE  /\ DOMAIN Requests(es) = Ids
           /\ \A k \in DOMAIN es :
                 /\ Requests(es)[k] = [key |-> <<es[k].req>>, final |-> es[k].final]
                 /\ Requests(es)[k] \in [key: {<<es[k].req>>}, final: BOOLEAN]
                 /\ Requests(es)[k].key = <<es[k].req>>
           /\ \A k \in Ids \ DOMAIN es : Requests(es)[k] = NoEntry
           /\ Held(Requests(es)) = DOMAIN es
           /\ Finals(Requests(es)) = {k \in DOMAIN es : es[k].final}
           /\ Opens(Requests(es)) = {k \in DOMAIN es : ~es[k].final}
<1> DEFINE t == Requests(es)
<1>1. /\ DOMAIN t = Ids
      /\ \A k \in DOMAIN es : t[k] = [key |-> <<es[k].req>>, final |-> es[k].final]
      /\ \A k \in Ids \ DOMAIN es : t[k] = NoEntry
  BY DEF Requests
<1> HIDE DEF t
<1>2. ASSUME NEW k \in DOMAIN es
      PROVE  /\ t[k] # NoEntry /\ (t[k].final <=> es[k].final)
             /\ t[k] \in [key: {<<es[k].req>>}, final: BOOLEAN] /\ t[k].key = <<es[k].req>>
  <2>1. /\ t[k].key = <<es[k].req>> /\ (t[k].final <=> es[k].final)
        /\ t[k] \in [key: {<<es[k].req>>}, final: BOOLEAN]
    <3>1. es[k].final \in BOOLEAN
      BY DEF Fields
    <3>2. PICK c \in BOOLEAN : c = es[k].final
      BY <3>1
    <3>3. t[k] = [key |-> <<es[k].req>>, final |-> c]
      BY <1>1, <3>2
    <3>4. QED
      BY <3>2, <3>3
  <2>2. NoEntry.key = <<>>
    BY DEF NoEntry
  <2>3. <<es[k].req>> # <<>>
    OBVIOUS
  <2>4. QED
    BY <2>1, <2>2, <2>3
<1>3. ASSUME NEW k \in Ids \ DOMAIN es PROVE t[k] = NoEntry /\ ~t[k].final
  BY <1>1 DEF NoEntry
<1>4. Held(t) = DOMAIN es
  BY <1>1, <1>2, <1>3 DEF Held
<1>5. Finals(t) = {k \in DOMAIN es : es[k].final}
  BY <1>1, <1>2, <1>3 DEF Finals
<1>6. Opens(t) = {k \in DOMAIN es : ~es[k].final}
  BY <1>4, <1>5 DEF Opens
<1>7. QED
  BY <1>1, <1>2, <1>4, <1>5, <1>6 DEF t

LEMMA EntryEnds ==
    ASSUME NEW K, NEW e \in [key: K, final: BOOLEAN], NEW final \in BOOLEAN
    PROVE  [e EXCEPT !.final = final] = [key |-> e.key, final |-> final]
OBVIOUS

\* Ages and statuses are not told.
LEMMA AgesUntold ==
    ASSUME NEW es, NEW fs, DOMAIN fs = DOMAIN es,
           \A k \in DOMAIN es : fs[k].req = es[k].req /\ fs[k].final = es[k].final
    PROVE  Requests(fs) = Requests(es)
BY DEF Requests

\* The reply or error that ends an open request.
LEMMA FinishImplements ==
    ASSUME Sound, KeyedById, NEW k \in DOMAIN entries, ~entries[k].final,
           NEW status \in FinalStatuses, Finish(k, status)
    PROVE  Outcome' = Answered(Requests(entries), k)
<1>1. PICK t : t = Requests(entries)
  OBVIOUS
<1>2. PICK u : u = Requests(entries')
  OBVIOUS
<1>3. /\ DOMAIN entries' = DOMAIN entries
      /\ \A j \in DOMAIN entries : j # k => entries'[j] = entries[j]
      /\ entries'[k].req = entries[k].req
      /\ entries'[k].final = TRUE
  <2>1. entries[k] \in Fields /\ status \in Statuses
    BY DEF Sound, Table, Statuses
  <2>2. entries' = [entries EXCEPT ![k] = Ended(entries[k], status)]
    BY DEF Finish
  <2>3. QED
    BY <2>1, <2>2, EndedFields
<1>4. /\ DOMAIN t = Ids /\ t[k] = [key |-> <<entries[k].req>>, final |-> entries[k].final]
      /\ k \in Opens(t) /\ k \in Ids
  <2>1. DOMAIN entries \subseteq Ids /\ \A j \in DOMAIN entries : entries[j] \in Fields
    BY DEF KeyedById, Sound, Table
  <2>2. QED
    BY <1>1, <2>1, RequestsTell
<1>5. u = [t EXCEPT ![k].final = TRUE]
  <2>1. [t[k] EXCEPT !.final = TRUE] = [key |-> <<entries[k].req>>, final |-> TRUE]
    <3>1. entries[k].final \in BOOLEAN
      BY DEF Sound, Table, Fields
    <3>2. t[k] \in [key: {<<entries[k].req>>}, final: BOOLEAN] /\ t[k].key = <<entries[k].req>>
      BY <1>4, <3>1
    <3>3. QED
      BY <3>2, EntryEnds, Zenon
  <2>2. u = [i \in Ids |-> IF i = k THEN [key |-> <<entries[k].req>>, final |-> TRUE] ELSE t[i]]
    BY <1>1, <1>2, <1>3 DEF Requests
  <2>3. QED
    BY <1>4, <2>1, <2>2
<1>6. {<<l.req>> : l \in result'.lifecycles} = {t[k].key}
  <2>1. result'.lifecycles = {[req |-> entries[k].req, status |-> status]}
    BY DEF Finish
  <2>2. QED
    BY <1>4, <2>1
<1>7. result'.suppress = TRUE
  BY DEF Finish
<1>8. Outcome' = [table |-> u, suppress |-> TRUE, reports |-> {t[k].key}]
  BY <1>2, <1>6, <1>7 DEF Outcome
<1>9. Answered(t, k) = [table |-> u, suppress |-> TRUE, reports |-> {t[k].key}]
  BY <1>4, <1>5 DEF Answered
<1>10. QED
  BY <1>1, <1>8, <1>9

\* An operation that finds nothing to do, or an ended request that it keeps out of the log.
LEMMA IgnoreImplements ==
    ASSUME Sound, KeyedById
    PROVE  /\ Ignore(Nothing) => Outcome' = Same(Requests(entries), FALSE)
           /\ \A k \in DOMAIN entries : entries[k].final /\ Ignore(Suppress) =>
                 Outcome' = Answered(Requests(entries), k)
<1>1. \A k \in DOMAIN entries : entries[k].final =>
         k \notin Opens(Requests(entries)) /\ k \in Finals(Requests(entries))
  <2>1. DOMAIN entries \subseteq Ids /\ \A j \in DOMAIN entries : entries[j] \in Fields
    BY DEF KeyedById, Sound, Table
  <2>2. QED
    BY <2>1, RequestsTell
<1>2. ASSUME Ignore(Nothing) PROVE Outcome' = Same(Requests(entries), FALSE)
  <2>1. entries' = entries /\ result'.suppress = FALSE /\ result'.lifecycles = {}
    BY <1>2 DEF Ignore, Nothing
  <2>2. {<<l.req>> : l \in result'.lifecycles} = {}
    BY <2>1
  <2>3. QED
    BY <2>1, <2>2 DEF Outcome, Same
<1>3. ASSUME NEW k \in DOMAIN entries, entries[k].final, Ignore(Suppress)
      PROVE  Outcome' = Answered(Requests(entries), k)
  <2>1. entries' = entries /\ result'.suppress = TRUE /\ result'.lifecycles = {}
    BY <1>3 DEF Ignore, Suppress
  <2>2. {<<l.req>> : l \in result'.lifecycles} = {}
    BY <2>1
  <2>3. Outcome' = Same(Requests(entries), TRUE)
    BY <2>1, <2>2 DEF Outcome, Same
  <2>4. k \notin Opens(Requests(entries)) /\ k \in Finals(Requests(entries))
    BY <1>1, <1>3
  <2>5. Silenced(Requests(entries), k) = TRUE
    BY <2>4 DEF Silenced
  <2>6. QED
    BY <2>3, <2>4, <2>5 DEF Answered
<1>4. QED
  BY <1>2, <1>3

\* Steps that change ages only, and report nothing.
LEMMA AgingImplements ==
    ASSUME DOMAIN entries' = DOMAIN entries,
           \A k \in DOMAIN entries : /\ entries'[k].req = entries[k].req
                                     /\ entries'[k].final = entries[k].final,
           result'.lifecycles = {}
    PROVE  Outcome' = Same(Requests(entries), result'.suppress)
<1>1. Requests(entries') = Requests(entries)
  BY AgesUntold
<1>2. {<<l.req>> : l \in result'.lifecycles} = {}
  OBVIOUS
<1>3. QED
  BY <1>1, <1>2 DEF Outcome, Same

SpentIn(es) == {k \in DOMAIN es : Spent(es[k])}

\* The sweep reports the overdue and forgets the spent.
LEMMA SweepImplements ==
    ASSUME Sound, KeyedById, Sweep
    PROVE  \E overdue \in SUBSET Opens(Requests(entries)), spent \in SUBSET Finals(Requests(entries)) :
              Outcome' = Swept(Requests(entries), overdue, spent)
<1>1. PICK t : t = Requests(entries)
  OBVIOUS
<1>2. PICK u : u = Requests(entries')
  OBVIOUS
<1>3. PICK overdue : overdue = {k \in DOMAIN entries : Overdue(entries[k])}
  OBVIOUS
<1>4. PICK spent : spent = SpentIn(entries)
  OBVIOUS
<1>5. /\ DOMAIN entries \subseteq Ids
      /\ \A j \in DOMAIN entries : entries[j] \in Fields
  BY DEF KeyedById, Sound, Table
<1>6. /\ DOMAIN t = Ids
      /\ \A k \in DOMAIN entries : /\ t[k] = [key |-> <<entries[k].req>>, final |-> entries[k].final]
                                    /\ t[k] \in [key: {<<entries[k].req>>}, final: BOOLEAN]
                                    /\ t[k].key = <<entries[k].req>>
      /\ \A k \in Ids \ DOMAIN entries : t[k] = NoEntry
      /\ Finals(t) = {k \in DOMAIN entries : entries[k].final}
      /\ Opens(t) = {k \in DOMAIN entries : ~entries[k].final}
  BY <1>1, <1>5, RequestsTell
<1>7. overdue \in SUBSET Opens(t) /\ spent \in SUBSET Finals(t)
  BY <1>3, <1>4, <1>6 DEF Overdue, Spent, SpentIn
<1>8. /\ DOMAIN entries' = DOMAIN entries \ spent
      /\ \A k \in DOMAIN entries' : entries'[k] = IF k \in overdue THEN TimedOut(entries[k]) ELSE entries[k]
  <2>1. DOMAIN entries \ spent = {k \in DOMAIN entries : ~Spent(entries[k])}
    BY <1>4 DEF SpentIn
  <2>2. QED
    BY <1>3, <2>1 DEF Sweep
<1>9. ASSUME NEW i \in Ids
      PROVE  u[i] = IF i \in spent THEN NoEntry ELSE [t[i] EXCEPT !.final = @ \/ i \in overdue]
  <2>1. CASE i \in spent
    BY <1>2, <1>8, <2>1 DEF Requests
  <2>2. CASE i \notin DOMAIN entries
    <3>1. u[i] = NoEntry /\ t[i] = NoEntry /\ i \notin spent /\ i \notin overdue
      BY <1>2, <1>6, <1>7, <1>8, <2>2 DEF Requests
    <3>2. NoEntry \in [key: {<<>>}, final: BOOLEAN] /\ (NoEntry.final \/ i \in overdue) = FALSE
      BY <3>1 DEF NoEntry
    <3>3. [NoEntry EXCEPT !.final = FALSE] = [key |-> NoEntry.key, final |-> FALSE]
      BY <3>2, EntryEnds, Zenon
    <3>4. [key |-> NoEntry.key, final |-> FALSE] = NoEntry
      BY DEF NoEntry
    <3>5. QED
      BY <3>1, <3>2, <3>3, <3>4
  <2>3. CASE i \in DOMAIN entries /\ i \notin spent
    <3>1. entries[i].final \in BOOLEAN
      BY <1>5, <2>3 DEF Fields
    <3>2. /\ t[i] \in [key: {<<entries[i].req>>}, final: BOOLEAN]
          /\ t[i].key = <<entries[i].req>>
          /\ t[i].final = entries[i].final
      <4>1. /\ t[i] = [key |-> <<entries[i].req>>, final |-> entries[i].final]
            /\ t[i] \in [key: {<<entries[i].req>>}, final: BOOLEAN]
            /\ t[i].key = <<entries[i].req>>
        BY <1>6, <2>3
      <4>2. PICK c \in BOOLEAN : c = entries[i].final
        BY <3>1
      <4>3. t[i].final = c
        <5>1. t[i] = [key |-> <<entries[i].req>>, final |-> c]
          BY <4>1, <4>2
        <5>2. QED
          BY <5>1
      <4>4. QED
        BY <4>1, <4>2, <4>3
    <3>3. PICK c \in BOOLEAN : c = (t[i].final \/ i \in overdue)
      OBVIOUS
    <3>4. [t[i] EXCEPT !.final = c] = [key |-> <<entries[i].req>>, final |-> c]
      <4>1. [t[i] EXCEPT !.final = c] = [key |-> t[i].key, final |-> c]
        BY <3>2, EntryEnds, Zenon
      <4>2. QED
        BY <3>2, <4>1
    <3>5. [t[i] EXCEPT !.final = @ \/ i \in overdue] = [t[i] EXCEPT !.final = c]
      BY <3>3
    <3>6. entries'[i].req = entries[i].req /\ entries'[i].final = c
      <4>1. CASE i \in overdue
        <5>1. entries'[i] = TimedOut(entries[i])
          BY <1>8, <2>3, <4>1
        <5>2. TimedOut(entries[i]).req = entries[i].req /\ TimedOut(entries[i]).final = TRUE
          BY <1>5, <2>3, EndedFields DEF TimedOut, Statuses, FinalStatuses
        <5>3. c = TRUE
          BY <3>3, <4>1
        <5>4. QED
          BY <5>1, <5>2, <5>3
      <4>2. CASE i \notin overdue
        <5>1. c = entries[i].final
          BY <3>1, <3>2, <3>3, <4>2
        <5>2. QED
          BY <1>8, <2>3, <4>2, <5>1
      <4>3. QED
        BY <4>1, <4>2
    <3>7. u[i] = [key |-> <<entries[i].req>>, final |-> c]
      BY <1>2, <1>8, <2>3, <3>6 DEF Requests
    <3>8. QED
      BY <2>3, <3>4, <3>5, <3>7
  <2>4. QED
    BY <2>1, <2>2, <2>3
<1>10. u = [i \in DOMAIN t |-> IF i \in spent THEN NoEntry ELSE [t[i] EXCEPT !.final = @ \/ i \in overdue]]
  BY <1>2, <1>6, <1>9 DEF Requests
<1>11. {<<l.req>> : l \in result'.lifecycles} = {t[i].key : i \in overdue} /\ result'.suppress = FALSE
  <2>1. /\ result'.lifecycles = {[req |-> entries[k].req, status |-> "timed_out"] : k \in overdue}
        /\ result'.suppress = FALSE
    BY <1>3 DEF Sweep
  <2>2. \A i \in overdue : i \in DOMAIN entries /\ t[i].key = <<entries[i].req>>
    BY <1>3, <1>6
  <2>3. ASSUME NEW r PROVE r \in {<<l.req>> : l \in result'.lifecycles} <=> \E i \in overdue : r = t[i].key
    <3>1. r \in {<<l.req>> : l \in result'.lifecycles} <=> \E l \in result'.lifecycles : r = <<l.req>>
      OBVIOUS
    <3>2. ASSUME NEW l \in result'.lifecycles, r = <<l.req>>
          PROVE  \E i \in overdue : r = <<entries[i].req>>
      <4>1. PICK i \in overdue : l = [req |-> entries[i].req, status |-> "timed_out"]
        BY <2>1
      <4>2. l.req = entries[i].req
        BY <4>1
      <4>3. QED
        BY <3>2, <4>2
    <3>3. ASSUME NEW i \in overdue, r = <<entries[i].req>>
          PROVE  \E l \in result'.lifecycles : r = <<l.req>>
      <4>1. PICK l : l = [req |-> entries[i].req, status |-> "timed_out"]
        OBVIOUS
      <4>2. l \in result'.lifecycles
        BY <2>1, <4>1
      <4>3. l.req = entries[i].req
        BY <4>1
      <4>4. QED
        BY <3>3, <4>2, <4>3
    <3>4. (\E i \in overdue : r = <<entries[i].req>>) <=> \E i \in overdue : r = t[i].key
      BY <2>2
    <3>5. QED
      BY <3>1, <3>2, <3>3, <3>4
  <2>4. QED
    BY <2>1, <2>3
<1>12. Outcome' = [table |-> u, suppress |-> FALSE, reports |-> {t[i].key : i \in overdue}]
  BY <1>2, <1>11 DEF Outcome
<1>13. Outcome' = Swept(t, overdue, spent)
  BY <1>10, <1>12 DEF Swept
<1>14. QED
  BY <1>1, <1>7, <1>13
\* The spent always go; any other goes only when the rest fill the table.
LEMMA EvictionSpares ==
    ASSUME NEW es, IsFiniteSet(DOMAIN es), NEW left \in EvictForInsert(es)
    PROVE  /\ SpentIn(es) \cap DOMAIN left = {}
           /\ \/ DOMAIN es \ DOMAIN left \subseteq SpentIn(es)
              \/ Cardinality(DOMAIN es \ SpentIn(es)) >= MaxEntries
<1> DEFINE kept  == Dropping(es, SpentIn(es))
           fresh == Dropping(kept, {k \in DOMAIN kept : Overdue(kept[k])})
<1>1. DOMAIN kept = DOMAIN es \ SpentIn(es)
  BY DroppingRestricts
<1>2. DOMAIN fresh \subseteq DOMAIN kept
  BY DEF Dropping, Restrict
<1>3. left \in IF Room(kept) THEN {kept}
               ELSE IF Room(fresh) THEN {fresh}
               ELSE {Dropping(fresh, {v}) : v \in Victims(fresh)}
  BY DEF EvictForInsert, SpentIn
<1>4. Cardinality(DOMAIN kept) \in Nat /\ MaxEntries \in Nat
  <2>1. IsFiniteSet(DOMAIN kept)
    BY <1>1, FS_Subset
  <2>2. QED
    BY <2>1, FS_CardinalityType, TrackerAssumption
<1> HIDE DEF kept, fresh
<1>5. DOMAIN left \subseteq DOMAIN kept
  <2>1. CASE Room(kept) \/ Room(fresh)
    BY <1>2, <1>3, <2>1
  <2>2. CASE ~Room(kept) /\ ~Room(fresh)
    <3>1. PICK v : left = Dropping(fresh, {v})
      BY <1>3, <2>2
    <3>2. DOMAIN left \subseteq DOMAIN fresh
      BY <3>1, DroppingRestricts
    <3>3. QED
      BY <1>2, <3>2
  <2>3. QED
    BY <2>1, <2>2
<1>6. CASE Room(kept)
  BY <1>1, <1>3, <1>6
<1>7. CASE ~Room(kept)
  <2>1. Cardinality(DOMAIN kept) >= MaxEntries
    BY <1>4, <1>7 DEF Room
  <2>2. QED
    BY <1>1, <1>5, <2>1
<1>8. QED
  BY <1>6, <1>7

\* A request is noted under its id, and what left made room for it.
LEMMA RequestImplements ==
    ASSUME Sound, KeyedById, NEW k \in Ids, OnRequest(k)
    PROVE  Notes(MaxEntries, Requests(entries), Outcome')
<1>1. PICK t : t = Requests(entries)
  OBVIOUS
<1>2. PICK u : u = Requests(entries')
  OBVIOUS
<1>3. PICK n : n = Len(emissions) + 1
  OBVIOUS
<1>4. PICK left \in EvictForInsert(entries) :
         entries' = Put(left, k, [req |-> n, sinceStart |-> 0, sinceUpdate |-> 0,
                                  status |-> "requested", final |-> FALSE])
  BY <1>3 DEF OnRequest
<1>5. /\ DOMAIN entries \subseteq Ids /\ \A j \in DOMAIN entries : entries[j] \in Fields
      /\ IsFiniteSet(DOMAIN entries) /\ Cardinality(DOMAIN entries) <= MaxEntries
  BY DEF KeyedById, Sound, Table, Bounded
<1>6. DOMAIN left \subseteq DOMAIN entries /\ \A j \in DOMAIN left : left[j] = entries[j]
  BY <1>5, EvictionMakesRoom
<1>7. /\ DOMAIN entries' = DOMAIN left \cup {k}
      /\ entries'[k].req = n /\ entries'[k].final = FALSE
      /\ \A j \in DOMAIN left : j # k => entries'[j] = entries[j]
  BY <1>4, <1>6 DEF Put
<1>8. /\ DOMAIN t = Ids /\ Held(t) = DOMAIN entries
      /\ \A j \in DOMAIN entries : /\ t[j] = [key |-> <<entries[j].req>>, final |-> entries[j].final]
                                   /\ t[j].key = <<entries[j].req>>
      /\ \A j \in Ids \ DOMAIN entries : t[j] = NoEntry
      /\ Finals(t) = {j \in DOMAIN entries : entries[j].final}
  BY <1>1, <1>5, RequestsTell
<1>9. PICK spent : spent = SpentIn(entries)
  OBVIOUS
<1>10. PICK evicted : evicted = (DOMAIN entries \ DOMAIN left) \ spent
  OBVIOUS
<1>11. /\ spent \in SUBSET Finals(t) /\ evicted \in SUBSET Held(t)
       /\ spent \cup evicted = DOMAIN entries \ DOMAIN left
       /\ evicted # {} => Cardinality(Held(t) \ spent) >= MaxEntries
  <2>1. SpentIn(entries) \subseteq {j \in DOMAIN entries : entries[j].final}
    BY DEF SpentIn, Spent
  <2>2. /\ SpentIn(entries) \cap DOMAIN left = {}
        /\ \/ DOMAIN entries \ DOMAIN left \subseteq SpentIn(entries)
           \/ Cardinality(DOMAIN entries \ SpentIn(entries)) >= MaxEntries
    BY <1>5, EvictionSpares
  <2>3. QED
    BY <1>8, <1>9, <1>10, <2>1, <2>2
<1>12. PICK rest : rest = Emptied(t, spent \cup evicted)
  OBVIOUS
<1>13. u = [rest EXCEPT ![k] = [key |-> <<n>>, final |-> FALSE]]
  <2>1. DOMAIN rest = Ids /\ rest = [i \in Ids |-> rest[i]]
    BY <1>8, <1>12 DEF Emptied
  <2>2. ASSUME NEW i \in Ids, i # k PROVE u[i] = rest[i]
    <3>1. CASE i \in DOMAIN left
      <4>1. u[i] = [key |-> <<entries[i].req>>, final |-> entries[i].final]
        BY <1>2, <1>7, <2>2, <3>1 DEF Requests
      <4>2. rest[i] = t[i]
        BY <1>8, <1>11, <1>12, <3>1 DEF Emptied
      <4>3. QED
        BY <1>6, <1>8, <3>1, <4>1, <4>2
    <3>2. CASE i \notin DOMAIN left
      <4>1. u[i] = NoEntry
        BY <1>2, <1>7, <2>2, <3>2 DEF Requests
      <4>2. rest[i] = NoEntry
        BY <1>8, <1>11, <1>12, <3>2 DEF Emptied
      <4>3. QED
        BY <4>1, <4>2
    <3>3. QED
      BY <3>1, <3>2
  <2>3. u[k] = [key |-> <<n>>, final |-> FALSE]
    BY <1>2, <1>7 DEF Requests
  <2>4. u = [i \in Ids |-> u[i]]
    BY <1>2 DEF Requests
  <2>5. QED
    BY <2>1, <2>2, <2>3, <2>4
<1>14. u[k].key = <<n>>
  <2>1. u[k] = [key |-> <<n>>, final |-> FALSE]
    BY <1>2, <1>7 DEF Requests
  <2>2. QED
    BY <2>1
<1>15. <<n>> \notin {t[j].key : j \in DOMAIN t}
  <2>1. n \notin DOMAIN emissions
    BY <1>3 DEF Sound, Table
  <2>2. ASSUME NEW j \in Ids PROVE t[j].key # <<n>>
    <3>1. CASE j \in DOMAIN entries
      <4>1. entries[j].req # n
        BY <2>1, <3>1 DEF Sound, Joined
      <4>2. <<entries[j].req>> # <<n>>
        BY <4>1
      <4>3. t[j].key = <<entries[j].req>>
        BY <1>8, <3>1
      <4>4. QED
        BY <4>2, <4>3
    <3>2. CASE j \notin DOMAIN entries
      <4>1. t[j].key = <<>>
        BY <1>8, <3>2 DEF NoEntry
      <4>2. QED
        BY <4>1
    <3>3. QED
      BY <3>1, <3>2
  <2>3. QED
    BY <1>8, <2>2
<1>16. Cardinality(Held(u)) <= MaxEntries
  <2>1. Sound'
    BY RequestKeepsSound
  <2>2. DOMAIN entries' \subseteq Ids /\ (\A j \in DOMAIN entries' : entries'[j] \in Fields)
        /\ Cardinality(DOMAIN entries') <= MaxEntries
    BY <1>5, <1>6, <1>7, <2>1 DEF Sound, Table, Bounded
  <2>3. PICK fs : fs = entries'
    OBVIOUS
  <2>4. Held(Requests(fs)) = DOMAIN fs
    BY <2>2, <2>3, RequestsTell
  <2>5. QED
    BY <1>2, <2>2, <2>3, <2>4
<1>17. Outcome' = [table |-> u, suppress |-> TRUE, reports |-> {}]
  <2>1. result'.suppress = TRUE /\ result'.lifecycles = {}
    BY DEF OnRequest, Suppress
  <2>2. {<<l.req>> : l \in result'.lifecycles} = {}
    BY <2>1
  <2>3. QED
    BY <1>2, <2>1, <2>2 DEF Outcome
<1>18. PICK o : o = [table |-> u, suppress |-> TRUE, reports |-> {}]
  OBVIOUS
<1>19. o.table = u /\ o = Noted(rest, k, <<n>>)
  BY <1>13, <1>18 DEF Noted
<1>20. Notes(MaxEntries, t, o)
  BY <1>8, <1>11, <1>12, <1>14, <1>15, <1>16, <1>19 DEF Notes
<1>21. QED
  BY <1>1, <1>17, <1>18, <1>20
\* A routing packet without an error renews an open request, and is kept out of the log.
LEMMA RenewImplements ==
    ASSUME Sound, KeyedById, NEW k \in DOMAIN entries,
           entries' = [entries EXCEPT ![k].sinceUpdate = 0], result' = Suppress
    PROVE  Outcome' = Touched(Requests(entries), k)
<1>1. /\ DOMAIN entries \subseteq Ids
      /\ \A j \in DOMAIN entries : entries[j] \in Fields
  BY DEF KeyedById, Sound, Table
<1>2. k \in Held(Requests(entries))
  BY <1>1, RequestsTell
<1>3. /\ DOMAIN entries' = DOMAIN entries
      /\ \A j \in DOMAIN entries : /\ entries'[j].req = entries[j].req
                                   /\ entries'[j].final = entries[j].final
  BY <1>1 DEF Fields
<1>4. result'.lifecycles = {} /\ result'.suppress = TRUE
  BY DEF Suppress
<1>5. Outcome' = Same(Requests(entries), TRUE)
  <2>1. Outcome' = Same(Requests(entries), result'.suppress)
    BY <1>3, <1>4, AgingImplements
  <2>2. QED
    BY <1>4, <2>1
<1>6. (k \in Held(Requests(entries))) = TRUE
  BY <1>2
<1>7. QED
  BY <1>5, <1>6 DEF Touched

\* A step of the tracker is a step of the table.
LEMMA TableSteps ==
    Sound /\ KeyedById /\ [Next]_vars => [TableStep(MaxEntries, Outcome.table, Outcome')]_Outcome
<1> SUFFICES ASSUME Sound, KeyedById, [Next]_vars
             PROVE  TableStep(MaxEntries, Outcome.table, Outcome') \/ UNCHANGED Outcome
  OBVIOUS
<1>1. PICK t : t = Requests(entries)
  OBVIOUS
<1>2. Outcome.table = t
  BY <1>1 DEF Outcome
<1>3. DOMAIN t = Ids
  BY <1>1 DEF Requests
<1>4. DOMAIN entries \subseteq Ids
  BY DEF KeyedById
<1>5. ASSUME Outcome' = Same(t, FALSE) PROVE TableStep(MaxEntries, t, Outcome')
  BY <1>5 DEF TableStep
<1>6. ASSUME NEW k \in Ids, Outcome' = Answered(t, k) \/ Outcome' = Touched(t, k)
      PROVE  TableStep(MaxEntries, t, Outcome')
  BY <1>3, <1>6 DEF TableStep
<1>7. ASSUME NEW k \in Ids, Request(k) PROVE TableStep(MaxEntries, t, Outcome')
  <2>1. Notes(MaxEntries, t, Outcome')
    BY <1>1, <1>7, RequestImplements DEF Request
  <2>2. QED
    BY <2>1 DEF TableStep
<1>8. ASSUME NEW k \in Ids, NEW reply \in Ids, NEW status \in {"completed", "partial"},
             Reply(k, reply, status)
      PROVE  TableStep(MaxEntries, t, Outcome')
  <2>1. PICK key \in Ids : CASE key \notin DOMAIN entries -> Ignore(Nothing)
                             [] key \in DOMAIN entries /\ entries[key].final -> Ignore(Suppress)
                             [] OTHER -> Finish(key, status)
    BY <1>8 DEF Reply, OnReply
  <2>2. CASE key \notin DOMAIN entries
    BY <1>1, <1>5, <2>1, <2>2, IgnoreImplements
  <2>3. CASE key \in DOMAIN entries /\ entries[key].final
    <3>1. Ignore(Suppress)
      BY <2>1, <2>3
    <3>2. Outcome' = Answered(t, key)
      BY <1>1, <2>3, <3>1, IgnoreImplements
    <3>3. QED
      BY <1>6, <3>2
  <2>4. CASE key \in DOMAIN entries /\ ~entries[key].final
    <3>1. Finish(key, status) /\ status \in FinalStatuses
      BY <2>1, <2>4 DEF FinalStatuses
    <3>2. Outcome' = Answered(t, key)
      BY <1>1, <2>4, <3>1, FinishImplements
    <3>3. QED
      BY <1>6, <3>2
  <2>5. QED
    BY <2>2, <2>3, <2>4
<1>9. ASSUME NEW k \in Ids, NEW failed \in BOOLEAN, OnRouting(k, failed)
      PROVE  TableStep(MaxEntries, t, Outcome')
  <2>1. CASE k = 0 \/ k \notin DOMAIN entries
    <3>1. Ignore(Nothing)
      BY <1>9, <2>1 DEF OnRouting
    <3>2. QED
      BY <1>1, <1>5, <3>1, IgnoreImplements
  <2>2. CASE k # 0 /\ k \in DOMAIN entries /\ entries[k].final
    <3>1. Ignore(Suppress)
      BY <1>9, <2>2 DEF OnRouting
    <3>2. Outcome' = Answered(t, k)
      BY <1>1, <2>2, <3>1, IgnoreImplements
    <3>3. QED
      BY <1>6, <3>2
  <2>3. CASE k # 0 /\ k \in DOMAIN entries /\ ~entries[k].final /\ failed
    <3>1. Finish(k, "failed") /\ "failed" \in FinalStatuses
      BY <1>9, <2>3 DEF OnRouting, FinalStatuses
    <3>2. Outcome' = Answered(t, k)
      BY <1>1, <2>3, <3>1, FinishImplements
    <3>3. QED
      BY <1>6, <3>2
  <2>4. CASE k # 0 /\ k \in DOMAIN entries /\ ~entries[k].final /\ ~failed
    <3>1. entries' = [entries EXCEPT ![k].sinceUpdate = 0] /\ result' = Suppress
      BY <1>9, <2>4 DEF OnRouting
    <3>2. Outcome' = Touched(t, k)
      BY <1>1, <2>4, <3>1, RenewImplements
    <3>3. QED
      BY <1>6, <3>2
  <2>5. QED
    BY <2>1, <2>2, <2>3, <2>4
<1>10. CASE Sweep
  <2>1. PICK overdue \in SUBSET Opens(t), spent \in SUBSET Finals(t) : Outcome' = Swept(t, overdue, spent)
    BY <1>1, <1>10, SweepImplements
  <2>2. TableStep(MaxEntries, t, Outcome')
    BY <2>1 DEF TableStep
  <2>3. QED
    BY <1>2, <2>2
<1>11. CASE Tick \/ SetBack
  <2>1. \A k \in DOMAIN entries : entries[k] \in Fields
    BY DEF Sound, Table
  <2>2. /\ DOMAIN entries' = DOMAIN entries
        /\ \A k \in DOMAIN entries : /\ entries'[k].req = entries[k].req
                                     /\ entries'[k].final = entries[k].final
    BY <1>11, <2>1 DEF Tick, SetBack, Fields
  <2>3. result'.lifecycles = {} /\ result'.suppress = FALSE
    <3>1. result' = Nothing
      BY <1>11, Zenon DEF Tick, SetBack
    <3>2. QED
      BY <3>1 DEF Nothing
  <2>4. Outcome' = Same(t, result'.suppress)
    BY <1>1, <2>2, <2>3, AgingImplements
  <2>5. Outcome' = Same(t, FALSE)
    BY <2>3, <2>4
  <2>6. QED
    BY <1>2, <1>5, <2>5
<1>12. CASE UNCHANGED vars
  BY <1>12 DEF vars, Outcome
<1>13. QED
  BY <1>2, <1>7, <1>8, <1>9, <1>10, <1>11, <1>12 DEF Next

\* Whatever the ages, the capacity and the ids, the tracker does to its requests what the
\* pipeline is told of them: every operation is one of RequestTable, a request leaves
\* unreported for another one in a full table only, and the table is never over-full.
THEOREM TrackerImplementsTable == Spec => ImplementsTable
<1>1. Init => Held(Outcome.table) = {}
  <2>1. ASSUME Init PROVE Held(Outcome.table) = {}
    <3>1. DOMAIN entries = {}
      BY <2>1 DEF Init
    <3>2. Held(Requests(entries)) = DOMAIN entries
      BY <3>1, RequestsTell
    <3>3. QED
      BY <3>1, <3>2 DEF Outcome
  <2>2. QED
    BY <2>1
<1>2. Init => KeyedById
  BY DEF Init, KeyedById
<1>3. QED
  BY <1>1, <1>2, SoundInit, SoundStep, KeyedStep, TableSteps, PTL DEF Spec, ImplementsTable

=============================================================================
