---------------------------- MODULE ChatTimeline ----------------------------
(***************************************************************************)
(* utils/chat.ts and the timeline of MapPage.tsx: how the list of messages *)
(* is told, with the reactions beside the messages they reply to.  A row   *)
(* is [id, type, packet, reply, emoji, time, day]; the list is the newest  *)
(* first.                                                                  *)
(***************************************************************************)
EXTENDS Integers, SequencesExt, FiniteSetsExt

CONSTANTS TimelineRows,    \* bound: what may come, without its id
          MaxTimelineRows  \* bound: messages in the list

VARIABLE timeline  \* the list of messages the map page is given

NoPacket == 0  \* undefined

Reacts(row) == row.type = "reaction"

\* The rows that are entries as they come: all but the reactions that name a packet.
InPlace(rows) == SelectSeq(rows, LAMBDA r : ~Reacts(r) \/ r.reply = NoPacket)
Buffered(rows) == SelectSeq(rows, LAMBDA r : Reacts(r) /\ r.reply # NoPacket)

\* Mutant: every row with the packet gets the reactions.
TakersAll(entries, packet) ==
    {i \in DOMAIN entries : ~Reacts(entries[i]) /\ entries[i].packet = packet}

\* The entry the reactions to a packet are folded into: the first in the list, which is the
\* newest, though a packet id is only unique for its sender.
Takers(entries, packet) ==
    LET fits == {i \in DOMAIN entries : ~Reacts(entries[i]) /\ entries[i].packet = packet}
    IN  IF fits = {} THEN {} ELSE {Min(fits)}

\* aggregateReactions: by time, then grouped by emoji in the order each first comes.
AggregateReactions(reactions) ==
    LET sorted == SortSeq(reactions, LAMBDA a, b : a.time < b.time)
        emojis == {sorted[i].emoji : i \in DOMAIN sorted}
        first(e) == Min({i \in DOMAIN sorted : sorted[i].emoji = e})
        order == SetToSortSeq(emojis, LAMBDA a, b : first(a) < first(b))
    IN  [k \in DOMAIN order |->
            [emoji |-> order[k], reactors |-> SelectSeq(sorted, LAMBDA r : r.emoji = order[k])]]

\* groupChatEvents: the reactions that find no entry come last, packet by packet.
GroupChatEvents(rows) ==
    LET entries == InPlace(rows)
        waiting == Buffered(rows)
        to(packet) == SelectSeq(waiting, LAMBDA r : r.reply = packet)
        first(packet) == Min({i \in DOMAIN waiting : waiting[i].reply = packet})
        lost == {p \in {waiting[i].reply : i \in DOMAIN waiting} : Takers(entries, p) = {}}
        left == FlattenSeq([k \in 1..Cardinality(lost) |->
                    to(SetToSortSeq(lost, LAMBDA a, b : first(a) < first(b))[k])])
        orphan(r) == [kind |-> "reaction", row |-> r, reactions |-> <<>>]
    IN  [i \in DOMAIN entries |->
            IF Reacts(entries[i]) THEN orphan(entries[i])
            ELSE [kind |-> IF entries[i].type = "system" THEN "system" ELSE "message",
                  row |-> entries[i],
                  reactions |->
                      IF entries[i].packet # NoPacket /\ i \in Takers(entries, entries[i].packet)
                      THEN AggregateReactions(to(entries[i].packet)) ELSE <<>>]]
        \o [k \in DOMAIN left |-> orphan(left[k])]

\* renderChatTimeline: the day is told where it differs from that of the entry before,
\* orphaned reactions left out.
Separators(rows) ==
    LET entries == GroupChatEvents(rows)
        told == {i \in DOMAIN entries : entries[i].kind # "reaction"}
    IN  {i \in told : \A j \in told :
            (j < i /\ \A k \in told : k <= j \/ k >= i) => entries[j].row.day # entries[i].row.day}

----------------------------------------------------------------------------
(* The list grows at both ends                                             *)

TimelineRow(id, row) == [type |-> row.type, packet |-> row.packet, reply |-> row.reply,
                         emoji |-> row.emoji, time |-> row.time, day |-> row.day, id |-> id]
GrowTimeline(row) ==
    /\ Len(timeline) < MaxTimelineRows
    /\ LET r == TimelineRow(Len(timeline) + 1, row)
       IN  timeline' = <<r>> \o timeline \/ timeline' = Append(timeline, r)

TimelineInit == timeline = <<>>
TimelineNext ==
    \/ \E row \in TimelineRows : GrowTimeline(row)
    \/ timeline # <<>> /\ timeline' = <<>>   \* another channel

----------------------------------------------------------------------------
(* Properties                                                              *)

\* Every row of the list is told exactly once, as an entry or as a reaction beside the
\* message it replies to, though packet ids repeat and a reply may come before its message;
\* messages keep their order; the day above a message is its day.
TimelineTells ==
    LET entries == GroupChatEvents(timeline)
        days    == Separators(timeline)
        reactors(i) == FlattenSeq([k \in DOMAIN entries[i].reactions |-> entries[i].reactions[k].reactors])
        beside(id) == {<<i, k>> \in (DOMAIN entries) \X (DOMAIN timeline) :
                          k \in DOMAIN reactors(i) /\ reactors(i)[k].id = id}
        own(id) == {i \in DOMAIN entries : entries[i].row.id = id}
        messages(s) == SelectSeq(s, LAMBDA r : ~Reacts(r))
    IN  /\ \A j \in DOMAIN timeline :
              Cardinality(own(timeline[j].id)) + Cardinality(beside(timeline[j].id)) = 1
        /\ \A i \in DOMAIN entries : \A k \in DOMAIN reactors(i) :
              reactors(i)[k].reply = entries[i].row.packet
        /\ messages([i \in DOMAIN entries |-> entries[i].row]) = messages(timeline)
        /\ \A i \in DOMAIN entries : entries[i].kind # "reaction" =>
              LET above == {d \in days : d <= i}
              IN  above # {} /\ entries[Max(above)].row.day = entries[i].row.day


=============================================================================
