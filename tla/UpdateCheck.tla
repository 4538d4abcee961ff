---------------------------- MODULE UpdateCheck ----------------------------
(***************************************************************************)
(* internal/updatecheck/manager.go and cache.go: a goroutine for each      *)
(* source fetches its releases now and then, puts the snapshot into the    *)
(* cache and publishes it.  Consumers subscribe to a source, or to all of  *)
(* them, and get every snapshot on a buffered channel; one whose channel   *)
(* is full is pruned and not told.                                         *)
(*                                                                         *)
(* The snapshots of a source are numbered as they are made.  A fetch that  *)
(* fails or finds no release changes nothing and is left out, as is what a *)
(* snapshot says.  A consumer calls its unsubscribe function once: the     *)
(* function closes the channel each time it is called.                     *)
(***************************************************************************)
EXTENDS Integers, SequencesExt

CONSTANTS UpdateSources,
          Consumers,     \* consumer -> the sources it subscribes to: one, or all of them
          ChannelBuffer, \* defaultChannelBuffer
          MaxSnapshotsMade \* bound: snapshots of all sources together

ASSUME UpdatesAssumption ==
    /\ ChannelBuffer \in Nat \ {0} /\ MaxSnapshotsMade \in Nat
    /\ Consumers \in [DOMAIN Consumers -> {{s} : s \in UpdateSources} \cup {UpdateSources}]

VARIABLES cached,    \* the number of the snapshot in the cache, 0 for none
          published, \* the number of the last snapshot that was published
          listed,    \* the consumers whose channels are in subs or in all
          consumer   \* what each consumer has: its channel and what it knows

updateVars == <<cached, published, listed, consumer>>

\* "joined" is the number of the last snapshot published before the consumer subscribed;
\* "known" the newest it has received or read from the cache.
NewConsumer == [at |-> "new", channel |-> <<>>, looked |-> FALSE,
                joined |-> [s \in UpdateSources |-> 0],
                received |-> [s \in UpdateSources |-> 0],
                known |-> [s \in UpdateSources |-> 0]]

----------------------------------------------------------------------------
(* The manager                                                             *)

Made == FoldFunction(+, 0, cached)

\* fetchAndPublish, up to the cache.
Fetch(s) ==
    /\ published[s] = cached[s] /\ Made < MaxSnapshotsMade
    /\ cached' = [cached EXCEPT ![s] = @ + 1]
    /\ UNCHANGED <<published, listed, consumer>>

\* Mutant: a full channel misses the snapshot and stays in the list.
PublishKeepsFull(s) ==
    /\ published[s] < cached[s]
    /\ published' = [published EXCEPT ![s] = cached[s]]
    /\ LET open == {c \in listed : s \in Consumers[c] /\ Len(consumer[c].channel) < ChannelBuffer}
       IN  consumer' = [c \in DOMAIN Consumers |->
               IF c \in open THEN [consumer[c] EXCEPT !.channel = Append(@, <<s, cached[s]>>)]
               ELSE consumer[c]]
    /\ UNCHANGED <<cached, listed>>

\* publish, under the lock: a full channel leaves the list.
Publish(s) ==
    /\ published[s] < cached[s]
    /\ published' = [published EXCEPT ![s] = cached[s]]
    /\ LET concerned == {c \in listed : s \in Consumers[c]}
           open == {c \in concerned : Len(consumer[c].channel) < ChannelBuffer}
       IN  /\ listed' = listed \ (concerned \ open)
           /\ consumer' = [c \in DOMAIN Consumers |->
                  IF c \in open THEN [consumer[c] EXCEPT !.channel = Append(@, <<s, cached[s]>>)]
                  ELSE consumer[c]]
    /\ UNCHANGED cached

----------------------------------------------------------------------------
(* Its consumers                                                           *)

\* Subscribe, SubscribeAll
Subscribe(c) ==
    /\ consumer[c].at = "new"
    /\ consumer' = [consumer EXCEPT ![c].at = "open", ![c].joined = published]
    /\ listed' = listed \cup {c}
    /\ UNCHANGED <<cached, published>>

\* Snapshot of each source it subscribed to, once: what was made before it subscribed.
LookAtCache(c) ==
    /\ consumer[c].at = "open" /\ ~consumer[c].looked
    /\ consumer' = [consumer EXCEPT ![c].looked = TRUE,
                        ![c].known = [s \in UpdateSources |->
                            IF s \in Consumers[c] /\ cached[s] > @[s] THEN cached[s] ELSE @[s]]]
    /\ UNCHANGED <<cached, published, listed>>

\* A closed channel is drained before it says that it is closed.
Receive(c) ==
    /\ consumer[c].at # "new" /\ consumer[c].channel # <<>>
    /\ LET s == Head(consumer[c].channel)[1]
           n == Head(consumer[c].channel)[2]
       IN  consumer' = [consumer EXCEPT ![c].channel = Tail(@), ![c].received[s] = n,
                            ![c].known[s] = IF n > @ THEN n ELSE @]
    /\ UNCHANGED <<cached, published, listed>>

\* The function that ends a subscription, of one that was pruned as well.
Unsubscribe(c) ==
    /\ consumer[c].at = "open"
    /\ consumer' = [consumer EXCEPT ![c].at = "closed"]
    /\ listed' = listed \ {c}
    /\ UNCHANGED <<cached, published>>

UpdatesInit ==
    /\ cached = [s \in UpdateSources |-> 0]
    /\ published = cached
    /\ listed = {}
    /\ consumer = [c \in DOMAIN Consumers |-> NewConsumer]

UpdatesNext ==
    \/ \E s \in UpdateSources : Fetch(s) \/ Publish(s)
    \/ \E c \in DOMAIN Consumers : Subscribe(c) \/ LookAtCache(c) \/ Receive(c) \/ Unsubscribe(c)

UpdatesSpec == UpdatesInit /\ [][UpdatesNext]_updateVars

----------------------------------------------------------------------------
(* Properties                                                              *)

\* The last snapshot of s that c has received, or that was published before it subscribed.
LastTaken(c, s) == IF consumer[c].received[s] = 0 THEN consumer[c].joined[s] ELSE consumer[c].received[s]

\* What a consumer gets of a source is without a gap from its subscription on, also when
\* it was pruned or has unsubscribed meanwhile; a channel in the list has all that was
\* published and is never closed, as sending on it would end the process.
DeliveredWithoutGap ==
    \A c \in DOMAIN Consumers : \A s \in Consumers[c] :
        LET channel == consumer[c].channel
            waiting == {i \in DOMAIN channel : channel[i][1] = s}
        IN  /\ \E last \in LastTaken(c, s)..published[s] :
                  /\ {channel[i][2] : i \in waiting} = LastTaken(c, s) + 1..last
                  /\ c \in listed => consumer[c].at = "open" /\ last = published[s]
            /\ \A i, j \in waiting : i < j => channel[i][2] < channel[j][2]

\* A consumer that subscribed and then read the cache misses nothing for good: until it is
\* pruned, what it knows, has waiting or is about to be told is what the cache has.
SubscribeThenLook ==
    \A c \in listed, s \in UpdateSources :
        consumer[c].looked /\ s \in Consumers[c] /\ published[s] = cached[s] =>
            \/ consumer[c].known[s] >= cached[s]
            \/ \E i \in DOMAIN consumer[c].channel : consumer[c].channel[i] = <<s, cached[s]>>

\* Snapshots reach those who subscribe, and nobody is left behind unknowingly but the pruned.
UpdatesTold == DeliveredWithoutGap /\ SubscribeThenLook

=============================================================================
