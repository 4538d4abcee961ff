-------------------------------- MODULE Hub --------------------------------
(***************************************************************************)
(* internal/api/ws: the hub that writes every realtime event to every      *)
(* websocket client.  Each connection has a goroutine of its own           *)
(* (ServeHTTP); the goroutines that emit take a snapshot of the clients    *)
(* under the lock and write to them outside it, one after the other in any *)
(* order.  A write that fails takes the client out of the hub.             *)
(*                                                                         *)
(* A connection keeps what was written and not yet read, in order.  It may *)
(* break without either end being told: what is on its way and what is     *)
(* still written is lost, and writes succeed until its buffers are full    *)
(* and a write times out.  A failed write leaves a connection on which no  *)
(* later write succeeds, so failing, unregister and close are one step.    *)
(***************************************************************************)
EXTENDS Integers, Sequences, FiniteSets

CONSTANTS Conns,    \* connections there may be
          Emitters, \* goroutines that emit
          Capacity  \* bound: frames a connection holds before a write times out

ASSUME HubAssumption == Conns \subseteq Nat \ {0} /\ Capacity \in Nat \ {0}

VARIABLES clients,  \* Hub.clients
          conns,    \* per connection: where ServeHTTP is, the connection itself
          emitters  \* per emitter: where Emit is, its event and the clients left to write to

hubVars == <<clients, conns, emitters>>

NoEvent == <<"none", "none">>

\* at: where ServeHTTP is; hello: the event of the connect hook; wire: frames not read yet;
\* closed: by the server; cut: broken without a word.
Unused == [at |-> "none", hello |-> NoEvent, wire |-> <<>>, closed |-> FALSE, cut |-> FALSE]

Resting == [at |-> "idle", event |-> NoEvent, left |-> {}]

----------------------------------------------------------------------------
(* Writing                                                                 *)

\* unregister: the client leaves the map, if it is still in it, and its connection closes.
Dropped(c) == [conns[c] EXCEPT !.closed = TRUE, !.wire = IF conns[c].cut THEN <<>> ELSE @]

\* A frame takes its room in the buffers also when it will never arrive.
Written(c, event) == Append(conns[c].wire, IF conns[c].cut THEN NoEvent ELSE event)

WriteSucceeds(c, event) ==
    /\ ~conns[c].closed
    /\ Len(conns[c].wire) < Capacity
    /\ conns' = [conns EXCEPT ![c].wire = Written(c, event)]
    /\ UNCHANGED clients

MayFail(c) == conns[c].closed \/ conns[c].cut \/ Len(conns[c].wire) = Capacity

\* Mutant: the failure is only logged.
WriteFailsQuietly(c) ==
    /\ MayFail(c)
    /\ UNCHANGED <<clients, conns>>

WriteFails(c) ==
    /\ MayFail(c)
    /\ clients' = clients \ {c}
    /\ conns' = [conns EXCEPT ![c] = Dropped(c)]

----------------------------------------------------------------------------
(* ServeHTTP                                                               *)

\* The upgrade is answered before the client is in the map.
Upgrade(c) ==
    /\ conns[c].at = "none"
    /\ conns' = [conns EXCEPT ![c].at = "upgraded"]
    /\ UNCHANGED <<clients, emitters>>

Register(c) ==
    /\ conns[c].at = "upgraded"
    /\ clients' = clients \cup {c}
    /\ conns' = [conns EXCEPT ![c].at = "registered"]
    /\ UNCHANGED emitters

\* The connect hook computes its event, and writes it in a step of its own.
Greet(c, event) ==
    /\ conns[c].at = "registered"
    /\ conns' = [conns EXCEPT ![c].at = "greeting", ![c].hello = event]
    /\ UNCHANGED <<clients, emitters>>

SendGreeting(c) ==
    /\ conns[c].at = "greeting"
    /\ \/ /\ ~conns[c].closed
          /\ Len(conns[c].wire) < Capacity
          /\ conns' = [conns EXCEPT ![c].at = "reading", ![c].hello = NoEvent,
                                    ![c].wire = Written(c, conns[c].hello)]
          /\ UNCHANGED clients
       \/ /\ MayFail(c)
          /\ conns' = [conns EXCEPT ![c] = [Dropped(c) EXCEPT !.at = "gone", !.hello = NoEvent]]
          /\ clients' = clients \ {c}
    /\ UNCHANGED emitters

\* ReadMessage fails when the connection was closed or is known to be broken; ServeHTTP
\* ends.
Leave(c) ==
    /\ conns[c].at = "reading"
    /\ clients' = clients \ {c}
    /\ conns' = [conns EXCEPT ![c] = [Dropped(c) EXCEPT !.at = "gone"]]
    /\ UNCHANGED emitters

ReadEnds(c)   == conns[c].closed /\ Leave(c)
ReadBreaks(c) == conns[c].cut /\ Leave(c)

----------------------------------------------------------------------------
(* Emit                                                                    *)

\* Mutant: a client is broadcast to once its connect hook is done.
SnapshotGreeted(e) ==
    /\ emitters[e].at = "ready"
    /\ LET left == {c \in clients : conns[c].at = "reading"}
       IN  emitters' = [emitters EXCEPT ![e] =
                           IF left = {} THEN Resting ELSE [@ EXCEPT !.at = "writing", !.left = left]]
    /\ UNCHANGED <<clients, conns>>

Snapshot(e) ==
    /\ emitters[e].at = "ready"
    /\ emitters' = [emitters EXCEPT ![e] =
                       IF clients = {} THEN Resting
                       ELSE [@ EXCEPT !.at = "writing", !.left = clients]]
    /\ UNCHANGED <<clients, conns>>

\* Mutant: the loop stays at a client until a write to it fails.
StayingAt(e, c) ==
    /\ emitters[e].at = "writing"
    /\ c \in emitters[e].left
    /\ WriteSucceeds(c, emitters[e].event) \/ WriteFails(c)
    /\ emitters' = [emitters EXCEPT ![e] = IF conns'[c].closed THEN Resting ELSE @]

WriteTo(e, c) ==
    /\ emitters[e].at = "writing"
    /\ c \in emitters[e].left
    /\ WriteSucceeds(c, emitters[e].event) \/ WriteFails(c)
    /\ emitters' = [emitters EXCEPT ![e] = IF @.left = {c} THEN Resting
                                           ELSE [@ EXCEPT !.left = emitters[e].left \ {c}]]

HubInit ==
    /\ clients = {}
    /\ conns = [c \in Conns |-> Unused]
    /\ emitters = [e \in Emitters |-> Resting]

HubTypeOK(Events) ==
    /\ clients \subseteq Conns
    /\ \A c \in Conns :
          /\ conns[c].at \in {"none", "upgraded", "registered", "greeting", "reading", "gone"}
          /\ conns[c].hello \in Events \cup {NoEvent}
          /\ Len(conns[c].wire) <= Capacity
          /\ \A i \in DOMAIN conns[c].wire : conns[c].wire[i] \in Events \cup {NoEvent}
    /\ emitters \in [Emitters -> [at: {"idle", "ready", "writing"},
                                  event: Events \cup {NoEvent}, left: SUBSET Conns]]

=============================================================================
