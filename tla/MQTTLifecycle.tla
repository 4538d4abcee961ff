--------------------------- MODULE MQTTLifecycle ---------------------------
(***************************************************************************)
(* internal/mqttclient: the state the client shows of its connection.      *)
(* Start and the callbacks of the MQTT library write the same atomic       *)
(* value; the library calls back on goroutines of its own and is taken to  *)
(* do so in the order of the events.  With ConnectRetry the library goes   *)
(* on trying after Start has given up.                                     *)
(***************************************************************************)
EXTENDS Integers, Sequences

CONSTANT MaxLinks  \* bound: how often the broker is reached

ASSUME MQTTAssumption == MaxLinks \in Nat

VARIABLES link,    \* whether the library is connected
          links,   \* how often it was
          calls,   \* callbacks still to run
          state,   \* Client.state
          start,   \* where Start is
          raced    \* history: Start gave up after the connect handler had run

mqttVars == <<link, links, calls, state, start, raced>>

\* The broker is reached for the first time or again.
LinkUp ==
    /\ link = "down"
    /\ links < MaxLinks
    /\ link' = "up"
    /\ links' = links + 1
    /\ calls' = Append(calls, "onConnect")
    /\ UNCHANGED <<state, start, raced>>

\* The library reports the loss and starts to reconnect.
LinkLost ==
    /\ link = "up"
    /\ link' = "down"
    /\ calls' = calls \o <<"connectionLost", "reconnecting">>
    /\ UNCHANGED <<links, state, start, raced>>

\* Mutant: the handler for a lost connection is not set.
AfterNoLost(call) ==
    CASE call = "onConnect" -> "connected"
      [] call = "reconnecting" -> state
      [] OTHER -> state

\* onConnectHandler, connectionLostHandler, reconnectingHandler
After(call) ==
    CASE call = "onConnect" -> "connected"
      [] call = "connectionLost" -> "disconnected"
      [] OTHER -> "reconnecting"

Callback ==
    /\ calls # <<>>
    /\ state' = After(Head(calls))
    /\ calls' = Tail(calls)
    /\ raced' = (raced /\ Head(calls) # "onConnect")
    /\ UNCHANGED <<link, links, start>>

\* The token completes with the first connection; Start goes on to wait for shutdown.
StartConnects ==
    /\ start = "waiting"
    /\ links > 0
    /\ start' = "running"
    /\ UNCHANGED <<link, links, calls, state, raced>>

\* WaitTimeout returns false: no connection so far.
StartTimesOut ==
    /\ start = "waiting"
    /\ links = 0
    /\ start' = "expired"
    /\ UNCHANGED <<link, links, calls, state, raced>>

StartReturns ==
    /\ start = "expired"
    /\ state' = "disconnected"
    /\ start' = "returned"
    /\ raced' = (state = "connected")
    /\ UNCHANGED <<link, links, calls>>

MQTT == LinkUp \/ LinkLost \/ Callback \/ StartConnects \/ StartTimesOut \/ StartReturns

MQTTInit ==
    /\ link = "down"
    /\ links = 0
    /\ calls = <<>>
    /\ state = "connecting"
    /\ start = "waiting"
    /\ raced = FALSE

\* ConnectionStatus
Status == IF state = "connected" THEN "connected" ELSE "disconnected"

MQTTTypeOK ==
    /\ link \in {"up", "down"}
    /\ links \in 0..MaxLinks
    /\ \A i \in DOMAIN calls : calls[i] \in {"onConnect", "connectionLost", "reconnecting"}
    /\ state \in {"disconnected", "connecting", "connected", "reconnecting"}
    /\ start \in {"waiting", "expired", "running", "returned"}
    /\ raced \in BOOLEAN

\* Once its callbacks have run the status tells whether the client is connected, but for
\* one race: Start finds no connection within connect_timeout, the library connects and
\* its handler sets the state, and only then does Start write "disconnected" over it.
\* The status stays wrong until the connection is lost and made again.
StatusTruthful == calls = <<>> /\ ~raced => (Status = "connected" <=> link = "up")

=============================================================================
