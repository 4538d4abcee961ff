--------------------------- MODULE RealtimeProofs ---------------------------
(***************************************************************************)
(* Live updates from end to end, proved for every number of connections,   *)
(* emitters, messages, cuts and links, every page size and every room of a *)
(* connection.                                                             *)
(***************************************************************************)
EXTENDS Realtime, SequenceTheorems, FiniteSetTheorems, TLAPS

----------------------------------------------------------------------------
(* The status of the MQTT client                                           *)

CallNames == {"onConnect", "connectionLost", "reconnecting"}

\* The callback that will run last tells whether the client is connected; without one to
\* run the state does, unless Start has written over it, which it does once.
Told ==
    /\ link \in {"up", "down"}
    /\ calls \in Seq(CallNames)
    /\ calls # <<>> => (link = "up" <=> calls[Len(calls)] = "onConnect")
    /\ calls = <<>> /\ ~raced => (link = "up" <=> state = "connected")
    /\ raced \in BOOLEAN
    /\ start # "returned" => ~raced

LEMMA ToldByLinkUp == ASSUME Told, LinkUp PROVE Told'
<1>1. /\ calls' = Append(calls, "onConnect") /\ "onConnect" \in CallNames
      /\ link' = "up" /\ UNCHANGED <<start, raced>>
  BY DEF LinkUp, CallNames
<1>2. /\ calls' \in Seq(CallNames)
      /\ calls' # <<>>
      /\ calls'[Len(calls')] = "onConnect"
  BY <1>1 DEF Told
<1> QED
  BY <1>1, <1>2 DEF Told

LEMMA ToldByLinkLost == ASSUME Told, LinkLost PROVE Told'
<1> DEFINE new == <<"connectionLost", "reconnecting">>
<1>1. /\ calls' = calls \o new /\ link' = "down" /\ UNCHANGED <<start, raced>>
  BY DEF LinkLost
<1>2. /\ new \in Seq(CallNames) /\ Len(new) = 2 /\ new[2] = "reconnecting"
      /\ calls \in Seq(CallNames) /\ Len(calls) \in Nat
  BY LenProperties DEF CallNames, Told
<1> HIDE DEF new
<1>3. /\ calls' \in Seq(CallNames)
      /\ Len(calls') = Len(calls) + 2
      /\ calls'[Len(calls) + 2] = new[2]
  <2> DEFINE m == Len(calls)
  <2>1. /\ calls \o new \in Seq(CallNames)
        /\ Len(calls \o new) = m + Len(new)
        /\ \A i \in 1..m + Len(new) :
              (calls \o new)[i] = IF i <= m THEN calls[i] ELSE new[i - m]
    BY <1>2, ConcatProperties
  <2> HIDE DEF m
  <2>2. m \in Nat /\ m = Len(calls)
    BY <1>2 DEF m
  <2>3. m + 2 \in 1..m + 2 /\ ~(m + 2 <= m) /\ (m + 2) - m = 2
    BY <2>2
  <2>4. (calls \o new)[m + 2] = new[2]
    BY <1>2, <2>1, <2>3
  <2> QED
    BY <1>1, <1>2, <2>1, <2>2, <2>4
<1>4. calls' # <<>> /\ calls'[Len(calls')] # "onConnect"
  BY <1>2, <1>3
<1> QED
  BY <1>1, <1>3, <1>4 DEF Told

LEMMA ToldByCallback == ASSUME Told, Callback PROVE Told'
<1>1. /\ calls # <<>>
      /\ state' = After(Head(calls))
      /\ calls' = Tail(calls)
      /\ raced' = (raced /\ Head(calls) # "onConnect")
      /\ UNCHANGED <<link, start>>
  BY DEF Callback
<1>2. /\ calls \in Seq(CallNames)
      /\ Len(calls) \in Nat /\ Len(calls) >= 1
      /\ Head(calls) = calls[1]
      /\ Tail(calls) \in Seq(CallNames)
      /\ Len(Tail(calls)) = Len(calls) - 1
      /\ \A i \in 1..Len(calls) - 1 : Tail(calls)[i] = calls[i + 1]
  BY <1>1 DEF Told
<1>3. CASE Len(calls) = 1
  <2>1. calls' = <<>> /\ (link = "up" <=> Head(calls) = "onConnect")
    BY <1>1, <1>2, <1>3, EmptySeq DEF Told
  <2>2. state' = "connected" <=> Head(calls) = "onConnect"
    BY <1>1 DEF After
  <2> QED
    BY <1>1, <1>2, <2>1, <2>2 DEF Told
<1>4. CASE Len(calls) # 1
  <2>1. calls' # <<>> /\ calls'[Len(calls')] = calls[Len(calls)]
    <3> DEFINE m == Len(calls) - 1
    <3>1. m \in 1..Len(calls) - 1 /\ Len(calls') = m /\ m + 1 = Len(calls)
      BY <1>1, <1>2, <1>4
    <3> HIDE DEF m
    <3>2. calls'[m] = calls[m + 1]
      BY <1>1, <1>2, <3>1
    <3> QED
      BY <1>2, <3>1, <3>2
  <2> QED
    BY <1>1, <1>2, <2>1 DEF Told
<1> QED
  BY <1>3, <1>4

LEMMA ToldByStart ==
    ASSUME Told, StartConnects \/ StartTimesOut \/ StartReturns
    PROVE  Told'
<1>1. UNCHANGED <<link, calls>>
  BY DEF StartConnects, StartTimesOut, StartReturns
<1>2. CASE StartReturns
  BY <1>1, <1>2 DEF Told, StartReturns
<1>3. CASE StartConnects \/ StartTimesOut
  BY <1>1, <1>3 DEF Told, StartConnects, StartTimesOut
<1> QED
  BY <1>2, <1>3

LEMMA ToldSteps == Told /\ [Next]_vars => Told'
<1> SUFFICES ASSUME Told, [Next]_vars
             PROVE  Told'
  OBVIOUS
<1>1. CASE UNCHANGED mqttVars
  BY <1>1 DEF mqttVars, Told
<1>2. CASE Lifecycle
  BY <1>2, ToldByLinkUp, ToldByLinkLost, ToldByCallback, ToldByStart DEF Lifecycle, MQTT
<1>3. Lifecycle \/ UNCHANGED mqttVars
  BY DEF Next, vars, Insert, Tick, Broadcast, Serve, Network, Browse, Try, Others
<1> QED
  BY <1>1, <1>2, <1>3

\* Once its callbacks have run the status the client shows tells whether it is connected,
\* however often the link breaks and comes back and in whatever order Start and the
\* callbacks write it, but for the one race in which Start gives up after the connect
\* handler has run.
THEOREM StatusIsTruthful == Spec => []StatusTruthful
<1>1. Init => Told
  BY EmptySeq DEF Init, MQTTInit, Told
<1>2. Told => StatusTruthful
  BY DEF Told, StatusTruthful, Status
<1> QED
  BY <1>1, <1>2, ToldSteps, PTL DEF Spec
----------------------------------------------------------------------------
(* Sequences of frames                                                     *)

\* The frames that are no chat message.
Other == {NoEvent} \cup {Heartbeat(s) : s \in {"connected", "disconnected"}}

Frame == {Chat(id) : id \in Nat} \cup Other

Holds(wire, id) == \E i \in 1..Len(wire) : wire[i] = Chat(id)

\* The messages whose event is among the frames.
IdsOf(wire) == {id \in Nat : Holds(wire, id)}

\* Messages come in the order of their ids.
Ordered(wire) ==
    \A i, j \in 1..Len(wire) : \A a, b \in Nat :
        i < j /\ wire[i] = Chat(a) /\ wire[j] = Chat(b) => a < b

LEMMA FrameFacts ==
    /\ \A a, b : Chat(a) = Chat(b) => a = b
    /\ \A a : Chat(a)[1] = "chat" /\ Chat(a)[2] = a
    /\ \A a : Chat(a) \notin Other
    /\ \A f \in Frame : f[1] = "chat" => f = Chat(f[2]) /\ f[2] \in Nat
    /\ \A f \in Frame : f[1] # "chat" => f \in Other
    /\ NoEvent \in Other
<1>1. \A a : Chat(a)[1] = "chat" /\ Chat(a)[2] = a
  BY DEF Chat
<1>2. \A f \in Other : f[1] # "chat"
  BY DEF Other, NoEvent, Heartbeat
<1>3. \A f \in Frame : f \in Other \/ \E a \in Nat : f = Chat(a)
  BY DEF Frame
<1>4. NoEvent \in Other
  BY DEF Other
<1> QED
  BY <1>1, <1>2, <1>3, <1>4

LEMMA EmptyWire == <<>> \in Seq(Frame) /\ IdsOf(<<>>) = {} /\ Ordered(<<>>)
BY EmptySeq DEF IdsOf, Holds, Ordered

LEMMA AppendOther ==
    ASSUME NEW w \in Seq(Frame), Ordered(w), NEW f \in Other
    PROVE  /\ Append(w, f) \in Seq(Frame)
           /\ Ordered(Append(w, f))
           /\ IdsOf(Append(w, f)) = IdsOf(w)
<1> DEFINE t == Append(w, f)
           n == Len(w)
<1>1. f \in Frame /\ \A a : f # Chat(a)
  BY FrameFacts DEF Frame
<1>2. n \in Nat /\ t \in Seq(Frame) /\ Len(t) = n + 1 /\ t[n + 1] = f
  BY <1>1, LenProperties, AppendProperties
<1>3. \A i \in 1..n : t[i] = w[i]
  BY <1>1, AppendProperties
<1> HIDE DEF t
<1>4. \A i \in 1..n + 1, a \in Nat : t[i] = Chat(a) => i \in 1..n /\ w[i] = Chat(a)
  BY <1>1, <1>2, <1>3
<1>5. Ordered(t)
  BY <1>2, <1>4 DEF Ordered
<1>6. \A id \in Nat : Holds(t, id) <=> Holds(w, id)
  BY <1>2, <1>3, <1>4 DEF Holds
<1>7. IdsOf(t) = IdsOf(w)
  BY <1>6 DEF IdsOf
<1> QED
  BY <1>2, <1>5, <1>7 DEF t

LEMMA AppendChat ==
    ASSUME NEW w \in Seq(Frame), Ordered(w), NEW id \in Nat, \A a \in IdsOf(w) : a < id
    PROVE  /\ Append(w, Chat(id)) \in Seq(Frame)
           /\ Ordered(Append(w, Chat(id)))
           /\ IdsOf(Append(w, Chat(id))) = IdsOf(w) \cup {id}
<1> DEFINE t == Append(w, Chat(id))
           n == Len(w)
<1>1. Chat(id) \in Frame
  BY DEF Frame
<1>2. n \in Nat /\ t \in Seq(Frame) /\ Len(t) = n + 1 /\ t[n + 1] = Chat(id)
  BY <1>1, LenProperties, AppendProperties
<1>3. \A i \in 1..n : t[i] = w[i]
  BY <1>1, AppendProperties
<1> HIDE DEF t
<1>4. \A i \in 1..n, a \in Nat : t[i] = Chat(a) => a \in IdsOf(w) /\ w[i] = Chat(a)
  BY <1>3 DEF IdsOf, Holds
<1>5. \A a \in Nat : t[n + 1] = Chat(a) => a = id
  BY <1>2, FrameFacts
<1>6. Ordered(t)
  <2> SUFFICES ASSUME NEW i \in 1..n + 1, NEW j \in 1..n + 1, NEW a \in Nat, NEW b \in Nat,
                      i < j, t[i] = Chat(a), t[j] = Chat(b)
               PROVE  a < b
    BY <1>2 DEF Ordered
  <2>1. i \in 1..n /\ a \in IdsOf(w) /\ w[i] = Chat(a)
    BY <1>2, <1>4
  <2>2. CASE j = n + 1
    BY <2>1, <2>2, <1>5
  <2>3. CASE j # n + 1
    <3>1. j \in 1..n /\ w[j] = Chat(b)
      BY <2>3, <1>2, <1>4
    <3> QED
      BY <2>1, <3>1 DEF Ordered
  <2> QED
    BY <2>2, <2>3
<1>7. \A a \in Nat : Holds(t, a) => Holds(w, a) \/ a = id
  BY <1>2, <1>4, <1>5 DEF Holds, IdsOf
<1>8. \A a \in Nat : Holds(w, a) => Holds(t, a)
  BY <1>2, <1>3 DEF Holds
<1>9. Holds(t, id)
  BY <1>2 DEF Holds
<1>10. IdsOf(t) = IdsOf(w) \cup {id}
  BY <1>7, <1>8, <1>9 DEF IdsOf
<1> QED
  BY <1>2, <1>6, <1>10 DEF t

LEMMA TakeFirst ==
    ASSUME NEW w \in Seq(Frame), Ordered(w), w # <<>>
    PROVE  /\ Tail(w) \in Seq(Frame)
           /\ Ordered(Tail(w))
           /\ Head(w) \in Other => IdsOf(Tail(w)) = IdsOf(w)
           /\ \A id \in Nat : Head(w) = Chat(id) =>
                 /\ id \in IdsOf(w)
                 /\ IdsOf(Tail(w)) = IdsOf(w) \ {id}
                 /\ \A a \in IdsOf(Tail(w)) : id < a
<1> DEFINE t == Tail(w)
           n == Len(w)
<1>1. /\ n \in Nat /\ n >= 1
      /\ t \in Seq(Frame)
      /\ Len(t) = n - 1
      /\ \A i \in 1..n - 1 : t[i] = w[i + 1]
      /\ Head(w) = w[1]
  OBVIOUS
<1> HIDE DEF t
<1>2. Ordered(t)
  <2> SUFFICES ASSUME NEW i \in 1..n - 1, NEW j \in 1..n - 1, NEW a \in Nat, NEW b \in Nat,
                      i < j, t[i] = Chat(a), t[j] = Chat(b)
               PROVE  a < b
    BY <1>1 DEF Ordered
  <2> DEFINE x == i + 1
             y == j + 1
  <2>1. x \in 1..n /\ y \in 1..n /\ x < y /\ w[x] = Chat(a) /\ w[y] = Chat(b)
    BY <1>1
  <2> HIDE DEF x, y
  <2> QED
    BY <2>1 DEF Ordered
<1>3. \A a \in Nat : Holds(t, a) => \E y \in 1..n : y > 1 /\ w[y] = Chat(a)
  <2> SUFFICES ASSUME NEW a \in Nat, NEW i \in 1..n - 1, t[i] = Chat(a)
               PROVE  \E y \in 1..n : y > 1 /\ w[y] = Chat(a)
    BY <1>1 DEF Holds
  <2> DEFINE y == i + 1
  <2>1. y \in 1..n /\ y > 1 /\ w[y] = Chat(a)
    BY <1>1
  <2> HIDE DEF y
  <2> QED
    BY <2>1
<1>4. \A a \in Nat : Holds(w, a) => Holds(t, a) \/ w[1] = Chat(a)
  <2> SUFFICES ASSUME NEW a \in Nat, NEW i \in 1..n, w[i] = Chat(a), i # 1
               PROVE  Holds(t, a)
    BY DEF Holds
  <2> DEFINE y == i - 1
  <2>1. y \in 1..n - 1 /\ t[y] = Chat(a)
    BY <1>1
  <2> HIDE DEF y
  <2> QED
    BY <2>1, <1>1 DEF Holds
<1>5. Head(w) \in Other => IdsOf(t) = IdsOf(w)
  <2> SUFFICES ASSUME w[1] \in Other
               PROVE  IdsOf(t) = IdsOf(w)
    BY <1>1
  <2>1. \A a \in Nat : w[1] # Chat(a)
    BY FrameFacts
  <2>2. \A a \in Nat : Holds(t, a) <=> Holds(w, a)
    BY <2>1, <1>3, <1>4 DEF Holds
  <2> QED
    BY <2>2 DEF IdsOf
<1>6. ASSUME NEW id \in Nat, w[1] = Chat(id)
      PROVE  /\ id \in IdsOf(w)
             /\ IdsOf(t) = IdsOf(w) \ {id}
             /\ \A a \in IdsOf(t) : id < a
  <2>1. Holds(w, id)
    BY <1>1, <1>6 DEF Holds
  <2>2. \A a \in Nat : Holds(t, a) => Holds(w, a) /\ id < a
    <3> SUFFICES ASSUME NEW a \in Nat, Holds(t, a)
                 PROVE  Holds(w, a) /\ id < a
      OBVIOUS
    <3>1. PICK y \in 1..n : y > 1 /\ w[y] = Chat(a)
      BY <1>3
    <3>2. 1 \in 1..n /\ 1 < y
      BY <1>1, <3>1
    <3> QED
      BY <3>1, <3>2, <1>6 DEF Ordered, Holds
  <2>3. \A a \in Nat : Holds(w, a) /\ a # id => Holds(t, a)
    BY <1>4, <1>6, FrameFacts
  <2> QED
    BY <2>1, <2>2, <2>3 DEF IdsOf
<1> QED
  BY <1>1, <1>2, <1>5, <1>6 DEF t

----------------------------------------------------------------------------
(* What is on its way                                                      *)

Connection == [at: {"none", "upgraded", "registered", "greeting", "reading", "gone"},
               hello: Other, wire: Seq(Frame), closed: BOOLEAN, cut: BOOLEAN]

Emitter == [at: {"idle", "ready", "writing"}, event: Frame, left: SUBSET Conns]

Load == [at: {"asked", "answered", "done"}, upto: Nat, under: Conns \cup {NoSocket}]

Socket == [socket: Conns \cup {NoSocket}, open: BOOLEAN, retries: Nat,
           state: {"connecting", "connected", "reconnecting", "disconnected"}]

\* The variables have their types.
Shape ==
    /\ clients \subseteq Conns
    /\ conns \in [Conns -> Connection]
    /\ emitters \in [Emitters -> Emitter]
    /\ table \in Nat
    /\ last \in Nat
    /\ ws \in Socket /\ (ws.open => ws.socket # NoSocket)
    /\ load \in Load
    /\ messages \in Seq(Nat)

Ids(c) == IdsOf(conns[c].wire)

Joined(c) == conns[c].at \notin {"none", "upgraded"}

\* The event of the last message inserted has not been written to c and still will.
Owed(c) == emitters["ingest"].at = "ready" \/ c \in emitters["ingest"].left

\* A connection is in the hub from when it joined until it is closed; before, nobody knows
\* it; and nothing arrives over one that is cut.
Membership ==
    \A c \in Conns :
        /\ c \in clients <=> Joined(c) /\ ~conns[c].closed
        /\ ~Joined(c) => /\ ~conns[c].closed
                         /\ conns[c].wire = <<>>
                         /\ \A e \in Emitters : c \notin emitters[e].left
                         /\ ws.socket = c => last = 0
        /\ conns[c].cut => Ids(c) = {}

\* Only the ingest goroutine emits messages, and its event is that of the last row.
Emission ==
    /\ emitters["ingest"].at # "idle" => table > 0 /\ emitters["ingest"].event = Chat(table)
    /\ emitters["ingest"].at = "idle" => emitters["ingest"].left = {}
    /\ \A e \in Emitters \ {"ingest"} : emitters[e].event \in Other

\* Over a connection come the ids in order; between one and another none is missing, and
\* over a sound connection none after it either: what is not on its way is still owed.
InOrder(c) ==
    /\ Ordered(conns[c].wire)
    /\ \A a \in Ids(c) : a \in 1..table
    /\ Owed(c) => table \notin Ids(c)

NoneMissing(c, a) ==
    /\ \A b \in Ids(c), m \in Nat : a < m /\ m < b => m \in Ids(c)
    /\ ~conns[c].closed /\ ~conns[c].cut =>
          \A m \in Nat : a < m /\ m <= table => m \in Ids(c) \/ (m = table /\ Owed(c))

\* The same from the last id received on, and what is on its way is newer than that.
AfterLast(c) ==
    last # 0 => /\ NoneMissing(c, last)
                /\ \A a \in Ids(c) : last < a
                /\ last <= table
                /\ Owed(c) => last < table

Flow ==
    /\ \A c \in Conns : InOrder(c) /\ \A a \in Ids(c) : NoneMissing(c, a)
    /\ \A c \in Conns : ws.socket = c => AfterLast(c)
    /\ ws.socket = NoSocket => last = 0

Wires == Shape /\ Membership /\ Emission /\ Flow

\* A connection never goes back.
Onward(c) ==
    /\ Joined(c) => Joined(c)'
    /\ conns[c].closed => conns'[c].closed
    /\ conns[c].cut => conns'[c].cut

\* A step that is calm for c writes no message to it and takes none from it, except all at
\* once with the connection's end, and owes it none that it was not owed.
Calm(c) ==
    /\ Ordered(conns'[c].wire)
    /\ \/ IdsOf(conns'[c].wire) = Ids(c)
       \/ IdsOf(conns'[c].wire) = {} /\ (conns'[c].closed \/ conns'[c].cut)
    /\ Onward(c)
    /\ Owed(c)' => Owed(c)
    /\ Owed(c) => Owed(c)' \/ conns'[c].closed \/ conns'[c].cut \/ c \notin clients

\* What one step does to the messages on their way to c: nothing, or a new one is owed, or
\* the one that was is written, or the browser reads one, or it gives the connection up.
Moves(c) ==
    /\ Onward(c)
    /\ \/ table' = table /\ Calm(c)
       \/ table' = table + 1 /\ ~Owed(c) /\ Owed(c)' /\ Ids(c)' = Ids(c)
       \/ table' = table /\ Owed(c) /\ ~Owed(c)' /\ Ids(c)' = Ids(c) \cup {table}
       \/ /\ table' = table /\ ws.socket = c /\ ws'.socket = c
          /\ Owed(c)' <=> Owed(c)
          /\ OnMessage /\ Ids(c)' = Ids(c) \ {last'}
       \/ table' = table /\ ws.socket = c /\ ws'.socket = NoSocket

AllMove == \A c \in Conns : Moves(c)

LEMMA CalmKeepsFlow ==
    ASSUME Wires, \A c \in Conns : Calm(c), UNCHANGED <<table, last, ws.socket>>
    PROVE  Flow'
<1>1. ASSUME NEW c \in Conns
      PROVE  InOrder(c)'
  BY <1>1 DEF Wires, Shape, Flow, InOrder, Calm, Ids
<1>2. ASSUME NEW c \in Conns, NEW a \in Nat, NoneMissing(c, a),
             c \in clients \/ conns[c].closed \/ conns[c].cut
      PROVE  NoneMissing(c, a)'
  <2>1. Calm(c) /\ table' = table
    OBVIOUS
  <2>2. \A b \in Ids(c)', m \in Nat : a < m /\ m < b => m \in Ids(c)'
    BY <1>2, <2>1 DEF NoneMissing, Calm, Onward, Ids
  <2>3. ~conns'[c].closed /\ ~conns'[c].cut =>
          \A m \in Nat : a < m /\ m <= table => m \in Ids(c)' \/ (m = table /\ Owed(c)')
    BY <1>2, <2>1 DEF NoneMissing, Calm, Onward, Ids
  <2> QED
    BY <2>1, <2>2, <2>3 DEF NoneMissing
<1>3. ASSUME NEW c \in Conns, Ids(c) # {} \/ (ws.socket = c /\ last # 0)
      PROVE  c \in clients \/ conns[c].closed \/ conns[c].cut
  <2>1. Joined(c)
    <3> SUFFICES ASSUME ~Joined(c)
                 PROVE  FALSE
      OBVIOUS
    <3>1. conns[c].wire = <<>> /\ (ws.socket = c => last = 0)
      BY DEF Wires, Membership
    <3> QED
      BY <3>1, <1>3, EmptyWire DEF Ids
  <2> QED
    BY <2>1 DEF Wires, Membership
<1>4. ASSUME NEW c \in Conns, NEW a \in Ids(c)'
      PROVE  NoneMissing(c, a)'
  <2>1. Calm(c) /\ Ids(c)' = IdsOf(conns'[c].wire)
    BY DEF Ids
  <2>2. a \in Ids(c) /\ Ids(c) # {}
    BY <1>4, <2>1 DEF Calm, Onward, Joined
  <2>3. NoneMissing(c, a) /\ a \in Nat
    BY <2>2 DEF Wires, Flow, Ids, IdsOf
  <2> QED
    BY <1>2, <1>3, <2>2, <2>3
<1>5. ASSUME NEW c \in Conns, ws.socket = c
      PROVE  AfterLast(c)'
  <2> SUFFICES ASSUME last # 0
               PROVE  /\ NoneMissing(c, last)'
                      /\ \A a \in Ids(c)' : last < a
                      /\ last <= table
                      /\ Owed(c)' => last < table
    BY DEF AfterLast
  <2>1. Calm(c) /\ Ids(c)' = IdsOf(conns'[c].wire) /\ AfterLast(c) /\ last \in Nat
    BY <1>5 DEF Ids, Wires, Shape, Flow
  <2>2. /\ NoneMissing(c, last)
        /\ \A a \in Ids(c) : last < a
        /\ last <= table
        /\ Owed(c) => last < table
    BY <2>1 DEF AfterLast
  <2>3. NoneMissing(c, last)'
    <3>0. PICK a \in Nat : a = last
      BY <2>1
    <3>1. a \in Nat /\ NoneMissing(c, a) /\ last' = a
      BY <3>0, <2>2
    <3>2. NoneMissing(c, a)'
      BY <1>2, <1>3, <1>5, <3>1
    <3> QED
      BY <3>1, <3>2 DEF NoneMissing
  <2>4. Ids(c)' \subseteq Ids(c) /\ (Owed(c)' => Owed(c))
    BY <2>1 DEF Calm, Onward, Joined
  <2> QED
    BY <2>2, <2>3, <2>4
<1> QED
  BY <1>1, <1>4, <1>5 DEF Flow, Wires

\* The browser and the tables a step of the server leaves alone.
Still == UNCHANGED <<table, last, ws, load, messages>>

\* What a step of the server has to show.
LEMMA CalmKeepsWires ==
    ASSUME Wires, Still, \A c \in Conns : Calm(c),
           clients' \subseteq Conns, conns' \in [Conns -> Connection],
           emitters' \in [Emitters -> Emitter], Membership', Emission'
    PROVE  Wires' /\ AllMove
<1>1. Shape'
  BY DEF Wires, Shape, Still
<1>2. Flow'
  BY CalmKeepsFlow DEF Still
<1>3. AllMove
  BY DEF AllMove, Moves, Calm, Still
<1> QED
  BY <1>1, <1>2, <1>3 DEF Wires

LEMMA InsertKeeps == ASSUME Wires, Insert PROVE Wires' /\ AllMove
<1>1. /\ emitters["ingest"].at = "idle" /\ emitters["ingest"].left = {}
      /\ emitters["ingest"] \in Emitter /\ "ingest" \in Emitters
      /\ emitters' = [emitters EXCEPT !["ingest"] = [@ EXCEPT !.at = "ready", !.event = Chat(table + 1)]]
      /\ table' = table + 1 /\ table \in Nat
      /\ UNCHANGED <<clients, conns, last, ws, load, messages>>
  BY RealtimeAssumption DEF Insert, Emits, browser, Wires, Shape, Emission
<1>2. /\ \A e \in Emitters \ {"ingest"} : emitters'[e] = emitters[e]
      /\ emitters'["ingest"].at = "ready"
      /\ emitters'["ingest"].event = Chat(table + 1)
      /\ emitters'["ingest"].left = emitters["ingest"].left
      /\ emitters' \in [Emitters -> Emitter]
  <2> DEFINE r == [emitters["ingest"] EXCEPT !.at = "ready", !.event = Chat(table + 1)]
  <2>1. Chat(table + 1) \in Frame
    BY <1>1 DEF Frame
  <2>2. /\ emitters' = [emitters EXCEPT !["ingest"] = r]
        /\ r \in Emitter /\ r.at = "ready" /\ r.event = Chat(table + 1)
        /\ r.left = emitters["ingest"].left
    BY <1>1, <2>1 DEF Emitter
  <2> HIDE DEF r
  <2> QED
    BY <1>1, <2>2 DEF Wires, Shape
<1>3. \A e \in Emitters : emitters'[e].left = emitters[e].left
  BY <1>2
<1>4. Shape' /\ Membership' /\ Emission'
  <2>1. Shape'
    BY <1>1, <1>2 DEF Wires, Shape
  <2>2. Membership'
    BY <1>1, <1>3 DEF Wires, Membership, Joined, Ids
  <2>3. Emission'
    BY <1>1, <1>2, <1>3 DEF Wires, Emission
  <2> QED
    BY <2>1, <2>2, <2>3
<1>5. ASSUME NEW c \in Conns
      PROVE  ~Owed(c) /\ Owed(c)' /\ Ids(c)' = Ids(c) /\ \A a \in Ids(c) : a \in 1..table
  <2>1. ~Owed(c) /\ Owed(c)'
    BY <1>1, <1>2 DEF Owed
  <2>2. Ids(c)' = Ids(c)
    BY <1>1 DEF Ids
  <2> QED
    BY <2>1, <2>2 DEF Wires, Flow, InOrder
<1>6. ASSUME NEW c \in Conns, NEW a \in Nat, NoneMissing(c, a)
      PROVE  NoneMissing(c, a)'
  <2>1. ASSUME NEW m \in Nat, a < m, m <= table + 1, ~conns[c].closed, ~conns[c].cut
        PROVE  m \in Ids(c) \/ m = table + 1
    BY <1>1, <1>5, <1>6, <2>1 DEF NoneMissing
  <2> QED
    BY <1>1, <1>5, <1>6, <2>1 DEF NoneMissing
<1>7. ASSUME NEW c \in Conns
      PROVE  InOrder(c)' /\ \A a \in Ids(c)' : NoneMissing(c, a)'
  <2>1. InOrder(c)'
    BY <1>1, <1>5 DEF Wires, Flow, InOrder
  <2>2. ASSUME NEW a \in Ids(c)'
        PROVE  NoneMissing(c, a)'
    BY <1>5, <1>6, <2>2 DEF Wires, Flow, Ids, IdsOf
  <2> QED
    BY <2>1, <2>2
<1>8. ASSUME NEW c \in Conns, ws.socket = c, last # 0
      PROVE  AfterLast(c)'
  <2>1. PICK a \in Nat : a = last
    BY DEF Wires, Shape
  <2>2. NoneMissing(c, a) /\ (\A b \in Ids(c) : a < b) /\ a <= table
    BY <1>8, <2>1 DEF Wires, Flow, AfterLast
  <2>3. NoneMissing(c, a)'
    BY <1>6, <2>2
  <2> QED
    BY <1>1, <1>5, <2>1, <2>2, <2>3 DEF AfterLast, NoneMissing
<1>9. Flow'
  <2>1. \A c \in Conns : ws'.socket = c => AfterLast(c)'
    BY <1>1, <1>8 DEF AfterLast
  <2> QED
    BY <1>1, <1>7, <2>1 DEF Wires, Flow
<1> QED
  BY <1>1, <1>4, <1>5, <1>9 DEF Wires, AllMove, Moves, Onward, Joined

LEMMA TickKeeps == ASSUME Wires, Tick PROVE Wires' /\ AllMove
<1>1. /\ emitters["ticker"].at = "idle" /\ "ticker" \in Emitters
      /\ emitters' = [emitters EXCEPT !["ticker"] = [@ EXCEPT !.at = "ready", !.event = Heartbeat(Status)]]
      /\ UNCHANGED <<clients, conns, table, last, ws, load, messages>>
  BY RealtimeAssumption DEF Tick, Emits, browser
<1>2. Heartbeat(Status) \in Other /\ Heartbeat(Status) \in Frame
  BY DEF Other, Frame, Status
<1>3. /\ \A e \in Emitters : emitters'[e].left = emitters[e].left
      /\ \A e \in Emitters \ {"ticker"} : emitters'[e] = emitters[e]
      /\ emitters'["ticker"].event \in Other
      /\ emitters' \in [Emitters -> Emitter]
  BY <1>1, <1>2 DEF Wires, Shape, Emitter
<1>4. "ingest" \in Emitters \ {"ticker"}
  BY RealtimeAssumption
<1>5. \A c \in Conns : Calm(c)
  BY <1>1, <1>3, <1>4 DEF Calm, Onward, Joined, Ids, Owed, Wires, Flow, InOrder
<1>6. Membership' /\ Emission'
  <2>1. Membership'
    BY <1>1, <1>3 DEF Wires, Membership, Joined, Ids
  <2>2. Emission'
    BY <1>1, <1>3, <1>4 DEF Wires, Emission
  <2> QED
    BY <2>1, <2>2
<1> QED
  BY <1>1, <1>3, <1>5, <1>6, CalmKeepsWires DEF Still, Wires, Shape

LEMMA SnapshotKeeps ==
    ASSUME Wires, NEW e \in Emitters, Snapshot(e), UNCHANGED Others
    PROVE  Wires' /\ AllMove
<1>1. /\ emitters[e].at = "ready"
      /\ emitters' = [emitters EXCEPT ![e] = IF clients = {} THEN Resting
                                              ELSE [@ EXCEPT !.at = "writing", !.left = clients]]
      /\ UNCHANGED <<clients, conns, table, last, ws, load, messages>>
  BY DEF Snapshot, Others, browser
<1>2. /\ \A d \in Emitters \ {e} : emitters'[d] = emitters[d]
      /\ emitters'[e].left = clients
      /\ emitters'[e].at # "ready"
      /\ emitters'[e].event = emitters[e].event \/ emitters'[e].event = NoEvent
      /\ emitters'[e].at = "idle" \/ emitters'[e].event = emitters[e].event
      /\ emitters'[e].at = "idle" => clients = {}
      /\ emitters' \in [Emitters -> Emitter]
  <2>1. emitters[e] \in Emitter /\ NoEvent \in Frame /\ clients \subseteq Conns
    BY FrameFacts DEF Wires, Shape, Frame
  <2>2. CASE clients = {}
    <3>1. emitters' = [emitters EXCEPT ![e] = Resting] /\ Resting \in Emitter
      BY <1>1, <2>1, <2>2 DEF Resting, Emitter
    <3> QED
      BY <3>1, <2>2 DEF Resting, Wires, Shape
  <2>3. CASE clients # {}
    <3> DEFINE r == [emitters[e] EXCEPT !.at = "writing", !.left = clients]
    <3>1. /\ emitters' = [emitters EXCEPT ![e] = r]
          /\ r \in Emitter /\ r.at = "writing" /\ r.left = clients /\ r.event = emitters[e].event
      BY <1>1, <2>1, <2>3 DEF Emitter
    <3> HIDE DEF r
    <3> QED
      BY <3>1, <2>3 DEF Wires, Shape
  <2> QED
    BY <2>2, <2>3
<1>3. "ingest" \in Emitters
  BY RealtimeAssumption
<1>4. ASSUME NEW c \in Conns
      PROVE  Calm(c)
  BY <1>1, <1>2, <1>3 DEF Calm, Onward, Joined, Ids, Owed, Wires, Flow, InOrder, Emission
<1>5. Membership'
  BY <1>1, <1>2 DEF Wires, Membership, Joined, Ids
<1>6. Emission'
  BY <1>1, <1>2, <1>3, FrameFacts DEF Wires, Emission
<1> QED
  BY <1>1, <1>2, <1>4, <1>5, <1>6, CalmKeepsWires DEF Still, Wires, Shape

\* A step that changes one connection, calmly.
LEMMA OneConnection ==
    ASSUME Wires, Still, NEW c \in Conns, NEW r \in Connection,
           conns' = [conns EXCEPT ![c] = r],
           clients' \in {clients, clients \cup {c}, clients \ {c}},
           Ordered(r.wire),
           IdsOf(r.wire) = Ids(c) \/ (IdsOf(r.wire) = {} /\ (r.closed \/ r.cut)),
           conns[c].closed => r.closed,
           conns[c].cut => r.cut,
           r.cut => IdsOf(r.wire) = {},
           r.at \in {"none", "upgraded"} => ~Joined(c) /\ ~r.closed /\ r.wire = <<>>,
           c \in clients' <=> r.at \notin {"none", "upgraded"} /\ ~r.closed,
           emitters' \in [Emitters -> Emitter],
           Emission',
           \A e \in Emitters : emitters'[e].left \subseteq emitters[e].left,
           emitters["ingest"].at # "ready" => emitters'["ingest"].at # "ready",
           \A d \in Conns : Owed(d) => Owed(d)' \/ (d = c /\ (r.closed \/ r.cut))
    PROVE  Wires' /\ AllMove
<1>1. /\ conns'[c] = r
      /\ \A d \in Conns \ {c} : conns'[d] = conns[d] /\ (d \in clients' <=> d \in clients)
      /\ conns' \in [Conns -> Connection]
      /\ clients' \subseteq Conns
  BY DEF Wires, Shape
<1>2. "ingest" \in Emitters
  BY RealtimeAssumption
<1>3. \A d \in Conns : Owed(d)' => Owed(d)
  BY <1>2 DEF Owed
<1>4. ASSUME NEW d \in Conns
      PROVE  Calm(d)
  <2>1. CASE d = c
    BY <1>1, <1>3, <2>1 DEF Calm, Onward, Joined
  <2>2. CASE d # c
    BY <1>1, <1>3, <2>2 DEF Calm, Onward, Joined, Wires, Flow, InOrder, Ids
  <2> QED
    BY <2>1, <2>2
<1>5. Membership'
  <2>1. ASSUME NEW d \in Conns \ {c}
        PROVE  /\ d \in clients' <=> Joined(d)' /\ ~conns'[d].closed
               /\ ~Joined(d)' => /\ ~conns'[d].closed
                                 /\ conns'[d].wire = <<>>
                                 /\ \A e \in Emitters : d \notin emitters'[e].left
                                 /\ ws'.socket = d => last' = 0
               /\ conns'[d].cut => Ids(d)' = {}
    BY <1>1 DEF Wires, Membership, Joined, Ids, Still
  <2>2. /\ c \in clients' <=> Joined(c)' /\ ~conns'[c].closed
        /\ ~Joined(c)' => /\ ~conns'[c].closed
                          /\ conns'[c].wire = <<>>
                          /\ \A e \in Emitters : c \notin emitters'[e].left
                          /\ ws'.socket = c => last' = 0
        /\ conns'[c].cut => Ids(c)' = {}
    BY <1>1 DEF Wires, Membership, Joined, Ids, Still
  <2> QED
    BY <2>1, <2>2 DEF Membership
<1> QED
  BY <1>1, <1>4, <1>5, CalmKeepsWires

\* The same when no emitter moves.
LEMMA OneConnectionOnly ==
    ASSUME Wires, Still, NEW c \in Conns, NEW r \in Connection,
           conns' = [conns EXCEPT ![c] = r],
           clients' \in {clients, clients \cup {c}, clients \ {c}},
           emitters' = emitters,
           Ordered(r.wire),
           IdsOf(r.wire) = Ids(c) \/ (IdsOf(r.wire) = {} /\ (r.closed \/ r.cut)),
           conns[c].closed => r.closed,
           conns[c].cut => r.cut,
           r.cut => IdsOf(r.wire) = {},
           r.at \in {"none", "upgraded"} => ~Joined(c) /\ ~r.closed /\ r.wire = <<>>,
           c \in clients' <=> r.at \notin {"none", "upgraded"} /\ ~r.closed
    PROVE  Wires' /\ AllMove
<1>1. Emission' /\ emitters' \in [Emitters -> Emitter]
  BY DEF Wires, Shape, Emission, Still
<1>2. \A d \in Conns : Owed(d) => Owed(d)'
  BY DEF Owed
<1> QED
  BY <1>1, <1>2, OneConnection

\* What is left of a connection that is dropped.
LEMMA DroppedFacts ==
    ASSUME Wires, NEW c \in Conns
    PROVE  /\ Dropped(c) \in Connection
           /\ Dropped(c).closed
           /\ Dropped(c).at = conns[c].at
           /\ Dropped(c).cut = conns[c].cut
           /\ Ordered(Dropped(c).wire)
           /\ IdsOf(Dropped(c).wire) = Ids(c)
<1>1. conns[c] \in Connection /\ Ordered(conns[c].wire)
  BY DEF Wires, Shape, Flow, InOrder
<1>2. CASE conns[c].cut
  <2>1. Ids(c) = {}
    BY <1>2 DEF Wires, Membership
  <2>2. Dropped(c) = [conns[c] EXCEPT !.closed = TRUE, !.wire = <<>>]
    BY <1>2 DEF Dropped
  <2> QED
    BY <1>1, <2>1, <2>2, EmptyWire DEF Connection
<1>3. CASE ~conns[c].cut
  <2>1. Dropped(c) = [conns[c] EXCEPT !.closed = TRUE, !.wire = @]
    BY <1>3 DEF Dropped
  <2> QED
    BY <1>1, <2>1 DEF Connection, Ids
<1> QED
  BY <1>1, <1>2, <1>3 DEF Connection

\* Anything but a message written to a connection, and anything at all written to one that
\* is cut.
LEMMA WrittenFacts ==
    ASSUME Wires, NEW c \in Conns, NEW f \in Frame, f \in Other \/ conns[c].cut
    PROVE  /\ Written(c, f) \in Seq(Frame)
           /\ Ordered(Written(c, f))
           /\ IdsOf(Written(c, f)) = Ids(c)
<1>1. conns[c].wire \in Seq(Frame) /\ Ordered(conns[c].wire) /\ conns[c].cut \in BOOLEAN
  BY DEF Wires, Shape, Flow, InOrder, Connection
<1>2. PICK g \in Other : Written(c, f) = Append(conns[c].wire, g)
  BY <1>1, FrameFacts DEF Written
<1> QED
  BY <1>1, <1>2, AppendOther DEF Ids

\* The goroutine of a connection, from the upgrade to its end.
LEMMA ServeKeeps ==
    ASSUME Wires, Still, NEW c \in Conns,
           \/ Upgrade(c) \/ Register(c) \/ Greet(c, Heartbeat(Status)) \/ SendGreeting(c)
           \/ Leave(c)
    PROVE  Wires' /\ AllMove
<1>1. /\ conns[c] \in Connection
      /\ Ordered(conns[c].wire)
      /\ conns \in [Conns -> Connection]
      /\ conns[c].cut => Ids(c) = {}
      /\ c \in clients <=> Joined(c) /\ ~conns[c].closed
      /\ ~Joined(c) => ~conns[c].closed /\ conns[c].wire = <<>>
  BY DEF Wires, Shape, Flow, InOrder, Membership
<1>2. CASE Upgrade(c)
  <2> DEFINE r == [conns[c] EXCEPT !.at = "upgraded"]
  <2>1. /\ r \in Connection /\ r.at = "upgraded" /\ r.wire = conns[c].wire
        /\ r.closed = conns[c].closed /\ r.cut = conns[c].cut
    BY <1>1 DEF Connection
  <2>2. /\ conns' = [conns EXCEPT ![c] = r] /\ UNCHANGED <<clients, emitters>>
        /\ ~Joined(c)
    BY <1>2 DEF Upgrade, Joined
  <2> HIDE DEF r
  <2> QED
    BY <1>1, <2>1, <2>2, OneConnectionOnly DEF Ids
<1>3. CASE Register(c)
  <2> DEFINE r == [conns[c] EXCEPT !.at = "registered"]
  <2>1. /\ r \in Connection /\ r.at = "registered" /\ r.wire = conns[c].wire
        /\ r.closed = conns[c].closed /\ r.cut = conns[c].cut
    BY <1>1 DEF Connection
  <2>2. /\ conns' = [conns EXCEPT ![c] = r]
        /\ clients' = clients \cup {c} /\ emitters' = emitters
        /\ ~Joined(c)
    BY <1>3 DEF Register, Joined
  <2> HIDE DEF r
  <2> QED
    BY <1>1, <2>1, <2>2, OneConnectionOnly DEF Ids
<1>4. CASE Greet(c, Heartbeat(Status))
  <2> DEFINE r == [conns[c] EXCEPT !.at = "greeting", !.hello = Heartbeat(Status)]
  <2>1. Heartbeat(Status) \in Other
    BY DEF Other, Status
  <2>2. /\ r \in Connection /\ r.at = "greeting" /\ r.wire = conns[c].wire
        /\ r.closed = conns[c].closed /\ r.cut = conns[c].cut
    BY <1>1, <2>1 DEF Connection
  <2>3. /\ conns' = [conns EXCEPT ![c] = r] /\ UNCHANGED <<clients, emitters>>
        /\ Joined(c)
    BY <1>4 DEF Greet, Joined
  <2> HIDE DEF r
  <2> QED
    BY <1>1, <2>2, <2>3, OneConnectionOnly DEF Ids
<1>5. CASE SendGreeting(c) /\ UNCHANGED clients /\ ~conns'[c].closed
  <2> DEFINE w == Written(c, conns[c].hello)
             r == [conns[c] EXCEPT !.at = "reading", !.hello = NoEvent, !.wire = w]
  <2>1. conns[c].hello \in Other /\ conns[c].hello \in Frame /\ NoEvent \in Other
    BY <1>1, FrameFacts DEF Connection, Frame
  <2>2. w \in Seq(Frame) /\ Ordered(w) /\ IdsOf(w) = Ids(c)
    BY <2>1, WrittenFacts
  <2>3. /\ conns' = [conns EXCEPT ![c] = r] /\ emitters' = emitters
        /\ Joined(c)
    <3>1. Dropped(c).closed
      BY DroppedFacts
    <3>2. /\ \/ conns' = [conns EXCEPT ![c] = r]
             \/ conns' = [conns EXCEPT ![c] = [Dropped(c) EXCEPT !.at = "gone", !.hello = NoEvent]]
          /\ emitters' = emitters
          /\ Joined(c)
      BY <1>5 DEF SendGreeting, Joined
    <3> DEFINE g == [Dropped(c) EXCEPT !.at = "gone", !.hello = NoEvent]
    <3>3. g.closed
      BY <3>1, DroppedFacts DEF Connection
    <3> HIDE DEF g, r
    <3> QED
      BY <1>1, <1>5, <3>2, <3>3 DEF g
  <2> HIDE DEF w
  <2>4. /\ r \in Connection /\ r.at = "reading" /\ r.wire = w
        /\ r.closed = conns[c].closed /\ r.cut = conns[c].cut
    BY <1>1, <2>1, <2>2 DEF Connection
  <2> HIDE DEF r
  <2> QED
    BY <1>1, <1>5, <2>2, <2>3, <2>4, OneConnectionOnly DEF Ids
<1>6. ASSUME NEW hello \in Other,
             conns' = [conns EXCEPT ![c] = [Dropped(c) EXCEPT !.at = "gone", !.hello = hello]],
             clients' = clients \ {c}, emitters' = emitters
      PROVE  Wires' /\ AllMove
  <2> DEFINE r == [Dropped(c) EXCEPT !.at = "gone", !.hello = hello]
  <2>1. /\ r \in Connection /\ r.at = "gone" /\ r.wire = Dropped(c).wire
        /\ r.closed /\ r.cut = conns[c].cut
    BY DroppedFacts DEF Connection
  <2>2. conns' = [conns EXCEPT ![c] = r]
    BY <1>6
  <2> HIDE DEF r
  <2>3. Ordered(r.wire) /\ IdsOf(r.wire) = Ids(c)
    BY <2>1, DroppedFacts
  <2>4. r.cut => IdsOf(r.wire) = {}
    BY <1>1, <2>1, <2>3
  <2> QED
    BY <1>6, <2>1, <2>2, <2>3, <2>4, OneConnectionOnly
<1>7. CASE Leave(c)
  <2>1. Dropped(c).hello = conns[c].hello /\ conns[c].hello \in Other
    BY <1>1 DEF Dropped, Connection
  <2>2. [Dropped(c) EXCEPT !.at = "gone"] = [Dropped(c) EXCEPT !.at = "gone", !.hello = conns[c].hello]
    BY <2>1, DroppedFacts DEF Connection
  <2> QED
    BY <1>6, <1>7, <2>1, <2>2 DEF Leave
<1>8. CASE SendGreeting(c) /\ ~(UNCHANGED clients /\ ~conns'[c].closed)
  <2> DEFINE w == Written(c, conns[c].hello)
             r == [conns[c] EXCEPT !.at = "reading", !.hello = NoEvent, !.wire = w]
  <2>1. NoEvent \in Other
    BY FrameFacts
  <2>2. conns' = [conns EXCEPT ![c] = r] /\ ~conns[c].closed /\ UNCHANGED clients => ~conns'[c].closed
    <3>1. r.closed = conns[c].closed
      BY <1>1 DEF Connection
    <3> HIDE DEF r
    <3> QED
      BY <1>1, <3>1
  <2> HIDE DEF w
  <2>3. /\ conns' = [conns EXCEPT ![c] = [Dropped(c) EXCEPT !.at = "gone", !.hello = NoEvent]]
        /\ clients' = clients \ {c} /\ emitters' = emitters
    BY <1>8, <2>2 DEF SendGreeting, w
  <2> QED
    BY <1>6, <2>1, <2>3
<1> QED
  BY <1>2, <1>3, <1>4, <1>5, <1>7, <1>8

LEMMA CutKeeps ==
    ASSUME Wires, Still, NEW c \in Conns, Cut(c)
    PROVE  Wires' /\ AllMove
<1> DEFINE r == [conns[c] EXCEPT !.cut = TRUE, !.wire = <<>>]
<1>1. /\ conns[c] \in Connection
      /\ c \in clients <=> Joined(c) /\ ~conns[c].closed
      /\ ~Joined(c) => ~conns[c].closed
  BY DEF Wires, Shape, Membership
<1>2. /\ r \in Connection /\ r.at = conns[c].at /\ r.wire = <<>>
      /\ r.closed = conns[c].closed /\ r.cut
  BY <1>1, EmptyWire DEF Connection
<1>3. conns' = [conns EXCEPT ![c] = r] /\ UNCHANGED <<clients, emitters>>
  BY DEF Cut
<1> HIDE DEF r
<1>4. Ordered(r.wire) /\ IdsOf(r.wire) = {}
  BY <1>2, EmptyWire
<1>5. r.at \in {"none", "upgraded"} <=> ~Joined(c)
  BY <1>2 DEF Joined
<1> QED
  BY <1>1, <1>2, <1>3, <1>4, <1>5, OneConnectionOnly

\* An emitter goes on to the clients left, or is done.
LEMMA EmitterGoesOn ==
    ASSUME Wires, Still, NEW e \in Emitters, NEW c \in Conns, WriteTo(e, c)
    PROVE  /\ emitters' \in [Emitters -> Emitter]
           /\ Emission'
           /\ \A d \in Emitters : emitters'[d].left \subseteq emitters[d].left
           /\ emitters["ingest"].at # "ready" => emitters'["ingest"].at # "ready"
           /\ \A d \in Conns \ {c} : Owed(d) => Owed(d)'
           /\ e # "ingest" => (Owed(c) => Owed(c)')
           /\ e = "ingest" => ~Owed(c)' /\ Owed(c)
           /\ Joined(c)
<1> DEFINE new == IF emitters[e].left = {c} THEN Resting
                  ELSE [emitters[e] EXCEPT !.left = emitters[e].left \ {c}]
<1>1. /\ emitters[e].at = "writing" /\ c \in emitters[e].left
      /\ DOMAIN emitters' = Emitters /\ emitters' = [d \in Emitters |-> emitters'[d]]
      /\ emitters'[e] = new
      /\ \A d \in Emitters \ {e} : emitters'[d] = emitters[d]
      /\ emitters \in [Emitters -> Emitter] /\ emitters[e] \in Emitter
      /\ "ingest" \in Emitters
  <2>1. emitters[e].at = "writing" /\ c \in emitters[e].left
    BY DEF WriteTo
  <2>2. emitters \in [Emitters -> Emitter] /\ emitters[e] \in Emitter /\ "ingest" \in Emitters
    BY RealtimeAssumption DEF Wires, Shape
  <2>3. /\ DOMAIN emitters' = Emitters /\ emitters' = [d \in Emitters |-> emitters'[d]]
        /\ \A d \in Emitters \ {e} : emitters'[d] = emitters[d]
    BY <2>2 DEF WriteTo
  <2>4. emitters'[e] = new
    BY <2>2 DEF WriteTo
  <2> QED
    BY <2>1, <2>2, <2>3, <2>4
<1>2. /\ new \in Emitter
      /\ new.left = emitters[e].left \ {c}
      /\ new.at # "ready"
      /\ new.at = "idle" => new.left = {}
      /\ new.at = "idle" \/ new.event = emitters[e].event
      /\ new.event \in {emitters[e].event, NoEvent}
  <2>1. CASE emitters[e].left = {c}
    <3>1. new = Resting /\ NoEvent \in Frame
      BY <2>1, FrameFacts DEF Frame
    <3> QED
      BY <2>1, <3>1 DEF Resting, Emitter
  <2>2. CASE emitters[e].left # {c}
    <3>1. new = [emitters[e] EXCEPT !.left = emitters[e].left \ {c}]
      BY <2>2
    <3> QED
      BY <1>1, <3>1 DEF Emitter
  <2> QED
    BY <2>1, <2>2
<1> HIDE DEF new
<1>3. /\ emitters' \in [Emitters -> Emitter]
      /\ emitters'[e] = new
      /\ \A d \in Emitters \ {e} : emitters'[d] = emitters[d]
  <2>1. \A d \in Emitters : emitters'[d] \in Emitter
    BY <1>1, <1>2
  <2> QED
    BY <1>1, <2>1
<1>4. Emission'
  <2>1. CASE e = "ingest"
    BY <1>1, <1>2, <1>3, <2>1 DEF Wires, Emission, Still
  <2>2. CASE e # "ingest"
    BY <1>1, <1>2, <1>3, <2>2, FrameFacts DEF Wires, Emission, Still
  <2> QED
    BY <2>1, <2>2
<1>5. Joined(c)
  BY <1>1 DEF Wires, Membership
<1>6. /\ \A d \in Conns \ {c} : Owed(d) => Owed(d)'
      /\ e # "ingest" => (Owed(c) => Owed(c)')
      /\ e = "ingest" => ~Owed(c)' /\ Owed(c)
  BY <1>1, <1>2, <1>3 DEF Owed
<1>7. \A d \in Emitters : emitters'[d].left \subseteq emitters[d].left
  BY <1>2, <1>3
<1>8. emitters["ingest"].at # "ready" => emitters'["ingest"].at # "ready"
  BY <1>1, <1>2, <1>3
<1> QED
  BY <1>3, <1>4, <1>5, <1>6, <1>7, <1>8

\* A message written to a sound connection is the one that was owed to it, the next after
\* all that it was sent.
LEMMA MessageWritten ==
    ASSUME Wires, Still, NEW c \in Conns, WriteTo("ingest", c),
           WriteSucceeds(c, emitters["ingest"].event), ~conns[c].cut
    PROVE  Wires' /\ AllMove
<1> DEFINE w == Append(conns[c].wire, Chat(table))
           r == [conns[c] EXCEPT !.wire = w]
<1>1. /\ "ingest" \in Emitters
      /\ conns[c] \in Connection /\ conns \in [Conns -> Connection]
      /\ Ordered(conns[c].wire) /\ conns[c].wire \in Seq(Frame)
      /\ table \in Nat /\ last \in Nat
      /\ \A a \in Ids(c) : a \in 1..table
      /\ Owed(c) => table \notin Ids(c)
  BY RealtimeAssumption DEF Wires, Shape, Flow, InOrder, Connection
<1>2. /\ emitters' \in [Emitters -> Emitter] /\ Emission'
      /\ \A d \in Emitters : emitters'[d].left \subseteq emitters[d].left
      /\ emitters["ingest"].at # "ready" => emitters'["ingest"].at # "ready"
      /\ \A d \in Conns \ {c} : Owed(d) => Owed(d)'
      /\ ~Owed(c)' /\ Owed(c) /\ Joined(c)
  BY <1>1, EmitterGoesOn
<1>3. /\ emitters["ingest"].event = Chat(table) /\ table > 0
      /\ ~conns[c].closed /\ clients' = clients
  BY DEF WriteTo, WriteSucceeds, Wires, Emission
<1>4. conns' = [conns EXCEPT ![c] = r]
  BY <1>3 DEF WriteSucceeds, Written
<1>5. /\ w \in Seq(Frame) /\ Ordered(w)
      /\ IdsOf(w) = Ids(c) \cup {table}
  BY <1>1, <1>2, AppendChat DEF Ids
<1> HIDE DEF w
<1>6. /\ r \in Connection /\ r.at = conns[c].at /\ r.wire = w
      /\ r.closed = conns[c].closed /\ r.cut = conns[c].cut
  BY <1>1, <1>5 DEF Connection
<1> HIDE DEF r
<1>7. /\ conns'[c] = r
      /\ \A d \in Conns \ {c} : conns'[d] = conns[d]
      /\ conns' \in [Conns -> Connection]
  BY <1>1, <1>4, <1>6
<1>8. Shape'
  BY <1>2, <1>3, <1>7 DEF Wires, Shape, Still
<1>9. Membership'
  <2>1. c \in clients
    BY <1>2, <1>3 DEF Wires, Membership
  <2>2. Joined(c)' /\ ~conns'[c].cut /\ ~conns'[c].closed
    BY <1>2, <1>3, <1>6, <1>7 DEF Joined
  <2>3. \A d \in Conns \ {c} : Ids(d)' = Ids(d) /\ (Joined(d)' <=> Joined(d))
    BY <1>7 DEF Ids, Joined
  <2> QED
    BY <1>2, <1>3, <1>7, <2>1, <2>2, <2>3 DEF Wires, Membership, Still
<1>10. Ids(c)' = Ids(c) \cup {table}
  BY <1>5, <1>6, <1>7 DEF Ids
<1>11. ASSUME NEW a \in Nat, NoneMissing(c, a), a <= table
       PROVE  NoneMissing(c, a)'
  <2>1. \A m \in Nat : a < m /\ m <= table => m \in Ids(c)'
    BY <1>3, <1>10, <1>11 DEF NoneMissing
  <2>2. \A b \in Ids(c)', m \in Nat : a < m /\ m < b => m \in Ids(c)'
    BY <1>1, <1>10, <2>1
  <2> QED
    BY <2>1, <2>2 DEF NoneMissing, Still
<1>12. ASSUME NEW a \in Ids(c)'
       PROVE  NoneMissing(c, a)'
  <2>1. CASE a = table
    BY <1>1, <1>10, <2>1 DEF NoneMissing, Still
  <2>2. CASE a # table
    BY <1>1, <1>10, <1>11, <2>2 DEF Wires, Flow
  <2> QED
    BY <2>1, <2>2
<1>13. ASSUME NEW d \in Conns
       PROVE  InOrder(d)' /\ \A a \in Ids(d)' : NoneMissing(d, a)'
  <2>1. CASE d = c
    <3>1. InOrder(c)'
      <4>1. Ordered(conns'[c].wire)
        BY <1>5, <1>6, <1>7
      <4>2. \A a \in Ids(c)' : a \in 1..table
        BY <1>1, <1>3, <1>10
      <4> QED
        BY <4>1, <4>2, <1>2 DEF InOrder, Still
    <3> QED
      BY <2>1, <3>1, <1>12
  <2>2. CASE d # c
    <3>1. /\ conns'[d] = conns[d] /\ Ids(d)' = Ids(d) /\ table' = table
          /\ Owed(d)' <=> Owed(d)
      BY <1>2, <1>7, <2>2, <1>1 DEF Ids, Owed, Still
    <3>2. InOrder(d)'
      BY <3>1 DEF InOrder, Wires, Flow
    <3>3. \A a \in Ids(d)' : NoneMissing(d, a)'
      BY <3>1 DEF NoneMissing, Wires, Flow
    <3> QED
      BY <3>2, <3>3
  <2> QED
    BY <2>1, <2>2
<1>14. ASSUME NEW d \in Conns, ws.socket = d, last # 0
       PROVE  AfterLast(d)'
  <2>1. PICK a \in Nat : a = last
    BY <1>1
  <2>2. /\ NoneMissing(d, a) /\ (\A b \in Ids(d) : a < b) /\ a <= table
        /\ Owed(d) => a < table
    BY <1>14, <2>1 DEF Wires, Flow, AfterLast
  <2>3. CASE d = c
    <3>1. NoneMissing(c, a)'
      BY <1>11, <2>2, <2>3
    <3> QED
      BY <1>2, <1>10, <2>1, <2>2, <2>3, <3>1 DEF AfterLast, NoneMissing, Still
  <2>4. CASE d # c
    <3>1. /\ conns'[d] = conns[d] /\ Ids(d)' = Ids(d) /\ table' = table
          /\ Owed(d)' <=> Owed(d)
      BY <1>2, <1>7, <2>4, <1>1 DEF Ids, Owed, Still
    <3> QED
      BY <2>1, <2>2, <3>1 DEF AfterLast, NoneMissing, Still
  <2> QED
    BY <2>3, <2>4
<1>15. Flow'
  <2>1. \A d \in Conns : ws'.socket = d => AfterLast(d)'
    BY <1>14 DEF AfterLast, Still
  <2> QED
    BY <1>13, <2>1 DEF Wires, Flow, Still
<1>16. ASSUME NEW d \in Conns
       PROVE  Moves(d)
  <2>1. CASE d = c
    <3>1. Onward(c)
      BY <1>6, <1>7 DEF Onward, Joined
    <3> QED
      BY <1>2, <1>10, <2>1, <3>1 DEF Moves, Still
  <2>2. CASE d # c
    <3>1. /\ conns'[d] = conns[d] /\ Ordered(conns[d].wire) /\ table' = table
          /\ Owed(d)' <=> Owed(d)
      BY <1>1, <1>2, <1>7, <2>2 DEF Owed, Still, Wires, Flow, InOrder
    <3> QED
      BY <3>1 DEF Moves, Calm, Onward, Joined, Ids
  <2> QED
    BY <2>1, <2>2
<1> QED
  BY <1>2, <1>8, <1>9, <1>15, <1>16 DEF Wires, AllMove

LEMMA WriteKeeps ==
    ASSUME Wires, Still, NEW e \in Emitters, NEW c \in Conns, WriteTo(e, c)
    PROVE  Wires' /\ AllMove
<1>1. /\ emitters' \in [Emitters -> Emitter] /\ Emission'
      /\ \A d \in Emitters : emitters'[d].left \subseteq emitters[d].left
      /\ emitters["ingest"].at # "ready" => emitters'["ingest"].at # "ready"
      /\ \A d \in Conns \ {c} : Owed(d) => Owed(d)'
      /\ e # "ingest" => (Owed(c) => Owed(c)')
      /\ Joined(c)
  BY EmitterGoesOn
<1>2. /\ conns[c] \in Connection /\ conns \in [Conns -> Connection]
      /\ conns[c].cut => Ids(c) = {}
      /\ c \in clients <=> ~conns[c].closed
  BY <1>1 DEF Wires, Shape, Membership
<1>3. CASE WriteFails(c)
  <2> DEFINE r == Dropped(c)
  <2>1. /\ conns' = [conns EXCEPT ![c] = r] /\ clients' = clients \ {c}
    BY <1>3 DEF WriteFails
  <2>2. /\ r \in Connection /\ r.closed /\ r.at = conns[c].at /\ r.cut = conns[c].cut
        /\ Ordered(r.wire) /\ IdsOf(r.wire) = Ids(c)
    BY DroppedFacts
  <2>3. r.at \notin {"none", "upgraded"}
    BY <1>1, <2>2 DEF Joined
  <2>4. \A d \in Conns : Owed(d) => Owed(d)' \/ (d = c /\ (r.closed \/ r.cut))
    BY <1>1, <2>2
  <2> HIDE DEF r
  <2> QED
    BY <1>1, <1>2, <2>1, <2>2, <2>3, <2>4, OneConnection
<1>4. CASE WriteSucceeds(c, emitters[e].event) /\ (e # "ingest" \/ conns[c].cut)
  <2> DEFINE w == Written(c, emitters[e].event)
             r == [conns[c] EXCEPT !.wire = w]
  <2>1. conns' = [conns EXCEPT ![c] = r] /\ clients' = clients
    BY <1>4 DEF WriteSucceeds
  <2>2. emitters[e].event \in Frame /\ (emitters[e].event \in Other \/ conns[c].cut)
    BY <1>4 DEF Wires, Shape, Emission, Emitter
  <2>3. w \in Seq(Frame) /\ Ordered(w) /\ IdsOf(w) = Ids(c)
    BY <2>2, WrittenFacts
  <2> HIDE DEF w
  <2>4. /\ r \in Connection /\ r.at = conns[c].at /\ r.wire = w
        /\ r.closed = conns[c].closed /\ r.cut = conns[c].cut
    BY <1>2, <2>3 DEF Connection
  <2>5. r.at \notin {"none", "upgraded"}
    BY <1>1, <2>4 DEF Joined
  <2>6. \A d \in Conns : Owed(d) => Owed(d)' \/ (d = c /\ (r.closed \/ r.cut))
    BY <1>1, <1>4, <2>4
  <2> HIDE DEF r
  <2> QED
    BY <1>1, <1>2, <2>1, <2>3, <2>4, <2>5, <2>6, OneConnection
<1>5. CASE WriteSucceeds(c, emitters[e].event) /\ e = "ingest" /\ ~conns[c].cut
  BY <1>5, MessageWritten
<1> QED
  BY <1>3, <1>4, <1>5 DEF WriteTo

\* A step that touches no connection and no emitter moves no message.
LEMMA NoneMoves == ASSUME Wires, UNCHANGED <<conns, emitters, table>> PROVE AllMove
<1>1. ASSUME NEW c \in Conns
      PROVE  Ordered(conns[c].wire) /\ (Owed(c)' <=> Owed(c))
  BY DEF Wires, Flow, InOrder, Owed
<1> QED
  BY <1>1 DEF AllMove, Moves, Calm, Onward, Joined, Ids

\* A browser that connects starts on a connection that carried nothing.
LEMMA ConnectKeeps ==
    ASSUME Wires, NEW c \in Conns, Connect(c), UNCHANGED <<clients, conns, emitters, table>>
    PROVE  Wires' /\ AllMove /\ conns[c] = Unused /\ ws'.socket = c
<1>1. /\ ws.socket = NoSocket /\ last = 0 /\ last' = 0
      /\ conns[c] = Unused /\ ws \in Socket
      /\ ws' = [ws EXCEPT !.socket = c, !.open = FALSE,
                          !.state = IF ws.retries = 0 THEN "connecting" ELSE "reconnecting"]
      /\ UNCHANGED <<load, messages>>
  BY DEF Connect, Wires, Shape, Flow
<1>2. ws'.socket = c /\ ws' \in Socket /\ c # NoSocket
  BY <1>1, HubAssumption DEF Socket, NoSocket
<1> QED
  BY <1>1, <1>2, NoneMoves DEF Wires, Shape, Membership, Emission, Flow, AfterLast, InOrder,
                               NoneMissing, Joined, Ids, Owed

LEMMA OnOpenKeeps ==
    ASSUME Wires, OnOpen, UNCHANGED <<clients, emitters, table>>
    PROVE  Wires' /\ AllMove /\ ws'.socket = ws.socket
<1>1. /\ UNCHANGED <<conns, last, load, messages>> /\ ws \in Socket /\ ws.socket # NoSocket
      /\ ws' = [ws EXCEPT !.open = TRUE, !.retries = 0, !.state = "connected"]
  BY DEF OnOpen, Wires, Shape
<1>2. ws'.socket = ws.socket /\ ws' \in Socket
  BY <1>1 DEF Socket
<1> QED
  BY <1>1, <1>2, NoneMoves DEF Wires, Shape, Membership, Emission, Flow, AfterLast, InOrder,
                               NoneMissing, Joined, Ids, Owed

\* What the browser does with the page touches no connection.
LEMMA PageKeeps ==
    ASSUME Wires, Query \/ SetMessages, UNCHANGED <<clients, emitters, table>>
    PROVE  Wires' /\ AllMove
<1>1. UNCHANGED <<conns, ws, last>>
  BY DEF Query, SetMessages
<1>2. load' \in Load /\ messages' \in Seq(Nat)
  <2>1. load \in Load /\ messages \in Seq(Nat) /\ table \in Nat /\ ws.socket \in Conns \cup {NoSocket}
    BY DEF Wires, Shape, Socket
  <2>2. CASE Query
    BY <2>1, <2>2 DEF Query, Load
  <2>3. CASE SetMessages
    <3>1. load' \in Load
      BY <2>1, <2>3 DEF SetMessages, Load
    <3> DEFINE n == IF load.upto < PageSize THEN load.upto ELSE PageSize
    <3>2. n \in Nat /\ load.upto \in Nat /\ \A i \in 1..n : load.upto - i + 1 \in Nat
      BY <2>1, RealtimeAssumption DEF Load
    <3>3. messages' = [i \in 1..n |-> load.upto - i + 1]
      BY <2>3 DEF SetMessages, Page
    <3> HIDE DEF n
    <3>4. messages' \in Seq(Nat)
      BY <3>2, <3>3, IsASeq
    <3> QED
      BY <3>1, <3>4
  <2> QED
    BY <2>2, <2>3
<1> QED
  BY <1>1, <1>2, NoneMoves DEF Wires, Shape, Membership, Emission, Flow, AfterLast, InOrder,
                               NoneMissing, Joined, Ids, Owed

\* pushChatMessage: the new one in front, the oldest cut off.
LEMMA PushFacts ==
    ASSUME messages \in Seq(Nat), NEW id \in Nat, Push(id)
    PROVE  /\ messages' \in Seq(Nat)
           /\ Len(messages') = IF Len(messages) + 1 > MaxShown THEN MaxShown ELSE Len(messages) + 1
           /\ Len(messages') \in 1..Len(messages) + 1
           /\ messages'[1] = id
           /\ \A i \in 1..Len(messages') - 1 : messages'[i + 1] = messages[i]
<1> DEFINE all == <<id>> \o messages
           n == Len(messages)
<1>1. <<id>> \in Seq(Nat) /\ Len(<<id>>) = 1 /\ <<id>>[1] = id /\ n \in Nat
  OBVIOUS
<1>2. /\ all \in Seq(Nat) /\ Len(all) = 1 + n
      /\ \A i \in 1..1 + n : all[i] = IF i <= 1 THEN <<id>>[i] ELSE messages[i - 1]
  BY <1>1, ConcatProperties
<1>3. messages' = SubSeq(all, 1, IF Len(all) > MaxShown THEN MaxShown ELSE Len(all))
  BY DEF Push
<1> HIDE DEF all
<1> DEFINE k == IF n + 1 > MaxShown THEN MaxShown ELSE n + 1
<1>4. k \in 1..n + 1
  BY <1>1, RealtimeAssumption
<1>5. messages' = SubSeq(all, 1, k)
  <2>1. Len(all) = n + 1
    BY <1>1, <1>2
  <2> QED
    BY <1>3, <2>1
<1>6. /\ messages' \in Seq(Nat) /\ Len(messages') = k
      /\ \A i \in 1..k : messages'[i] = all[i]
  <2>0. \A i \in 1..k : all[i] \in Nat
    BY <1>1, <1>2, <1>4
  <2> HIDE DEF k
  <2> QED
    BY <1>1, <1>2, <1>4, <1>5, <2>0
<1>7. \A i \in 1..k - 1 : messages'[i + 1] = messages[i]
  <2> HIDE DEF k
  <2>1. ASSUME NEW i \in 1..k - 1
        PROVE  messages'[i + 1] = messages[i]
    <3> DEFINE j == i + 1
    <3>1. j \in 1..k /\ j \in 1..1 + n /\ ~(j <= 1) /\ j - 1 = i
      BY <1>1, <1>4
    <3> HIDE DEF j
    <3>2. messages'[j] = messages[i]
      BY <1>2, <1>6, <3>1
    <3> QED
      BY <3>2 DEF j
  <2> QED
    BY <2>1
<1>8. messages'[1] = id
  BY <1>1, <1>2, <1>4, <1>6
<1> QED
  BY <1>4, <1>6, <1>7, <1>8

\* A frame that is read: which message it was, if it was one.
LEMMA FrameRead ==
    ASSUME Wires, OnMessage
    PROVE  /\ ws.socket \in Conns /\ ~conns[ws.socket].cut
           /\ Frames \in Seq(Frame) /\ Frames # <<>> /\ Ordered(Frames)
           /\ conns' = [conns EXCEPT ![ws.socket].wire = Tail(@)]
           /\ ws' = ws
           /\ \/ /\ Head(Frames) \in Other
                 /\ UNCHANGED <<messages, load, last>>
              \/ /\ Head(Frames) = Chat(last') /\ last' \in Nat
                 /\ Push(last')
                 /\ load' = IF load.at = "answered" THEN Outdated ELSE load
<1>1. ws.socket \in Conns
  BY DEF Wires, Shape, Socket, OnMessage
<1>2. Frames \in Seq(Frame) /\ Frames # <<>> /\ Ordered(Frames)
  BY <1>1 DEF Wires, Shape, Flow, InOrder, OnMessage, Frames, Connection
<1>3. Head(Frames) \in Frame
  BY <1>2
<1>4. CASE Head(Frames)[1] = "chat"
  BY <1>1, <1>2, <1>3, <1>4, FrameFacts DEF OnMessage
<1>5. CASE Head(Frames)[1] # "chat"
  BY <1>1, <1>2, <1>3, <1>5, FrameFacts DEF OnMessage
<1> QED
  BY <1>4, <1>5

LEMMA OnMessageKeeps ==
    ASSUME Wires, OnMessage, UNCHANGED <<clients, emitters, table>>
    PROVE  Wires' /\ AllMove
<1> DEFINE c == ws.socket
           w == conns[c].wire
           r == [conns[c] EXCEPT !.wire = Tail(w)]
<1>1. /\ c \in Conns /\ ~conns[c].cut /\ ws' = ws
      /\ w \in Seq(Frame) /\ w # <<>> /\ Ordered(w) /\ w = Frames
      /\ conns' = [conns EXCEPT ![c] = r]
  BY FrameRead DEF Frames
<1>2. conns \in [Conns -> Connection] /\ conns[c] \in Connection /\ c \in Conns
  BY <1>1 DEF Wires, Shape
<1>3. Tail(w) \in Seq(Frame) /\ Ordered(Tail(w))
  BY <1>1, TakeFirst
<1>4. /\ r \in Connection /\ r.at = conns[c].at /\ r.wire = Tail(w)
      /\ r.closed = conns[c].closed /\ r.cut = conns[c].cut
  BY <1>2, <1>3 DEF Connection
<1>5. PICK d \in Conns : d = c /\ ws.socket = d
  BY <1>1
<1>6. PICK s \in Connection : s = r
  BY <1>4
<1>7. /\ conns' = [conns EXCEPT ![d] = s] /\ s.wire = Tail(w)
      /\ s.at = conns[d].at /\ s.closed = conns[d].closed /\ s.cut = conns[d].cut
      /\ Ids(d) = IdsOf(w)
  BY <1>1, <1>4, <1>5, <1>6 DEF Ids
<1>8. /\ Joined(d) /\ (~conns[d].closed <=> d \in clients) /\ ~s.cut
  <2>1. Joined(d)
    BY <1>1, <1>5 DEF Wires, Membership
  <2> QED
    BY <2>1, <1>1, <1>5, <1>7 DEF Wires, Membership
<1> HIDE DEF c, w, r
<1>9. CASE Head(Frames) \in Other /\ UNCHANGED <<messages, load, last>>
  <2>1. IdsOf(s.wire) = Ids(d)
    BY <1>1, <1>7, <1>9, TakeFirst
  <2>2. s.at \notin {"none", "upgraded"}
    BY <1>7, <1>8 DEF Joined
  <2>3. Still
    BY <1>1, <1>9 DEF Still
  <2> QED
    BY <1>3, <1>7, <1>8, <2>1, <2>2, <2>3, OneConnectionOnly
<1>10. CASE /\ Head(Frames) = Chat(last') /\ last' \in Nat
            /\ Push(last')
            /\ load' = IF load.at = "answered" THEN Outdated ELSE load
  <2>1. PICK h \in Nat : h = last'
    BY <1>10
  <2>2. /\ h \in Ids(d)
        /\ IdsOf(s.wire) = Ids(d) \ {h}
        /\ \A a \in IdsOf(s.wire) : h < a
    BY <1>1, <1>7, <1>10, <2>1, TakeFirst
  <2>3. /\ conns'[d] = s
        /\ \A x \in Conns \ {d} : conns'[x] = conns[x]
        /\ conns' \in [Conns -> Connection]
    BY <1>2, <1>7
  <2>4. Ids(d)' = Ids(d) \ {h} /\ \A a \in Ids(d)' : h < a
    BY <2>2, <2>3 DEF Ids
  <2>5. Shape'
    <3>1. messages' \in Seq(Nat)
      BY <1>10, PushFacts DEF Wires, Shape
    <3>2. load' \in Load
      BY <1>10 DEF Wires, Shape, Load, Outdated
    <3> QED
      BY <1>1, <2>1, <2>3, <3>1, <3>2 DEF Wires, Shape
  <2>6. Membership'
    <3>1. \A x \in Conns \ {d} : Ids(x)' = Ids(x) /\ (Joined(x)' <=> Joined(x))
      BY <2>3 DEF Ids, Joined
    <3>2. Joined(d)' /\ ~conns'[d].cut /\ (~conns'[d].closed <=> d \in clients)
      BY <1>7, <1>8, <2>3 DEF Joined
    <3> QED
      BY <1>1, <1>5, <2>3, <3>1, <3>2 DEF Wires, Membership
  <2>7. Emission'
    BY DEF Wires, Emission
  <2>8. ASSUME NEW a \in Nat, NoneMissing(d, a), h <= a
        PROVE  NoneMissing(d, a)'
    <3>1. \A b \in Ids(d)', m \in Nat : a < m /\ m < b => m \in Ids(d)'
      BY <2>4, <2>8 DEF NoneMissing
    <3>2. ~conns[d].closed /\ ~conns[d].cut =>
            \A m \in Nat : a < m /\ m <= table => m \in Ids(d)' \/ (m = table /\ Owed(d))
      BY <2>4, <2>8 DEF NoneMissing
    <3>3. conns'[d].closed = conns[d].closed /\ conns'[d].cut = conns[d].cut
      BY <2>3, <1>7
    <3>4. (Owed(d)' <=> Owed(d)) /\ table' = table
      BY DEF Owed
    <3> QED
      BY <3>1, <3>2, <3>3, <3>4 DEF NoneMissing
  <2>9. \A a \in Ids(d) : a \in Nat /\ NoneMissing(d, a)
    BY DEF Wires, Flow, Ids, IdsOf
  <2>10. ASSUME NEW x \in Conns
         PROVE  InOrder(x)' /\ \A a \in Ids(x)' : NoneMissing(x, a)'
    <3>1. CASE x = d
      <4>1. \A a \in Ids(d)' : NoneMissing(d, a)'
        BY <2>4, <2>8, <2>9
      <4> QED
        BY <3>1, <4>1, <1>3, <1>7, <2>3, <2>4 DEF Wires, Flow, InOrder, Owed
    <3>2. CASE x # d
      BY <2>3, <3>2 DEF Wires, Flow, InOrder, NoneMissing, Ids, Owed
    <3> QED
      BY <3>1, <3>2
  <2>11. AfterLast(d)'
    <3>1. NoneMissing(d, h)'
      BY <2>1, <2>2, <2>8, <2>9
    <3>2. h <= table /\ (Owed(d) => h < table) /\ table \in Nat
      BY <2>2 DEF Wires, Shape, Flow, InOrder
    <3>3. Owed(d)' <=> Owed(d)
      BY DEF Owed
    <3> QED
      BY <2>1, <2>4, <3>1, <3>2, <3>3 DEF AfterLast, NoneMissing
  <2>12. Flow'
    BY <1>1, <1>5, <2>10, <2>11, HubAssumption DEF Flow, NoSocket
  <2>13. ASSUME NEW x \in Conns
         PROVE  Moves(x)
    <3>1. (Owed(x)' <=> Owed(x)) /\ table' = table
      BY DEF Owed
    <3>2. CASE x = d
      <4>1. Onward(d)
        BY <1>7, <2>3 DEF Onward, Joined
      <4> QED
        BY <1>1, <1>5, <2>1, <2>4, <3>1, <3>2, <4>1 DEF Moves
    <3>3. CASE x # d
      BY <2>3, <3>1, <3>3 DEF Moves, Calm, Onward, Joined, Ids, Wires, Flow, InOrder
    <3> QED
      BY <3>2, <3>3
  <2> QED
    BY <2>5, <2>6, <2>7, <2>12, <2>13 DEF Wires, AllMove
<1> QED
  BY <1>9, <1>10, FrameRead

LEMMA OnCloseKeeps ==
    ASSUME Wires, OnClose, UNCHANGED <<clients, emitters, table>>
    PROVE  Wires' /\ AllMove
<1>1. PICK c \in Conns : c = ws.socket
  BY DEF Wires, Shape, Socket, OnClose
<1> DEFINE r == [conns[c] EXCEPT !.wire = <<>>]
<1>2. /\ conns \in [Conns -> Connection] /\ conns[c] \in Connection
      /\ ws' = [socket |-> NoSocket, open |-> FALSE, retries |-> ws.retries + 1,
                state |-> ClosedState(ws.retries + 1)]
      /\ conns' = [conns EXCEPT ![c] = r]
      /\ load' = Outdated /\ last' = 0 /\ messages' = messages
  BY <1>1 DEF Wires, Shape, OnClose
<1>3. /\ r \in Connection /\ r.at = conns[c].at /\ r.wire = <<>>
      /\ r.closed = conns[c].closed /\ r.cut = conns[c].cut
  BY <1>2, EmptyWire DEF Connection
<1> HIDE DEF r
<1>4. /\ conns'[c] = r
      /\ \A d \in Conns \ {c} : conns'[d] = conns[d]
      /\ conns' \in [Conns -> Connection]
  BY <1>2, <1>3
<1>5. ws' \in Socket /\ ws'.socket = NoSocket /\ ~ws'.open /\ load' \in Load
  BY <1>2 DEF Wires, Shape, Socket, Load, Outdated, ClosedState
<1>6. Shape' /\ Emission'
  BY <1>2, <1>4, <1>5 DEF Wires, Shape, Emission
<1>7. /\ \A d \in Conns \ {c} : Ids(d)' = Ids(d) /\ (Joined(d)' <=> Joined(d))
      /\ Ids(c)' = {} /\ (Joined(c)' <=> Joined(c))
  BY <1>3, <1>4, EmptyWire DEF Ids, Joined
<1>8. Membership'
  BY <1>2, <1>3, <1>4, <1>5, <1>7 DEF Wires, Membership
<1>9. ASSUME NEW d \in Conns
      PROVE  InOrder(d)' /\ \A a \in Ids(d)' : NoneMissing(d, a)'
  <2>1. CASE d = c
    BY <2>1, <1>3, <1>4, <1>7, EmptyWire DEF InOrder
  <2>2. CASE d # c
    BY <2>2, <1>4 DEF Wires, Flow, InOrder, NoneMissing, Ids, Owed
  <2> QED
    BY <2>1, <2>2
<1>10. Flow'
  BY <1>2, <1>5, <1>9, HubAssumption DEF Flow, NoSocket
<1>11. ASSUME NEW d \in Conns
       PROVE  Moves(d)
  <2>1. (Owed(d)' <=> Owed(d)) /\ table' = table
    BY DEF Owed
  <2>2. CASE d = c
    <3>1. Onward(c)
      BY <1>3, <1>4 DEF Onward, Joined
    <3> QED
      BY <1>1, <1>5, <2>1, <2>2, <3>1 DEF Moves
  <2>3. CASE d # c
    BY <1>4, <2>1, <2>3 DEF Moves, Calm, Onward, Joined, Ids, Wires, Flow, InOrder
  <2> QED
    BY <2>2, <2>3
<1> QED
  BY <1>6, <1>8, <1>10, <1>11 DEF Wires, AllMove

LEMMA WiresStart == Init => Wires
<1> SUFFICES ASSUME Init
             PROVE  Wires
  OBVIOUS
<1>1. /\ clients = {} /\ conns = [c \in Conns |-> Unused]
      /\ emitters = [e \in Emitters |-> Resting]
      /\ table = 0 /\ last = 0 /\ messages = <<>>
      /\ ws = [socket |-> NoSocket, open |-> FALSE, retries |-> 0, state |-> "connecting"]
      /\ load = [at |-> "asked", upto |-> 0, under |-> NoSocket]
  BY DEF Init, HubInit
<1>2. /\ Unused \in Connection /\ Unused.wire = <<>> /\ Unused.at = "none"
      /\ ~Unused.cut /\ ~Unused.closed
  BY EmptyWire, FrameFacts DEF Unused, Connection
<1>3. Resting \in Emitter /\ Resting.at = "idle" /\ Resting.left = {} /\ Resting.event \in Other
  BY FrameFacts DEF Resting, Emitter, Frame
<1>4. Shape
  BY <1>1, <1>2, <1>3, EmptySeq DEF Shape, Socket, Load
<1>5. Emission /\ Membership
  BY <1>1, <1>2, <1>3, RealtimeAssumption, EmptyWire DEF Emission, Membership, Joined, Ids
<1>6. Flow
  <2>1. \A c \in Conns : conns[c].wire = <<>> /\ Ids(c) = {}
    BY <1>1, <1>2, EmptyWire DEF Ids
  <2> QED
    BY <1>1, <2>1, EmptyWire DEF Flow, InOrder, AfterLast
<1> QED
  BY <1>4, <1>5, <1>6 DEF Wires

\* What the steps of the MQTT client, and steps that change nothing here, leave alone.
LEMMA ElsewhereKeeps ==
    ASSUME Wires, UNCHANGED <<clients, conns, emitters, table, ws, messages, load, last>>
    PROVE  Wires' /\ AllMove
BY NoneMoves DEF Wires, Shape, Membership, Emission, Flow, AfterLast, InOrder, NoneMissing,
                 Joined, Ids, Owed

LEMMA WiresSteps == Wires /\ [Next]_vars => Wires' /\ AllMove
<1> SUFFICES ASSUME Wires, [Next]_vars
             PROVE  Wires' /\ AllMove
  OBVIOUS
<1>1. CASE Insert
  BY <1>1, InsertKeeps
<1>2. CASE Tick
  BY <1>2, TickKeeps
<1>3. ASSUME NEW e \in Emitters, Broadcast(e)
      PROVE  Wires' /\ AllMove
  <2>1. Still
    BY <1>3 DEF Broadcast, Others, browser, Still
  <2> QED
    BY <1>3, <2>1, SnapshotKeeps, WriteKeeps DEF Broadcast, Emit
<1>4. ASSUME NEW c \in Conns, Serve(c)
      PROVE  Wires' /\ AllMove
  <2>1. Still
    BY <1>4 DEF Serve, Others, browser, Still
  <2> QED
    BY <1>4, <2>1, ServeKeeps DEF Serve, ReadEnds
<1>5. CASE Network
  <2>1. Still
    BY <1>5 DEF Network, Others, browser, Still, Cut
  <2> QED
    BY <1>5, <2>1, ServeKeeps, CutKeeps DEF Network, Accept, ReadBreaks
<1>6. CASE Browse
  <2>1. UNCHANGED <<clients, emitters, table>>
    BY <1>6 DEF Browse
  <2> QED
    BY <1>6, <2>1, OnOpenKeeps, OnMessageKeeps, OnCloseKeeps DEF Browse, Closed
<1>7. CASE Try
  <2>1. UNCHANGED <<clients, emitters, table>>
    BY <1>7 DEF Try
  <2> QED
    BY <1>7, <2>1, ConnectKeeps, OnCloseKeeps, PageKeeps DEF Try, Attempt, Fails
<1>8. CASE Lifecycle \/ UNCHANGED vars
  BY <1>8, ElsewhereKeeps DEF Lifecycle, vars, hubVars, browser
<1> QED
  BY <1>1, <1>2, <1>3, <1>4, <1>5, <1>6, <1>7, <1>8 DEF Next

\* Over one connection the messages come in order and without a gap from the first one
\* on, for any number of clients that join, are dropped or break in the middle of a
\* broadcast, of other emitters that write in between, and of writes that fail.
THEOREM MessagesComeConsecutively == Spec => EventsConsecutive
<1>1. Wires /\ [Next]_vars => [last # 0 /\ last' # 0 => last' \in {last, last + 1}]_vars
  <2> SUFFICES ASSUME Wires, [Next]_vars, last # 0, last' # 0
               PROVE  last' \in {last, last + 1}
    OBVIOUS
  <2>1. CASE OnMessage
    <3>1. PICK c \in Conns : c = ws.socket
      BY <2>1, FrameRead
    <3>2. /\ last \in Nat
          /\ NoneMissing(c, last)
          /\ \A a \in Ids(c) : last < a
      BY <3>1 DEF Wires, Shape, Flow, AfterLast
    <3>3. /\ Frames \in Seq(Frame) /\ Frames # <<>> /\ Ordered(Frames)
          /\ IdsOf(Frames) = Ids(c)
          /\ last' = last \/ (Head(Frames) = Chat(last') /\ last' \in Nat)
      BY <2>1, <3>1, FrameRead DEF Frames, Ids
    <3>4. CASE Head(Frames) = Chat(last') /\ last' \in Nat
      <4>1. PICK h \in Nat : h = last'
        BY <3>4
      <4>2. /\ h \in Ids(c)
            /\ \A a \in Ids(c) \ {h} : h < a
        BY <3>3, <3>4, <4>1, TakeFirst
      <4>3. last < h /\ (last + 1 < h => last + 1 \in Ids(c))
        BY <3>2, <4>2 DEF NoneMissing
      <4> QED
        BY <3>2, <4>1, <4>2, <4>3
    <3> QED
      BY <3>3, <3>4
  <2>2. CASE ~OnMessage
    BY <2>2 DEF Next, vars, Insert, Tick, Broadcast, Serve, Network, Browse, Try, Lifecycle,
                Others, browser, Attempt, Connect, Fails, Closed, OnOpen, OnClose, Query, SetMessages
  <2> QED
    BY <2>1, <2>2
<1> QED
  BY <1>1, WiresStart, WiresSteps, PTL DEF Spec, EventsConsecutive
----------------------------------------------------------------------------
(* The page and the messages pushed                                        *)

\* The browser's connection is in the hub and sound.
Linked == ws.socket \in clients /\ ~conns[ws.socket].cut

\* The event of a message is on its way to the browser, or owed to it.
Coming(id) == ws.socket # NoSocket /\ (id \in Ids(ws.socket) \/ (id = table /\ Owed(ws.socket)))

\* The event of a message was emitted and will not come, or not again.
Passed(id) ==
    /\ id <= table
    /\ emitters["ingest"].at = "ready" => id < table
    /\ ws.socket # NoSocket => /\ \A a \in Ids(ws.socket) : id < a
                               /\ Owed(ws.socket) => id < table

PageLength == IF load.upto < PageSize THEN load.upto ELSE PageSize

\* The first n messages were pushed, one after the other; the rest is the page, or what is
\* left of it.
Pushed(n) ==
    /\ load.at # "done" => n = Len(messages)
    /\ \A i, j \in 1..n : i < j => messages[j] < messages[i]
    /\ \A i \in 1..n : Passed(messages[i])
    /\ \A i \in n + 1..Len(messages) :
          i - n \in 1..PageLength /\ messages[i] = load.upto - (i - n) + 1

\* The page was read while the browser's connection was in the hub.
Watched == load.under # NoSocket /\ Linked

\* What is newer than the oldest message pushed was pushed too or comes; and what is not
\* shown, nor comes, is older than all that is shown.
Complete(n) ==
    /\ \A id \in 1..table : n > 0 /\ messages[n] <= id =>
          Coming(id) \/ \E i \in 1..n : messages[i] = id
    /\ \A id \in 1..table : \/ Coming(id)
                            \/ \E i \in 1..Len(messages) : messages[i] = id
                            \/ messages # <<>> /\ \A i \in 1..Len(messages) : id < messages[i]

\* The page goes with the connection under which it was read.
Under ==
    /\ load.under \in {NoSocket, ws.socket}
    /\ load.under # NoSocket => Joined(load.under)
    /\ load.upto <= table
    /\ load.at = "asked" => load.under = NoSocket

\* Until the page is shown, what is newer than it comes.
Awaited == load.at = "answered" /\ Watched => \A id \in load.upto + 1..table : Coming(id)

Parted == \E n \in 0..Len(messages) : Pushed(n) /\ (load.at = "done" /\ Watched => Complete(n))

Gapless == Wires /\ Under /\ Awaited /\ Parted

LEMMA SocketMoves ==
    ASSUME Wires, [Next]_vars
    PROVE  \/ ws'.socket = ws.socket
           \/ ws'.socket = NoSocket
           \/ /\ ws.socket = NoSocket
              /\ \E c \in Conns : ws'.socket = c /\ conns[c] = Unused
              /\ UNCHANGED <<clients, conns, emitters, table, load, messages>>
<1>1. CASE \E c \in Conns : Connect(c) /\ UNCHANGED <<conns, clients, emitters, table>>
  <2>1. PICK c \in Conns : Connect(c) /\ UNCHANGED <<conns, clients, emitters, table>>
    BY <1>1
  <2> QED
    BY <2>1, ConnectKeeps DEF Connect
<1>2. CASE OnOpen /\ UNCHANGED <<clients, emitters, table>>
  BY <1>2, OnOpenKeeps
<1>3. CASE OnClose
  BY <1>3 DEF OnClose
<1>4. CASE OnMessage
  BY <1>4 DEF OnMessage
<1>5. CASE UNCHANGED ws
  BY <1>5
<1> QED
  BY <1>1, <1>2, <1>3, <1>4, <1>5
     DEF Next, vars, Insert, Tick, Broadcast, Serve, Network, Browse, Try, Lifecycle,
         Others, browser, Attempt, Fails, Closed, Query, SetMessages

LEMMA ReadyMoves ==
    ASSUME Wires, [Next]_vars
    PROVE  /\ table' \in {table, table + 1}
           /\ emitters'["ingest"].at = "ready" =>
                 emitters["ingest"].at = "ready" \/ table' = table + 1
<1>1. "ingest" \in Emitters /\ emitters \in [Emitters -> Emitter]
  BY RealtimeAssumption DEF Wires, Shape
<1>2. CASE Insert
  BY <1>2 DEF Insert
<1>3. CASE Tick
  BY <1>1, <1>3 DEF Tick, Emits
<1>4. ASSUME NEW e \in Emitters, Broadcast(e)
      PROVE  table' = table /\ (emitters'["ingest"].at = "ready" => emitters["ingest"].at = "ready")
  <2>1. table' = table
    BY <1>4 DEF Broadcast, Others
  <2>2. ASSUME Snapshot(e), emitters'["ingest"].at = "ready"
        PROVE  emitters["ingest"].at = "ready"
    <3>1. CASE e = "ingest"
      BY <2>2, <3>1 DEF Snapshot
    <3>2. CASE e # "ingest"
      BY <1>1, <2>2, <3>2 DEF Snapshot
    <3> QED
      BY <3>1, <3>2
  <2>3. ASSUME NEW c \in Conns, WriteTo(e, c)
        PROVE  emitters'["ingest"].at = "ready" => emitters["ingest"].at = "ready"
    BY <1>1, <2>3 DEF WriteTo, Resting, Emitter
  <2> QED
    <3>1. Snapshot(e) \/ \E c \in Conns : WriteTo(e, c)
      BY <1>4 DEF Broadcast, Emit
    <3> QED
      BY <2>1, <2>2, <2>3, <3>1
<1>5. CASE UNCHANGED <<emitters, table>>
  BY <1>5
<1>6. ASSUME NEW c \in Conns, Serve(c)
      PROVE  UNCHANGED <<emitters, table>>
  BY <1>6 DEF Serve, Others, Register, Greet, SendGreeting, ReadEnds, Leave
<1>7. CASE Network
  BY <1>5, <1>7 DEF Network, Accept, Upgrade, ReadBreaks, Leave, Cut, Others
<1>8. Browse \/ Try \/ Lifecycle \/ UNCHANGED vars => UNCHANGED <<emitters, table>>
  BY DEF Browse, Try, Lifecycle, vars, hubVars
<1> QED
  BY <1>2, <1>3, <1>4, <1>5, <1>6, <1>7, <1>8 DEF Next

\* What was emitted stays so.
LEMMA PassedStays ==
    ASSUME Wires, Wires', AllMove, [Next]_vars, NEW id \in Nat, Passed(id)
    PROVE  Passed(id)'
<1>1. table \in Nat /\ table' \in {table, table + 1} /\ id <= table
  BY ReadyMoves DEF Wires, Shape, Passed
<1>2. id <= table' /\ (emitters'["ingest"].at = "ready" => id < table')
  BY <1>1, ReadyMoves DEF Passed
<1>3. CASE ws'.socket = NoSocket
  BY <1>2, <1>3 DEF Passed
<1>4. CASE ws'.socket = ws.socket /\ ws'.socket # NoSocket
  <2>1. PICK c \in Conns : c = ws.socket
    BY <1>4 DEF Wires, Shape, Socket
  <2>2. Moves(c) /\ (\A a \in Ids(c) : id < a) /\ (Owed(c) => id < table) /\ c # NoSocket
    BY <1>4, <2>1 DEF AllMove, Passed
  <2>3. \A a \in Ids(c)' : id < a
    BY <1>4, <2>1, <2>2 DEF Moves, Calm, Ids
  <2>4. Owed(c)' => id < table'
    BY <1>1, <1>4, <2>1, <2>2 DEF Moves, Calm
  <2> QED
    BY <1>2, <1>4, <2>1, <2>3, <2>4 DEF Passed
<1>5. CASE /\ ws.socket = NoSocket
           /\ \E c \in Conns : ws'.socket = c /\ conns[c] = Unused
           /\ UNCHANGED <<clients, conns, emitters, table>>
  <2>1. PICK c \in Conns : ws'.socket = c /\ conns[c] = Unused
    BY <1>5
  <2>2. Ids(c)' = {}
    BY <1>5, <2>1, EmptyWire DEF Ids, Unused
  <2>3. ~Joined(c)
    BY <2>1 DEF Joined, Unused
  <2>4. c \notin emitters["ingest"].left
    BY <2>3, RealtimeAssumption DEF Wires, Membership
  <2>5. Owed(c)' => id < table'
    BY <1>5, <2>4 DEF Owed, Passed
  <2> QED
    BY <1>2, <2>1, <2>2, <2>5 DEF Passed
<1> QED
  BY <1>3, <1>4, <1>5, SocketMoves

\* A connection that is in the hub and sound was so if it had joined.
LEMMA LinkedBefore ==
    ASSUME Wires, Wires', AllMove, NEW c \in Conns, ws.socket = c, ws'.socket = c,
           Joined(c), Linked'
    PROVE  Linked /\ ~conns[c].closed /\ ~conns'[c].closed
<1>1. Onward(c)
  BY DEF AllMove, Moves
<1>2. c \in clients' /\ ~conns'[c].cut
  BY DEF Linked
<1>3. ~conns'[c].closed
  BY <1>2 DEF Wires, Membership
<1>4. ~conns[c].closed /\ ~conns[c].cut
  BY <1>1, <1>2, <1>3 DEF Onward
<1> QED
  BY <1>3, <1>4 DEF Wires, Membership, Linked

\* What comes goes on to come until it is read, and so does what is inserted.
LEMMA ComingStays ==
    ASSUME Wires, Wires', AllMove, [Next]_vars, NEW c \in Conns, ws.socket = c,
           ws'.socket = c, Joined(c), Linked'
    PROVE  \A id \in 1..table' :
              Coming(id) \/ id > table => Coming(id)' \/ (OnMessage /\ id = last')
<1> SUFFICES ASSUME NEW id \in 1..table', Coming(id) \/ id > table
             PROVE  Coming(id)' \/ (OnMessage /\ id = last')
  OBVIOUS
<1>1. /\ Linked /\ ~conns'[c].closed /\ ~conns'[c].cut /\ c \in clients
      /\ c # NoSocket /\ table \in Nat
  BY LinkedBefore, HubAssumption DEF Linked, NoSocket, Wires, Shape
<1>2. Moves(c) /\ id \in Nat
  BY ReadyMoves, <1>1 DEF AllMove
<1>3. (id \in Ids(c) \/ (id = table /\ Owed(c))) \/ id > table
  BY DEF Coming
<1>4. (id \in Ids(c)' \/ (id = table' /\ Owed(c)')) => Coming(id)'
  BY <1>1 DEF Coming
<1>5. CASE table' = table /\ Calm(c)
  <2>1. Ids(c)' = Ids(c) /\ (Owed(c) => Owed(c)')
    BY <1>1, <1>5 DEF Calm, Ids, Membership, Wires
  <2> QED
    BY <1>1, <1>2, <1>3, <1>4, <1>5, <2>1
<1>6. CASE table' = table + 1 /\ ~Owed(c) /\ Owed(c)' /\ Ids(c)' = Ids(c)
  BY <1>1, <1>2, <1>3, <1>4, <1>6
<1>7. CASE table' = table /\ Owed(c) /\ ~Owed(c)' /\ Ids(c)' = Ids(c) \cup {table}
  BY <1>1, <1>2, <1>3, <1>4, <1>7
<1>8. CASE table' = table /\ (Owed(c)' <=> Owed(c)) /\ OnMessage /\ Ids(c)' = Ids(c) \ {last'}
  BY <1>1, <1>2, <1>3, <1>4, <1>8
<1>9. CASE ws'.socket = NoSocket
  BY <1>1, <1>9
<1> QED
  BY <1>2, <1>5, <1>6, <1>7, <1>8, <1>9 DEF Moves

LEMMA PageFacts ==
    ASSUME load \in Load
    PROVE  /\ PageLength \in Nat /\ PageLength <= load.upto /\ load.upto \in Nat
           /\ Page = [i \in 1..PageLength |-> load.upto - i + 1]
           /\ PageLength < load.upto => PageLength >= 1
BY RealtimeAssumption DEF Load, Page, PageLength

\* What comes is newer than what was received last.
LEMMA NewerThanLast ==
    ASSUME Wires, NEW id \in Nat, id > 0, Coming(id) \/ id > table
    PROVE  id # last
<1>1. CASE id > table
  <2>1. table \in Nat /\ last \in Nat /\ ws.socket \in Conns \cup {NoSocket}
    BY DEF Wires, Shape, Socket
  <2>2. last <= table
    BY <2>1 DEF Wires, Flow, AfterLast
  <2> QED
    BY <1>1, <2>1, <2>2
<1>2. CASE Coming(id)
  <2>1. PICK c \in Conns : c = ws.socket
    BY <1>2 DEF Wires, Shape, Socket, Coming
  <2>2. AfterLast(c) /\ last \in Nat /\ table \in Nat
    BY <2>1 DEF Wires, Flow, Shape
  <2> QED
    BY <1>2, <2>1, <2>2 DEF AfterLast, Coming
<1> QED
  BY <1>1, <1>2

\* The browser reads message h.
Reads(h) ==
    /\ OnMessage /\ UNCHANGED <<clients, emitters, table>>
    /\ Head(Frames) = Chat(h)
    /\ Push(h)
    /\ last' = h
    /\ ws' = ws
    /\ load' = IF load.at = "answered" THEN Outdated ELSE load

\* Nothing happens to what the browser shows or waits for.
Quiet == UNCHANGED <<messages, load, last>> /\ (ws'.socket = ws.socket \/ ws.socket = NoSocket)

Remote == UNCHANGED <<clients, emitters, table>>

LEMMA ShownMoves ==
    ASSUME Wires, [Next]_vars
    PROVE  \/ Quiet
           \/ \E h \in Nat : Reads(h)
           \/ Remote /\ (Query \/ SetMessages \/ OnClose)
<1>1. CASE OnMessage /\ Remote
  <2>1. CASE Head(Frames) \in Other
    BY <1>1, <2>1, FrameRead, FrameFacts DEF Quiet
  <2>2. CASE /\ Head(Frames) = Chat(last') /\ last' \in Nat
             /\ Push(last')
             /\ load' = IF load.at = "answered" THEN Outdated ELSE load
    <3>1. PICK h \in Nat : h = last'
      BY <2>2
    <3>2. Reads(h)
      BY <1>1, <2>2, <3>1, FrameRead DEF Reads, Remote
    <3> QED
      BY <3>2
  <2> QED
    BY <1>1, <2>1, <2>2, FrameRead
<1>2. CASE OnOpen /\ Remote
  BY <1>2, OnOpenKeeps DEF Quiet, Remote, OnOpen
<1>3. CASE \E c \in Conns : Connect(c)
  BY <1>3 DEF Connect, Quiet
<1>4. CASE UNCHANGED <<ws, messages, load, last>>
  BY <1>4 DEF Quiet
<1>5. CASE Browse
  BY <1>1, <1>2, <1>5 DEF Browse, Closed, Remote
<1>6. CASE Try
  BY <1>3, <1>6 DEF Try, Attempt, Fails, Remote
<1> QED
  BY <1>4, <1>5, <1>6
     DEF Next, vars, Insert, Tick, Broadcast, Serve, Network, Lifecycle, Others, browser

\* The split of the messages stays while they do.
LEMMA PushedStays ==
    ASSUME Wires, Wires', AllMove, [Next]_vars, UNCHANGED messages,
           NEW n \in 0..Len(messages), Pushed(n),
           n = Len(messages) \/ load'.upto = load.upto,
           load'.at # "done" => load.at # "done"
    PROVE  n \in 0..Len(messages') /\ Pushed(n)'
<1>1. messages \in Seq(Nat) /\ messages' = messages /\ Len(messages) \in Nat
  BY DEF Wires, Shape
<1>2. \A i \in 1..n : Passed(messages[i])'
  <2>1. ASSUME NEW i \in 1..n
        PROVE  Passed(messages[i])'
    <3>1. PICK m \in Nat : m = messages[i]
      BY <1>1
    <3>2. Passed(m)'
      BY <3>1, PassedStays DEF Pushed
    <3> QED
      BY <1>1, <3>1, <3>2 DEF Passed
  <2> QED
    BY <2>1
<1>3. \A i \in n + 1..Len(messages) :
         i - n \in 1..PageLength' /\ messages[i] = load'.upto - (i - n) + 1
  BY <1>1 DEF Pushed, PageLength
<1> QED
  BY <1>1, <1>2, <1>3 DEF Pushed

LEMMA QuietKeeps ==
    ASSUME Gapless, [Next]_vars, Wires', AllMove, Quiet
    PROVE  Gapless'
<1>1. /\ Wires /\ load' = load /\ messages' = messages /\ last' = last
      /\ ws'.socket = ws.socket \/ ws.socket = NoSocket
      /\ table \in Nat /\ table' \in {table, table + 1}
      /\ load \in Load /\ load.upto \in Nat /\ load.upto <= table
      /\ messages \in Seq(Nat)
      /\ load.under \in {NoSocket, ws.socket}
  BY ReadyMoves DEF Gapless, Quiet, Wires, Shape, Load, Under
<1>2. Under'
  <2>1. \A c \in Conns : Joined(c) => conns'[c].at \notin {"none", "upgraded"}
    BY DEF AllMove, Moves, Onward, Joined
  <2>2. load.under # NoSocket => load.under \in Conns /\ Joined(load.under)
    BY <1>1 DEF Gapless, Under, Load
  <2>3. load.under # NoSocket => conns'[load.under].at \notin {"none", "upgraded"}
    BY <2>1, <2>2
  <2>4. load'.under \in {NoSocket, ws'.socket}
    BY <1>1
  <2> QED
    BY <1>1, <2>3, <2>4 DEF Under, Joined, Gapless
<1>3. ASSUME Watched'
      PROVE  Watched /\ \A id \in 1..table' : Coming(id) \/ id > table => Coming(id)'
  <2>1. PICK c \in Conns : c = load.under /\ c # NoSocket
    BY <1>1, <1>3 DEF Watched, Load
  <2>2. ws.socket = c /\ ws'.socket = c /\ Joined(c) /\ Linked'
    BY <1>1, <1>3, <2>1 DEF Watched, Gapless, Under
  <2>3. Linked
    BY <1>1, <2>2, LinkedBefore
  <2>4. \A id \in 1..table' :
           Coming(id) \/ id > table => Coming(id)' \/ (OnMessage /\ id = last')
    BY <1>1, <2>2, ComingStays
  <2>5. \A id \in 1..table' : id \in Nat /\ id > 0
    BY <1>1
  <2>6. \A id \in 1..table' : Coming(id) \/ id > table => id # last'
    BY <1>1, <2>5, NewerThanLast
  <2> QED
    BY <2>1, <2>3, <2>4, <2>6 DEF Watched
<1>4. Awaited'
  <2> SUFFICES ASSUME load.at = "answered", Watched', NEW id \in load.upto + 1..table'
               PROVE  Coming(id)'
    BY <1>1 DEF Awaited
  <2>1. id \in 1..table' /\ (id \in load.upto + 1..table \/ id > table)
    BY <1>1
  <2>2. Coming(id) \/ id > table
    BY <1>3, <2>1 DEF Gapless, Awaited
  <2> QED
    BY <1>3, <2>1, <2>2
<1>5. PICK n \in 0..Len(messages) : Pushed(n) /\ (load.at = "done" /\ Watched => Complete(n))
  BY DEF Gapless, Parted
<1>6. n \in 0..Len(messages') /\ Pushed(n)'
  BY <1>1, <1>5, PushedStays
<1>7. ASSUME load'.at = "done", Watched'
      PROVE  Complete(n)'
  <2>1. Complete(n)
    BY <1>1, <1>3, <1>5, <1>7
  <2>2. ASSUME NEW id \in 1..table', n > 0, messages[n] <= id
        PROVE  Coming(id)' \/ \E i \in 1..n : messages[i] = id
    <3>1. id \in 1..table \/ id > table
      BY <1>1
    <3>2. (Coming(id) \/ id > table) \/ \E i \in 1..n : messages[i] = id
      BY <2>1, <2>2, <3>1 DEF Complete
    <3> QED
      BY <1>3, <1>7, <3>2
  <2>3. ASSUME NEW id \in 1..table'
        PROVE  \/ Coming(id)'
               \/ \E i \in 1..Len(messages) : messages[i] = id
               \/ messages # <<>> /\ \A i \in 1..Len(messages) : id < messages[i]
    <3>1. id \in 1..table \/ id > table
      BY <1>1
    <3>2. \/ Coming(id) \/ id > table
          \/ \E i \in 1..Len(messages) : messages[i] = id
          \/ messages # <<>> /\ \A i \in 1..Len(messages) : id < messages[i]
      BY <2>1, <3>1 DEF Complete
    <3> QED
      BY <1>3, <1>7, <3>2
  <2>4. /\ \A id \in 1..table' : n > 0 /\ messages'[n] <= id =>
              Coming(id)' \/ \E i \in 1..n : messages'[i] = id
        /\ \A id \in 1..table' : \/ Coming(id)'
                                 \/ \E i \in 1..Len(messages') : messages'[i] = id
                                 \/ /\ messages' # <<>>
                                    /\ \A i \in 1..Len(messages') : id < messages'[i]
    BY <1>1, <2>2, <2>3
  <2> QED
    BY <2>4 DEF Complete, Coming
<1>8. Parted'
  BY <1>6, <1>7 DEF Parted
<1> QED
  BY <1>2, <1>4, <1>8 DEF Gapless

\* The page is read: what is newer is yet to be inserted.
LEMMA QueryKeeps ==
    ASSUME Gapless, [Next]_vars, Wires', AllMove, Remote, Query
    PROVE  Gapless'
<1>1. /\ load.at = "asked" /\ UNCHANGED <<conns, ws, messages>>
      /\ table' = table /\ table \in Nat /\ clients' = clients
      /\ load' = [at |-> "answered", upto |-> table,
                  under |-> IF ws.socket \in clients THEN ws.socket ELSE NoSocket]
      /\ ws.socket \in Conns \cup {NoSocket} /\ clients \subseteq Conns
  BY DEF Query, Remote, Gapless, Wires, Shape, Socket
<1>2. Under'
  <2>1. \A c \in clients : Joined(c)'
    BY <1>1 DEF Gapless, Wires, Membership, Joined
  <2> QED
    BY <1>1, <2>1 DEF Under, Joined
<1>3. Awaited'
  BY <1>1 DEF Awaited
<1>4. PICK n \in 0..Len(messages) : Pushed(n)
  BY DEF Gapless, Parted
<1>5. n = Len(messages)
  BY <1>1, <1>4 DEF Pushed
<1>6. n \in 0..Len(messages') /\ Pushed(n)'
  BY <1>1, <1>4, <1>5, PushedStays DEF Gapless
<1>7. Parted'
  BY <1>1, <1>6 DEF Parted
<1> QED
  BY <1>2, <1>3, <1>7 DEF Gapless

LEMMA ClosingKeeps ==
    ASSUME Gapless, [Next]_vars, Wires', AllMove, Remote, OnClose
    PROVE  Gapless'
<1>1. /\ load' = Outdated /\ UNCHANGED messages /\ table' = table /\ table \in Nat
      /\ load \in Load /\ load.upto <= table
  BY DEF OnClose, Remote, Gapless, Wires, Shape, Under
<1>2. load'.under = NoSocket /\ load'.upto = load.upto /\ load'.at = load.at
  BY <1>1 DEF Outdated, Load
<1>3. Under' /\ Awaited'
  BY <1>1, <1>2 DEF Under, Awaited, Watched
<1>4. PICK n \in 0..Len(messages) : Pushed(n)
  BY DEF Gapless, Parted
<1>5. n \in 0..Len(messages') /\ Pushed(n)'
  BY <1>1, <1>2, <1>4, PushedStays DEF Gapless
<1>6. Parted'
  BY <1>2, <1>5 DEF Parted, Watched
<1> QED
  BY <1>3, <1>6 DEF Gapless

\* The page is shown: its rows are consecutive, and what is newer comes.
LEMMA ShowingKeeps ==
    ASSUME Gapless, [Next]_vars, Wires', AllMove, Remote, SetMessages
    PROVE  Gapless'
<1>1. /\ load.at = "answered" /\ UNCHANGED <<clients, conns, emitters, ws, table>>
      /\ messages' = Page /\ load' = [load EXCEPT !.at = "done"]
      /\ table \in Nat /\ load \in Load /\ load.upto \in Nat
  BY DEF SetMessages, Remote, Gapless, Wires, Shape, Load
<1>2. load'.at = "done" /\ load'.upto = load.upto /\ load'.under = load.under
  BY <1>1 DEF Load
<1>3. Under' /\ Awaited'
  BY <1>1, <1>2 DEF Under, Awaited, Gapless, Joined
<1> DEFINE p == PageLength
<1>4. /\ p \in Nat /\ p <= load.upto /\ (p < load.upto => p >= 1)
      /\ Page = [i \in 1..p |-> load.upto - i + 1]
      /\ PageLength' = p
  BY <1>1, <1>2, PageFacts DEF PageLength
<1> HIDE DEF p
<1>5. messages' \in Seq(Nat) /\ Len(messages') = p
  <2>1. messages' \in Seq(Nat) /\ DOMAIN messages' = 1..p
    BY <1>1, <1>4 DEF Wires, Shape
  <2> QED
    BY <2>1, <1>4
<1>6. \A i \in 1..p : messages'[i] = load.upto - i + 1
  BY <1>1, <1>4
<1>7. 0 \in 0..Len(messages') /\ Pushed(0)'
  BY <1>1, <1>2, <1>4, <1>5, <1>6 DEF Pushed
<1>8. ASSUME Watched'
      PROVE  Complete(0)'
  <2> SUFFICES ASSUME NEW id \in 1..table
               PROVE  \/ Coming(id)
                      \/ \E i \in 1..p : messages'[i] = id
                      \/ messages' # <<>> /\ \A i \in 1..p : id < messages'[i]
    BY <1>1, <1>5 DEF Complete, Coming, Ids, Owed
  <2>1. CASE id > load.upto
    <3>1. Watched
      BY <1>1, <1>2, <1>8 DEF Watched, Linked
    <3>2. id \in load.upto + 1..table
      BY <1>1, <2>1
    <3> QED
      BY <1>1, <3>1, <3>2 DEF Gapless, Awaited
  <2>2. CASE id <= load.upto /\ load.upto - id + 1 <= p
    <3> DEFINE i == load.upto - id + 1
    <3>1. i \in 1..p /\ load.upto - i + 1 = id
      BY <1>1, <2>2
    <3> HIDE DEF i
    <3> QED
      BY <3>1, <1>6
  <2>3. CASE id <= load.upto /\ load.upto - id + 1 > p
    <3>1. p >= 1 /\ \A i \in 1..p : id < load.upto - i + 1
      BY <1>1, <1>4, <2>3
    <3>2. messages' # <<>>
      BY <1>5, <3>1
    <3> QED
      BY <1>6, <3>1, <3>2
  <2>4. \/ id > load.upto
        \/ id <= load.upto /\ load.upto - id + 1 <= p
        \/ id <= load.upto /\ load.upto - id + 1 > p
    BY <1>1, <1>4
  <2> QED
    BY <2>1, <2>2, <2>3, <2>4
<1>9. Parted'
  BY <1>7, <1>8 DEF Parted
<1> QED
  BY <1>3, <1>9 DEF Gapless

\* A message that is read is newer than all that were pushed, and what is newer than it
\* comes.
LEMMA ReadFacts ==
    ASSUME Wires, [Next]_vars, Wires', AllMove, NEW h \in Nat, Reads(h)
    PROVE  /\ ws.socket \in Conns /\ ws.socket # NoSocket /\ ws'.socket = ws.socket
           /\ h \in 1..table /\ table' = table /\ table \in Nat
           /\ \A id \in 1..table : Coming(id) => id >= h
           /\ \A id \in Nat : Passed(id) => id < h
           /\ Passed(h)'
           /\ Linked' /\ Joined(ws.socket) =>
                 \A id \in 1..table : id > h \/ (Coming(id) /\ id # h) => Coming(id)'
<1>1. PICK c \in Conns : c = ws.socket
  BY FrameRead DEF Reads
<1>2. /\ Frames \in Seq(Frame) /\ Frames # <<>> /\ Ordered(Frames)
      /\ Head(Frames) = Chat(h) /\ Frames = conns[c].wire
      /\ conns' = [conns EXCEPT ![c].wire = Tail(@)]
      /\ ws' = ws /\ table' = table /\ emitters' = emitters /\ last' = h
      /\ table \in Nat /\ conns \in [Conns -> Connection] /\ c # NoSocket
  BY <1>1, FrameRead, HubAssumption DEF Reads, Frames, Wires, Shape, NoSocket
<1>3. /\ h \in Ids(c)
      /\ IdsOf(Tail(Frames)) = Ids(c) \ {h}
      /\ \A a \in IdsOf(Tail(Frames)) : h < a
  BY <1>2, TakeFirst DEF Ids
<1>4. Ids(c)' = Ids(c) \ {h}
  BY <1>2, <1>3 DEF Ids, Connection
<1>5. /\ h \in 1..table /\ (Owed(c) => h # table)
      /\ \A a \in Ids(c) : a \in 1..table
      /\ NoneMissing(c, h)
  BY <1>3 DEF Wires, Flow, InOrder
<1>6. Owed(c)' <=> Owed(c)
  BY <1>2 DEF Owed
<1>7. \A id \in 1..table : Coming(id) => id >= h
  BY <1>1, <1>3, <1>4, <1>5, <1>2 DEF Coming
<1>8. \A id \in Nat : Passed(id) => id < h
  BY <1>1, <1>2, <1>3 DEF Passed
<1>9. Passed(h)'
  BY <1>1, <1>2, <1>3, <1>4, <1>5, <1>6 DEF Passed, Owed
<1>10. ASSUME Linked', Joined(c), NEW id \in 1..table, id > h \/ (Coming(id) /\ id # h)
       PROVE  Coming(id)'
  <2>1. Linked /\ ~conns[c].closed
    BY <1>1, <1>2, <1>10, LinkedBefore
  <2>2. id \in Ids(c) \/ (id = table /\ Owed(c))
    BY <1>1, <1>2, <1>5, <1>10, <2>1 DEF Coming, Linked, NoneMissing
  <2>3. id \in Ids(c)' \/ (id = table /\ Owed(c))
    BY <1>2, <1>4, <1>5, <1>10, <2>2
  <2> QED
    BY <1>1, <1>2, <1>6, <2>3 DEF Coming
<1> QED
  BY <1>1, <1>2, <1>5, <1>7, <1>8, <1>9, <1>10

\* A message is pushed, and the oldest one shown may go.
LEMMA ReadingKeepsParted ==
    ASSUME Gapless, [Next]_vars, Wires', AllMove, NEW h \in Nat, Reads(h), NEW n \in 0..Len(messages),
           Pushed(n)
    PROVE  \E p \in 1..Len(messages') :
              /\ p = IF n + 1 <= Len(messages') THEN n + 1 ELSE Len(messages')
              /\ Pushed(p)'
<1> DEFINE k == Len(messages')
<1>1. /\ messages \in Seq(Nat) /\ Len(messages) \in Nat
      /\ k \in 1..Len(messages) + 1
      /\ messages' \in Seq(Nat)
      /\ messages'[1] = h
      /\ \A i \in 1..k - 1 : messages'[i + 1] = messages[i]
  BY PushFacts DEF Reads, Gapless, Wires, Shape
<1>2. \A id \in Nat : Passed(id) => id < h /\ Passed(id)'
  BY ReadFacts, PassedStays DEF Gapless
<1>3. /\ load'.at = load.at /\ load'.upto = load.upto /\ load.upto \in Nat
      /\ PageLength' = PageLength
  BY DEF Reads, Outdated, Gapless, Wires, Shape, Load, PageLength
<1> HIDE DEF k
<1>4. PICK p \in 1..k :
         /\ p = IF n + 1 <= k THEN n + 1 ELSE k
         /\ p <= n + 1 /\ (p < k => p = n + 1) /\ n \in Nat /\ n <= Len(messages)
         /\ n = Len(messages) => p = k
  BY <1>1
<1>5. ASSUME NEW j \in 2..k
      PROVE  j - 1 \in 1..Len(messages) /\ messages'[j] = messages[j - 1]
  <2> DEFINE i == j - 1
  <2>1. i \in 1..k - 1 /\ i + 1 = j /\ i \in 1..Len(messages)
    BY <1>1
  <2> HIDE DEF i
  <2>2. messages'[j] = messages[i]
    BY <1>1, <2>1
  <2> QED
    BY <2>1, <2>2 DEF i
<1>6. ASSUME NEW j \in 2..p
      PROVE  j \in 2..k /\ j - 1 \in 1..n /\ messages'[j] = messages[j - 1]
             /\ messages[j - 1] \in Nat /\ Passed(messages[j - 1])
  <2>1. j \in 2..k /\ j - 1 \in 1..n
    BY <1>1, <1>4
  <2>2. messages'[j] = messages[j - 1] /\ j - 1 \in 1..Len(messages)
    BY <1>5, <2>1
  <2>3. PICK i \in 1..n : i = j - 1
    BY <2>1
  <2>4. messages[i] \in Nat /\ Passed(messages[i])
    <3>1. messages[i] \in Nat
      BY SMTT(30), <1>1, <2>2, <2>3
    <3> QED
      BY <2>3, <3>1 DEF Pushed
  <2> QED
    BY <2>1, <2>2, <2>3, <2>4
<1>7. ASSUME NEW i \in 1..p, NEW j \in 1..p, i < j
      PROVE  messages'[j] < messages'[i]
  <2>1. j \in 2..p
    BY <1>1, <1>4, <1>7
  <2>2. CASE i = 1
    BY <1>1, <1>2, <1>6, <2>1, <2>2
  <2>3. CASE i # 1
    <3>1. i \in 2..p /\ i - 1 < j - 1
      BY <1>1, <1>4, <1>7, <2>3
    <3>2. i - 1 \in 1..n /\ j - 1 \in 1..n
      BY <1>6, <2>1, <3>1
    <3>3. messages[j - 1] < messages[i - 1]
      BY <3>1, <3>2 DEF Pushed
    <3> QED
      BY <1>6, <2>1, <3>1, <3>3
  <2> QED
    BY <2>2, <2>3
<1>8. ASSUME NEW i \in 1..p
      PROVE  Passed(messages[i])'
  <2>1. CASE i = 1
    <3>1. Passed(h)'
      BY ReadFacts DEF Gapless
    <3> QED
      BY <1>1, <2>1, <3>1 DEF Passed
  <2>2. CASE i # 1
    <3>1. i \in 2..p
      BY <1>1, <1>4, <2>2
    <3>2. PICK m \in Nat : m = messages[i - 1] /\ Passed(m) /\ messages'[i] = m
      BY <1>6, <3>1
    <3>3. Passed(m)'
      BY <1>2, <3>2
    <3> QED
      BY <3>2, <3>3 DEF Passed
  <2> QED
    BY <2>1, <2>2
<1>9. ASSUME NEW i \in p + 1..k
       PROVE  i - p \in 1..PageLength' /\ messages'[i] = load'.upto - (i - p) + 1
  <2>1. p = n + 1 /\ i \in 2..k /\ i - 1 \in n + 1..Len(messages) /\ i - p = i - 1 - n
    BY <1>1, <1>4
  <2>2. PICK j \in n + 1..Len(messages) : j = i - 1 /\ j - n = i - p
    BY <2>1
  <2>3. j - n \in 1..PageLength /\ messages[j] = load.upto - (j - n) + 1
    BY <2>2 DEF Pushed
  <2>4. messages'[i] = messages[j]
    BY <1>5, <2>1, <2>2
  <2> QED
    BY <1>3, <2>2, <2>3, <2>4
<1>10. load'.at # "done" => p = k
  BY <1>3, <1>4 DEF Pushed
<1>11. Pushed(p)'
  BY <1>7, <1>8, <1>9, <1>10 DEF Pushed, k
<1> QED
  BY <1>4, <1>11 DEF k

LEMMA ReadingKeepsComplete ==
    ASSUME Gapless, [Next]_vars, Wires', AllMove, NEW h \in Nat, Reads(h), NEW n \in 0..Len(messages),
           Pushed(n), Complete(n), Linked', Joined(ws.socket),
           NEW p \in 1..Len(messages'),
           p = IF n + 1 <= Len(messages') THEN n + 1 ELSE Len(messages')
    PROVE  Complete(p)'
<1> DEFINE k == Len(messages')
           l == Len(messages)
<1>1. /\ messages \in Seq(Nat) /\ l \in Nat
      /\ k \in 1..l + 1
      /\ messages' \in Seq(Nat)
      /\ messages'[1] = h
      /\ \A i \in 1..k - 1 : messages'[i + 1] = messages[i]
  BY PushFacts DEF Reads, Gapless, Wires, Shape
<1>2. /\ table' = table /\ table \in Nat /\ h \in 1..table
      /\ \A id \in 1..table : Coming(id) => id >= h
      /\ \A id \in 1..table : id > h => Coming(id)'
      /\ \A i \in 1..n : messages[i] < h
  <2>1. \A i \in 1..n : Passed(messages[i]) /\ messages[i] \in Nat
    BY SMTT(30), <1>1 DEF Pushed
  <2> QED
    BY <2>1, ReadFacts DEF Gapless
<1> HIDE DEF k, l
<1>3. /\ p \in 1..k /\ p <= n + 1 /\ (p < k => p = n + 1) /\ n \in 0..l /\ k \in Nat /\ n \in Nat
      /\ p \in Nat /\ l \in Nat
  BY <1>1 DEF k, l
<1>4. \A i, j \in 1..n : i < j => messages[j] < messages[i]
  BY DEF Pushed
<1>5. ASSUME NEW i \in 1..l, i < k
      PROVE  \E j \in 1..k : j = i + 1 /\ messages'[j] = messages[i]
  <2>1. i \in 1..k - 1 /\ i + 1 \in 1..k
    BY <1>1, <1>5
  <2> QED
    BY <1>1, <2>1
<1>6. ASSUME NEW j \in 2..k
      PROVE  \E i \in 1..l : j = i + 1 /\ i < k /\ messages'[j] = messages[i]
  <2> DEFINE i == j - 1
  <2>1. i \in 1..k - 1 /\ i + 1 = j /\ i \in 1..l /\ i < k
    BY <1>1
  <2> HIDE DEF i
  <2> QED
    BY <1>1, <2>1
<1>7. ASSUME NEW id \in 1..table, messages'[p] <= id
      PROVE  Coming(id)' \/ \E j \in 1..p : messages'[j] = id
  <2>1. CASE id > h
    BY <1>2, <2>1
  <2>2. CASE id = h
    BY <1>1, <1>3, <2>2
  <2>3. CASE id < h
    <3>1. p # 1 /\ p \in 2..k
      BY <1>1, <1>2, <1>3, <1>7, <2>3
    <3>2. PICK q \in 1..l : p = q + 1 /\ q < k /\ messages'[p] = messages[q]
      BY <1>6, <3>1
    <3>3. q \in 1..n /\ n \in 1..n /\ messages[q] \in Nat /\ messages[n] \in Nat
      <4>1. q \in 1..n /\ n \in 1..l /\ n \in 1..n
        BY <1>3, <3>2
      <4>2. \A i \in 1..l : messages[i] \in Nat
        BY SMTT(30), <1>1 DEF l
      <4> QED
        BY <3>2, <4>1, <4>2
    <3>4. messages[n] <= messages[q]
      BY <1>4, <3>3
    <3>5. messages[n] <= id /\ n > 0
      BY SMTT(30), <1>1, <1>2, <1>7, <3>2, <3>3, <3>4
    <3>6. ~Coming(id)
      BY <1>2, <2>3
    <3>7. PICK i \in 1..n : messages[i] = id
      BY <3>5, <3>6 DEF Complete
    <3>8. i <= q
      <4>1. CASE i > q
        <5>1. messages[i] < messages[q]
          BY <1>4, <3>3, <4>1
        <5> QED
          BY <1>2, <1>7, <3>2, <3>3, <3>7, <5>1
      <4> QED
        BY <1>3, <4>1, <3>2, <3>7
    <3>9. PICK j \in 1..k : j = i + 1 /\ messages'[j] = messages[i]
      <4>1. i \in 1..l /\ i < k
        BY <1>3, <3>2, <3>7, <3>8
      <4> QED
        BY <1>5, <4>1
    <3>10. j \in 1..p
      BY <1>3, <3>2, <3>8, <3>9
    <3> QED
      BY <3>7, <3>9, <3>10
  <2> QED
    BY <1>2, <2>1, <2>2, <2>3
<1>8. ASSUME NEW id \in 1..table
      PROVE  \/ Coming(id)'
             \/ \E j \in 1..k : messages'[j] = id
             \/ \A j \in 1..k : id < messages'[j]
  <2>1. CASE id > h
    BY <1>2, <2>1
  <2>2. CASE id = h
    BY <1>1, <1>3, <2>2
  <2>3. CASE id < h /\ \E i \in 1..l : messages[i] = id
    <3>1. PICK i \in 1..l : /\ messages[i] = id
                            /\ i <= n \/ \A q \in 1..n : messages[q] > id
      <4>1. CASE n > 0 /\ messages[n] <= id
        <5>1. PICK i \in 1..n : messages[i] = id
          BY <1>2, <2>3, <4>1 DEF Complete
        <5> QED
          BY <1>3, <5>1
      <4>2. CASE ~(n > 0 /\ messages[n] <= id)
        <5>1. \A q \in 1..n : n \in 1..n /\ messages[n] \in Nat /\ messages[q] \in Nat
          <6>1. \A i \in 1..l : messages[i] \in Nat
            BY <1>1 DEF l
          <6>2. \A q \in 1..n : q \in 1..l /\ n \in 1..n /\ n \in 1..l
            BY <1>3
          <6> QED
            BY <6>1, <6>2
        <5>2. \A q \in 1..n : messages[q] > id
          BY <1>2, <1>3, <1>4, <4>2, <5>1
        <5> QED
          BY <2>3, <5>2
      <4> QED
        BY <4>1, <4>2
    <3>2. CASE i < k
      BY <1>5, <3>1, <3>2
    <3>3. CASE k <= i
      <4>1. ASSUME NEW q \in 1..l, q < k
            PROVE  id < messages[q]
        <5>1. q < i /\ i \in Nat /\ q \in Nat
          BY <1>1, <1>3, <3>3, <4>1
        <5>2. CASE i <= n
          BY <1>3, <1>4, <3>1, <5>1, <5>2
        <5>3. CASE q <= n /\ i > n
          BY <1>3, <3>1, <5>3
        <5>4. CASE q > n
          <6>1. q \in n + 1..Len(messages) /\ i \in n + 1..Len(messages)
            BY <1>1, <1>3, <5>1, <5>4 DEF l
          <6>2. /\ messages[q] = load.upto - (q - n) + 1
                /\ messages[i] = load.upto - (i - n) + 1
            BY <6>1 DEF Pushed
          <6>3. load.upto \in Nat
            BY DEF Gapless, Wires, Shape, Load
          <6> QED
            BY <1>3, <3>1, <5>1, <6>2, <6>3
        <5> QED
          BY <1>3, <5>1, <5>2, <5>3, <5>4
      <4>2. \A j \in 1..k : j = 1 \/ j \in 2..k
        BY <1>3
      <4> QED
        BY <1>1, <1>6, <2>3, <4>1, <4>2
    <3> QED
      BY <1>1, <1>3, <3>2, <3>3
  <2>4. CASE id < h /\ \A i \in 1..l : id < messages[i]
    <3>1. \A j \in 1..k : j = 1 \/ j \in 2..k
      BY <1>3
    <3> QED
      BY <1>1, <1>6, <2>4, <3>1
  <2>5. \/ Coming(id)
        \/ \E i \in 1..l : messages[i] = id
        \/ \A i \in 1..l : id < messages[i]
    BY DEF Complete, l
  <2>6. Coming(id) => id >= h
    BY <1>2
  <2> QED
    BY <1>2, <2>1, <2>2, <2>3, <2>4, <2>5, <2>6
<1>9. messages' # <<>>
  BY <1>1 DEF k
<1>10. /\ \A id \in 1..table' : p > 0 /\ messages'[p] <= id =>
             Coming(id)' \/ \E i \in 1..p : messages'[i] = id
       /\ \A id \in 1..table' : \/ Coming(id)'
                                \/ \E i \in 1..Len(messages') : messages'[i] = id
                                \/ /\ messages' # <<>>
                                   /\ \A i \in 1..Len(messages') : id < messages'[i]
  BY <1>2, <1>7, <1>8, <1>9 DEF k
<1> QED
  BY <1>10 DEF Complete, Coming

LEMMA ReadingKeeps ==
    ASSUME Gapless, [Next]_vars, Wires', AllMove, NEW h \in Nat, Reads(h)
    PROVE  Gapless'
<1>1. /\ load' = IF load.at = "answered" THEN Outdated ELSE load
      /\ ws' = ws /\ table' = table /\ table \in Nat
      /\ load \in Load /\ load.upto <= table /\ load.under \in {NoSocket, ws.socket}
      /\ load.under # NoSocket => Joined(load.under)
      /\ load.at = "asked" => load.under = NoSocket
  BY DEF Reads, Gapless, Wires, Shape, Under
<1>2. /\ load'.upto = load.upto /\ load'.at = load.at
      /\ load'.under = IF load.at = "answered" THEN NoSocket ELSE load.under
  BY <1>1 DEF Outdated, Load
<1>3. Under'
  <2>1. \A c \in Conns : Joined(c) => conns'[c].at \notin {"none", "upgraded"}
    BY DEF AllMove, Moves, Onward, Joined
  <2>2. load.under # NoSocket => conns'[load.under].at \notin {"none", "upgraded"}
    BY <1>1, <2>1 DEF Load
  <2> QED
    BY <1>1, <1>2, <2>2 DEF Under, Joined
<1>4. Awaited'
  BY <1>1, <1>2 DEF Awaited, Watched
<1>5. PICK n \in 0..Len(messages) : Pushed(n) /\ (load.at = "done" /\ Watched => Complete(n))
  BY DEF Gapless, Parted
<1>6. PICK p \in 1..Len(messages') :
              /\ p = IF n + 1 <= Len(messages') THEN n + 1 ELSE Len(messages')
              /\ Pushed(p)'
  BY <1>5, ReadingKeepsParted
<1>7. ASSUME load'.at = "done", Watched'
      PROVE  Complete(p)'
  <2>1. PICK c \in Conns : c = load.under /\ c # NoSocket
    BY <1>1, <1>2, <1>7 DEF Watched, Load
  <2>2. ws.socket = c /\ ws'.socket = c /\ Joined(c) /\ Linked' /\ Wires
    BY <1>1, <1>7, <2>1 DEF Watched, Gapless
  <2>3. Linked
    BY <2>2, LinkedBefore
  <2>4. Complete(n)
    BY <1>2, <1>5, <1>7, <2>1, <2>3 DEF Watched
  <2> QED
    BY <1>5, <1>6, <2>2, <2>4, ReadingKeepsComplete
<1>8. Parted'
  <2>1. p \in 0..Len(messages')
    <3>1. messages' \in Seq(Nat)
      BY DEF Wires, Shape
    <3> QED
      BY <3>1
  <2> QED
    BY <1>6, <1>7, <2>1 DEF Parted
<1> QED
  BY <1>3, <1>4, <1>8 DEF Gapless

LEMMA GaplessStart == Init => Gapless
<1> SUFFICES ASSUME Init
             PROVE  Gapless
  OBVIOUS
<1>1. /\ table = 0 /\ messages = <<>> /\ load = [at |-> "asked", upto |-> 0, under |-> NoSocket]
  BY DEF Init
<1>2. Under /\ Awaited
  BY <1>1 DEF Under, Awaited
<1>3. 0 \in 0..Len(messages) /\ Pushed(0)
  BY <1>1 DEF Pushed
<1>4. Parted
  BY <1>1, <1>3 DEF Parted
<1> QED
  BY <1>2, <1>4, WiresStart DEF Gapless

LEMMA GaplessSteps == Gapless /\ [Next]_vars => Gapless'
<1> SUFFICES ASSUME Gapless, [Next]_vars
             PROVE  Gapless'
  OBVIOUS
<1>1. Wires /\ Wires' /\ AllMove
  BY WiresSteps DEF Gapless
<1>2. CASE Quiet
  BY <1>1, <1>2, QuietKeeps
<1>3. CASE \E h \in Nat : Reads(h)
  BY <1>1, <1>3, ReadingKeeps
<1>4. CASE Remote /\ (Query \/ SetMessages \/ OnClose)
  BY <1>1, <1>4, QueryKeeps, ShowingKeeps, ClosingKeeps
<1> QED
  BY <1>1, <1>2, <1>3, <1>4, ShownMoves

\* No message newer than the oldest one shown is missing while the connection under which
\* the page was read lasts, for every order in which rows are inserted, emitted, written,
\* received and pushed around the page, whatever is cut off at the old end.
THEOREM NothingMissingWhileConnected == Spec => []NoGapWhileConnected
<1>1. Gapless => NoGapWhileConnected
  <2> SUFFICES ASSUME Gapless, load.at = "done", ws.socket = load.under, ws.socket \in clients,
                      ~conns[ws.socket].cut, NEW id \in 1..table
               PROVE  \/ id \in Range(messages)
                      \/ messages # <<>> /\ \A i \in DOMAIN messages : id < messages[i]
                      \/ Pending(id)
    BY DEF NoGapWhileConnected
  <2>1. PICK c \in Conns : c = ws.socket /\ c # NoSocket
    BY HubAssumption DEF Gapless, Wires, Shape, NoSocket
  <2>2. PICK n \in 0..Len(messages) : Complete(n)
    BY <2>1 DEF Gapless, Parted, Watched, Linked
  <2>3. messages \in Seq(Nat) /\ conns[c].wire \in Seq(Frame) /\ emitters \in [Emitters -> Emitter]
    BY DEF Gapless, Wires, Shape, Connection
  <2>4. CASE Coming(id)
    <3>1. CASE id \in Ids(c)
      <4>1. PICK i \in 1..Len(conns[c].wire) : conns[c].wire[i] = Chat(id)
        BY <3>1 DEF Ids, IdsOf, Holds
      <4> QED
        BY <2>1, <2>3, <4>1 DEF Pending, Frames, Range
    <3>2. CASE id = table /\ Owed(c)
      <4>1. emitters["ingest"].at # "idle"
        BY <3>2 DEF Owed, Gapless, Wires, Emission
      <4>2. emitters["ingest"].event = Chat(table)
        BY <4>1 DEF Gapless, Wires, Emission
      <4> QED
        BY <2>1, <3>2, <4>2 DEF Pending, Owed
    <3> QED
      BY <2>1, <2>4, <3>1, <3>2 DEF Coming
  <2>5. CASE \E i \in 1..Len(messages) : messages[i] = id
    BY <2>3, <2>5 DEF Range
  <2>6. CASE messages # <<>> /\ \A i \in 1..Len(messages) : id < messages[i]
    BY <2>3, <2>6
  <2> QED
    BY <2>2, <2>4, <2>5, <2>6 DEF Complete
<1> QED
  BY <1>1, GaplessStart, GaplessSteps, PTL DEF Spec

\* A message is shown twice only if the page had it before its event came, and never three
\* times, for every number of connections the browser makes meanwhile.
THEOREM TwiceAtMost == Spec => []TwiceOnlyIfPaged
<1>1. Gapless => TwiceOnlyIfPaged
  <2> SUFFICES ASSUME Gapless, NEW id \in Range(messages)
               PROVE  Times(id) <= IF id \in Range(Page) THEN 2 ELSE 1
    BY DEF TwiceOnlyIfPaged
  <2>1. messages \in Seq(Nat) /\ load \in Load /\ Len(messages) \in Nat
    BY DEF Gapless, Wires, Shape
  <2>2. PICK n \in 0..Len(messages) : Pushed(n)
    BY DEF Gapless, Parted
  <2> DEFINE Where(S) == {i \in S : messages[i] = id}
             new == Where(1..n)
             old == Where(n + 1..Len(messages))
  <2>3. Times(id) = Cardinality(new \cup old)
    <3>1. {i \in DOMAIN messages : messages[i] = id} = new \cup old
      BY <2>1
    <3> QED
      BY <3>1, Zenon DEF Times
  <2>4. \A i, j \in new : i = j
    <3>1. \A i, j \in 1..n : i < j => messages[j] < messages[i]
      BY <2>2 DEF Pushed
    <3>2. \A i \in new : messages[i] = id /\ i \in 1..n /\ i \in Nat
      BY <2>1
    <3>3. id \in Nat
      BY <2>1 DEF Range
    <3> QED
      BY <3>1, <3>2, <3>3
  <2>5. \A i \in old : i - n \in 1..PageLength /\ id = load.upto - (i - n) + 1 /\ i \in Nat
    BY <2>1, <2>2 DEF Pushed
  <2>6. load.upto \in Nat /\ PageLength \in Nat /\ n \in Nat
        /\ Page = [i \in 1..PageLength |-> load.upto - i + 1]
    BY <2>1, PageFacts
  <2>7. \A i, j \in old : i = j
    BY SMTT(30), <2>5, <2>6
  <2>8. old # {} => id \in Range(Page)
    BY <2>5, <2>6 DEF Range
  <2> HIDE DEF new, old
  <2>9. \A S : (\A i, j \in S : i = j) => IsFiniteSet(S) /\ Cardinality(S) <= 1 /\ Cardinality(S) \in Nat
    <3> SUFFICES ASSUME NEW S, \A i, j \in S : i = j
                 PROVE  IsFiniteSet(S) /\ Cardinality(S) <= 1 /\ Cardinality(S) \in Nat
      OBVIOUS
    <3>1. CASE S = {}
      BY <3>1, FS_EmptySet
    <3>2. CASE S # {}
      <4>1. PICK x : x \in S
        BY <3>2
      <4>2. S = {x}
        BY <4>1
      <4>3. IsFiniteSet({x}) /\ Cardinality({x}) = 1
        BY FS_Singleton
      <4> QED
        BY <4>2, <4>3
    <3> QED
      BY <3>1, <3>2
  <2>10. /\ IsFiniteSet(new) /\ Cardinality(new) <= 1 /\ Cardinality(new) \in Nat
         /\ IsFiniteSet(old) /\ Cardinality(old) <= 1 /\ Cardinality(old) \in Nat
    BY <2>4, <2>7, <2>9
  <2>11. CASE old = {}
    <3>1. new \cup old = new
      BY <2>11
    <3>2. Times(id) = Cardinality(new)
      BY <2>3, <3>1
    <3> QED
      BY <2>10, <3>2
  <2>12. CASE old # {}
    <3>1. Cardinality(new \cup old) <= Cardinality(new) + Cardinality(old)
      <4>1. IsFiniteSet(new \cap old)
        BY <2>10, FS_Intersection
      <4>2. Cardinality(new \cap old) \in Nat
        BY <4>1, FS_CardinalityType
      <4>3. Cardinality(new \cup old) = Cardinality(new) + Cardinality(old) - Cardinality(new \cap old)
        BY <2>10, FS_Union
      <4> QED
        BY <2>10, <4>2, <4>3
    <3>2. Cardinality(new \cup old) \in Nat
      <4>1. IsFiniteSet(new \cup old)
        BY <2>10, FS_Union
      <4> QED
        BY <4>1, FS_CardinalityType
    <3> QED
      BY <2>3, <2>8, <2>10, <2>12, <3>1, <3>2
  <2> QED
    BY <2>11, <2>12
<1> QED
  BY <1>1, GaplessStart, GaplessSteps, PTL DEF Spec

=============================================================================
