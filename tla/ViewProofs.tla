---------------------------- MODULE ViewProofs ----------------------------
(***************************************************************************)
(* Proofs about what the pages tell: of a node the marker that is drawn of *)
(* it, the links that both ends know, and the names it goes by (MapMarkers,*)
(* NodeLinks, NodeNames); of the log the hops that pass its filter and the *)
(* details of an event (LogPage).                                          *)
(***************************************************************************)
EXTENDS MapMarkers, NodeLinks, NodeNames, LogPage, SequenceTheorems, FunctionTheorems, FiniteSetTheorems, TLAPS

LEMMA LargerOfTwo ==
    ASSUME NEW a \in Int, NEW b \in Int
    PROVE  Max({a, b}) = IF a <= b THEN b ELSE a
<1>1. \E m \in {a, b} : \A y \in {a, b} : y <= m
  OBVIOUS
<1>2. Max({a, b}) \in {a, b} /\ a <= Max({a, b}) /\ b <= Max({a, b})
  BY <1>1 DEF Max
<1> QED
  BY <1>2

LEMMA SmallerOfTwo ==
    ASSUME NEW a \in Int, NEW b \in Int
    PROVE  Min({a, b}) = IF a <= b THEN a ELSE b
<1>1. \E m \in {a, b} : \A y \in {a, b} : m <= y
  OBVIOUS
<1>2. Min({a, b}) \in {a, b} /\ Min({a, b}) <= a /\ Min({a, b}) <= b
  BY <1>1 DEF Min
<1> QED
  BY <1>2

----------------------------------------------------------------------------
(* The marker.  What is drawn was right at the last rendering, so it lies  *)
(* between what the row says now and what it said as many ticks ago as     *)
(* have passed since: MarkersTell bounds it by the time between two.       *)

SeenAges == 0..OldestSeen \cup {NotSeen}
SeenRows == [seen : SeenAges, mqtt : SeenAges]

\* The row as it was d ticks ago, at the least.
Before(age, d) == IF age = NotSeen THEN NotSeen ELSE Max({0, age - d})
RowBefore(row, d) == [seen |-> Before(row.seen, d), mqtt |-> Before(row.mqtt, d)]

Brightness(row) == RankOf(MarkerFreshnessState(row, TRUE))
OnMap == client # "loading" /\ mapShown

MarkersTyped ==
    /\ heard \in SeenRows /\ known \in SeenRows
    /\ client \in {"loading", "off", "down", "up"}
    /\ mapShown \in BOOLEAN /\ selected \in BOOLEAN
    /\ drawn \in [freshness : {"mqtt-recent", "heard-recent", "stale", "cold", "no marker"},
                  large : BOOLEAN, status : {"Connected", "Disconnected", "no popup"}]
    /\ renderIn \in 0..RenderEvery

KnownLater == known.mqtt >= heard.mqtt /\ known.seen >= heard.seen

DrawnInTime ==
    WithThreshold(client) /\ mapShown =>
        /\ RankOf(drawn.freshness) >= Brightness(known)
        /\ RankOf(drawn.freshness) <= Brightness(RowBefore(known, RenderEvery - renderIn))
        /\ known.mqtt <= Threshold => drawn.status = "Connected"

GreenIsConnected ==
    drawn.freshness = "mqtt-recent" => WithThreshold(client) /\ drawn.status = "Connected"

MarkersInv ==
    /\ MarkersTyped /\ KnownLater /\ DrawnInTime /\ GreenIsConnected
    /\ OnMap <=> drawn # NoMarker

LEMMA AgesAre ==
    ASSUME NEW age \in SeenAges
    PROVE  /\ age \in Nat /\ AgeOf(age) \in SeenAges /\ AgeOf(age) >= age
           /\ \A d \in Nat :
                 /\ Before(age, d) \in SeenAges /\ Before(age, d) <= age
                 /\ Before(AgeOf(age), d + 1) <= Before(age, d)
                 /\ \A e \in 0..d : Before(age, d) <= Before(age, e)
           /\ Before(age, 0) = age
           /\ \A other \in SeenAges : age <= other => AgeOf(age) <= AgeOf(other)
<1>1. OldestSeen \in Nat /\ OldestSeen < 99 /\ NotSeen = 99
  BY MarkersAssumption DEF NotSeen
<1>2. ASSUME NEW a \in SeenAges
      PROVE  /\ a \in Nat
             /\ AgeOf(a) = IF a = 99 THEN 99 ELSE IF a < OldestSeen THEN a + 1 ELSE OldestSeen
             /\ a # 99 => a <= OldestSeen
  <2>1. a \in Nat /\ (a # 99 => a <= OldestSeen)
    BY <1>1 DEF SeenAges
  <2>2. a # 99 => Min({a + 1, OldestSeen}) = IF a + 1 <= OldestSeen THEN a + 1 ELSE OldestSeen
    BY <1>1, <2>1, SmallerOfTwo
  <2> QED
    BY <1>1, <2>1, <2>2 DEF AgeOf
<1>3. ASSUME NEW a \in SeenAges, NEW d \in Nat
      PROVE  Before(a, d) = IF a = 99 THEN 99 ELSE IF a >= d THEN a - d ELSE 0
  <2>1. a \in Nat
    BY <1>2
  <2>2. Max({0, a - d}) = IF 0 >= a - d THEN 0 ELSE a - d
    BY <2>1, LargerOfTwo
  <2> QED
    BY <1>1, <2>1, <2>2 DEF Before
<1>4. ASSUME NEW a \in SeenAges PROVE AgeOf(a) \in SeenAges /\ AgeOf(a) >= a
  BY <1>1, <1>2 DEF SeenAges
<1>5. ASSUME NEW d \in Nat
      PROVE  /\ Before(age, d) \in SeenAges /\ Before(age, d) <= age
             /\ Before(AgeOf(age), d + 1) <= Before(age, d)
             /\ \A e \in 0..d : Before(age, d) <= Before(age, e)
  <2>1. Before(age, d) = IF age = 99 THEN 99 ELSE IF age >= d THEN age - d ELSE 0
    BY <1>3
  <2>2. /\ age \in Nat /\ (age # 99 => age <= OldestSeen)
        /\ AgeOf(age) = IF age = 99 THEN 99 ELSE IF age < OldestSeen THEN age + 1 ELSE OldestSeen
    BY <1>2
  <2>3. Before(age, d) \in SeenAges
    BY <1>1, <2>1, <2>2 DEF SeenAges
  <2>4. Before(AgeOf(age), d + 1) =
           IF AgeOf(age) = 99 THEN 99 ELSE IF AgeOf(age) >= d + 1 THEN AgeOf(age) - (d + 1) ELSE 0
    <3>1. d + 1 \in Nat /\ AgeOf(age) \in SeenAges
      BY <1>4
    <3> QED
      BY <1>3, <3>1
  <2>5. Before(AgeOf(age), d + 1) <= Before(age, d)
    BY <1>1, <2>1, <2>2, <2>4
  <2>6. ASSUME NEW e \in 0..d PROVE Before(age, d) <= Before(age, e)
    <3>1. e \in Nat
      BY <2>6
    <3>2. Before(age, e) = IF age = 99 THEN 99 ELSE IF age >= e THEN age - e ELSE 0
      BY <1>3, <3>1
    <3> QED
      BY <2>1, <2>2, <2>6, <3>1, <3>2
  <2> QED
    BY <2>1, <2>2, <2>3, <2>5, <2>6
<1>6. Before(age, 0) = age
  BY <1>2, <1>3
<1>7. ASSUME NEW other \in SeenAges, age <= other PROVE AgeOf(age) <= AgeOf(other)
  BY <1>1, <1>2, <1>7
<1> QED
  BY <1>2, <1>4, <1>5, <1>6, <1>7

LEMMA OlderIsDuller ==
    ASSUME NEW a \in SeenRows, NEW b \in SeenRows, a.seen <= b.seen, a.mqtt <= b.mqtt
    PROVE  Brightness(b) <= Brightness(a)
<1>1. /\ a.seen \in Nat /\ a.mqtt \in Nat /\ b.seen \in Nat /\ b.mqtt \in Nat
  BY AgesAre DEF SeenRows
<1>2. Threshold \in Nat /\ ColdAge \in Nat
  BY MarkersAssumption
<1> QED
  BY <1>1, <1>2 DEF Brightness, MarkerFreshnessState, RankOf

LEMMA RowsBefore ==
    ASSUME NEW row \in SeenRows, NEW d \in Nat
    PROVE  /\ RowBefore(row, d) \in SeenRows
           /\ Brightness(row) <= Brightness(RowBefore(row, d))
           /\ OlderRow(row) \in SeenRows /\ OlderRow(row).seen >= row.seen
           /\ OlderRow(row).mqtt >= row.mqtt
           /\ Brightness(OlderRow(row)) <= Brightness(row)
           /\ Brightness(RowBefore(row, d)) <= Brightness(RowBefore(OlderRow(row), d + 1))
           /\ \A e \in 0..d : Brightness(RowBefore(row, e)) <= Brightness(RowBefore(row, d))
<1>1. row.seen \in SeenAges /\ row.mqtt \in SeenAges
  BY DEF SeenRows
<1>2. ASSUME NEW e \in Nat, NEW r \in SeenRows
      PROVE  /\ RowBefore(r, e) \in SeenRows
             /\ RowBefore(r, e).seen = Before(r.seen, e) /\ RowBefore(r, e).mqtt = Before(r.mqtt, e)
  <2>1. r.seen \in SeenAges /\ r.mqtt \in SeenAges
    BY DEF SeenRows
  <2> QED
    BY <2>1, AgesAre DEF RowBefore, SeenRows
<1>3. /\ OlderRow(row) \in SeenRows
      /\ OlderRow(row).seen = AgeOf(row.seen) /\ OlderRow(row).mqtt = AgeOf(row.mqtt)
  BY <1>1, AgesAre DEF OlderRow, SeenRows
<1>4. OlderRow(row).seen >= row.seen /\ OlderRow(row).mqtt >= row.mqtt
  BY <1>1, <1>3, AgesAre
<1>5. Brightness(row) <= Brightness(RowBefore(row, d))
  <2>1. RowBefore(row, d).seen <= row.seen /\ RowBefore(row, d).mqtt <= row.mqtt
    BY <1>1, <1>2, AgesAre
  <2> QED
    BY <1>2, <2>1, OlderIsDuller
<1>6. Brightness(OlderRow(row)) <= Brightness(row)
  <2>1. row.seen <= OlderRow(row).seen /\ row.mqtt <= OlderRow(row).mqtt
    <3>1. /\ row.seen \in Nat /\ row.mqtt \in Nat
          /\ AgeOf(row.seen) \in Nat /\ AgeOf(row.mqtt) \in Nat
      BY <1>1, AgesAre
    <3> QED
      BY <1>3, <1>4, <3>1
  <2> QED
    BY <1>3, <2>1, OlderIsDuller
<1>7. Brightness(RowBefore(row, d)) <= Brightness(RowBefore(OlderRow(row), d + 1))
  <2>1. d + 1 \in Nat
    OBVIOUS
  <2>2. /\ RowBefore(OlderRow(row), d + 1).seen <= RowBefore(row, d).seen
        /\ RowBefore(OlderRow(row), d + 1).mqtt <= RowBefore(row, d).mqtt
    BY <1>1, <1>2, <1>3, <2>1, AgesAre
  <2> QED
    BY <1>2, <1>3, <2>1, <2>2, OlderIsDuller
<1>8. ASSUME NEW e \in 0..d PROVE Brightness(RowBefore(row, e)) <= Brightness(RowBefore(row, d))
  <2>1. e \in Nat
    BY <1>8
  <2>2. ASSUME NEW age \in SeenAges PROVE Before(age, d) <= Before(age, e)
    BY <1>8, AgesAre
  <2>3. /\ RowBefore(row, d).seen <= RowBefore(row, e).seen
        /\ RowBefore(row, d).mqtt <= RowBefore(row, e).mqtt
    BY <1>1, <1>2, <2>1, <2>2
  <2> QED
    BY <1>2, <2>1, <2>3, OlderIsDuller
<1> QED
  BY <1>2, <1>3, <1>4, <1>5, <1>6, <1>7, <1>8

LEMMA MarkersTold == MarkersInv => MarkersTell
<1>1. SUFFICES ASSUME MarkersInv PROVE MarkersTell
  OBVIOUS
<1>2. ASSUME WithThreshold(client), mapShown
      PROVE  /\ RankOf(drawn.freshness) >= RankOf(MarkerFreshnessState(known, TRUE))
             /\ RankOf(drawn.freshness) <=
                   RankOf(MarkerFreshnessState([seen |-> Younger(known.seen), mqtt |-> Younger(known.mqtt)], TRUE))
  <2>1. PICK d : d = RenderEvery - renderIn
    OBVIOUS
  <2>2. d \in 0..RenderEvery /\ RenderEvery \in Nat /\ known \in SeenRows
    <3>1. renderIn \in 0..RenderEvery /\ known \in SeenRows
      BY <1>1, Zenon DEF MarkersInv, MarkersTyped
    <3>2. RenderEvery \in Nat
      BY MarkersAssumption
    <3> QED
      BY <2>1, <3>1, <3>2
  <2>3. Brightness(RowBefore(known, d)) <= Brightness(RowBefore(known, RenderEvery))
    BY <2>2, RowsBefore
  <2>4. RowBefore(known, RenderEvery) = [seen |-> Younger(known.seen), mqtt |-> Younger(known.mqtt)]
    BY DEF RowBefore, Before, Younger
  <2>5. /\ RankOf(drawn.freshness) >= Brightness(known)
        /\ RankOf(drawn.freshness) <= Brightness(RowBefore(known, d))
    BY <1>1, <1>2, <2>1 DEF MarkersInv, DrawnInTime
  <2>6. PICK b0, b1, b2, r : /\ b0 = Brightness(known) /\ r = RankOf(drawn.freshness)
                            /\ b1 = Brightness(RowBefore(known, d))
                            /\ b2 = Brightness(RowBefore(known, RenderEvery))
    OBVIOUS
  <2>7. b0 \in Int /\ b1 \in Int /\ b2 \in Int /\ r \in Int
    BY <2>6 DEF Brightness, RankOf
  <2>8. b0 <= r /\ r <= b2
    BY <2>3, <2>5, <2>6, <2>7
  <2>9. b2 = RankOf(MarkerFreshnessState([seen |-> Younger(known.seen), mqtt |-> Younger(known.mqtt)], TRUE))
    BY <2>4, <2>6 DEF Brightness
  <2> QED
    BY <2>6, <2>7, <2>8, <2>9 DEF Brightness
<1> QED
  BY <1>1, <1>2 DEF MarkersInv, MarkersTell, OnMap, GreenIsConnected, KnownLater

LEMMA MarkersStart == MarkersInit => MarkersInv
<1>1. SUFFICES ASSUME MarkersInit PROVE MarkersInv
  OBVIOUS
<1>2. OldestSeen \in Nat /\ RenderEvery \in Nat
  BY MarkersAssumption
<1>3. 0 \in SeenAges /\ NotSeen \in SeenAges
  BY <1>2 DEF SeenAges
<1>4. heard \in SeenRows /\ known \in SeenRows
  BY <1>1, <1>3 DEF MarkersInit, SeenRows
<1>5. /\ client = "loading" /\ mapShown \in BOOLEAN /\ selected \in BOOLEAN /\ drawn = NoMarker
      /\ renderIn = RenderEvery
  BY <1>1 DEF MarkersInit
<1>6. MarkersTyped
  <2>1. renderIn \in 0..RenderEvery
    BY <1>2, <1>5
  <2>2. drawn \in [freshness : {"mqtt-recent", "heard-recent", "stale", "cold", "no marker"},
                   large : BOOLEAN, status : {"Connected", "Disconnected", "no popup"}]
    BY <1>5 DEF NoMarker
  <2> QED
    BY <1>4, <1>5, <2>1, <2>2 DEF MarkersTyped
<1>7. KnownLater
  BY <1>1 DEF MarkersInit, KnownLater, NotSeen
<1> QED
  BY <1>5, <1>6, <1>7
     DEF MarkersInv, DrawnInTime, GreenIsConnected, OnMap, WithThreshold, NoMarker

\* What is rendered is as the client knows the node.
LEMMA Rendered ==
    ASSUME RenderNodes, client' # "loading", known' \in SeenRows, mapShown' \in BOOLEAN,
           selected' \in BOOLEAN, renderIn' \in 0..RenderEvery
    PROVE  /\ drawn' \in [freshness : {"mqtt-recent", "heard-recent", "stale", "cold", "no marker"},
                          large : BOOLEAN, status : {"Connected", "Disconnected", "no popup"}]
           /\ DrawnInTime' /\ GreenIsConnected'
           /\ (OnMap <=> drawn # NoMarker)'
<1>1. /\ \E row : row = known'
      /\ \E threshold \in BOOLEAN : threshold <=> WithThreshold(client')
  OBVIOUS
<1>10. PICK row : row = known'
  BY <1>1
<1>11. PICK threshold \in BOOLEAN : threshold <=> WithThreshold(client')
  BY <1>1
<1>2. WithThreshold(client') = threshold
  <2>1. WithThreshold(client') \in BOOLEAN
    BY DEF WithThreshold
  <2> QED
    BY <1>10, <1>11, <2>1
<1>3. row \in SeenRows /\ row.mqtt \in Nat /\ row.mqtt <= 99
  <2>1. row \in SeenRows /\ row.mqtt \in SeenAges
    BY <1>10, <1>11 DEF SeenRows
  <2>2. OldestSeen < 99 /\ OldestSeen \in Nat
    BY MarkersAssumption DEF NotSeen
  <2> QED
    BY <2>1, <2>2 DEF SeenAges, NotSeen
<1>4. Threshold \in Nat /\ Threshold < 99
  BY MarkersAssumption DEF NotSeen
<1>5. PICK marker : marker = RenderMarker(row, threshold, selected')
  OBVIOUS
<1>6. /\ drawn' = IF mapShown' THEN marker ELSE NoMarker
      /\ marker.freshness = MarkerFreshnessState(row, threshold)
      /\ marker.status = MqttStatus(row, threshold)
      /\ marker \in [freshness : {"mqtt-recent", "heard-recent", "stale", "cold"},
                     large : BOOLEAN, status : {"Connected", "Disconnected"}]
  <2>1. drawn' = IF mapShown' THEN marker ELSE NoMarker
    BY <1>10, <1>11, <1>2, <1>5 DEF RenderNodes
  <2>2. MarkerFreshnessState(row, threshold) \in {"mqtt-recent", "heard-recent", "stale", "cold"}
    BY DEF MarkerFreshnessState
  <2>3. MqttStatus(row, threshold) \in {"Connected", "Disconnected"}
    BY DEF MqttStatus
  <2> QED
    BY <1>5, <2>1, <2>2, <2>3 DEF RenderMarker
<1>7. marker # NoMarker
  <2>1. NoMarker.freshness = "no marker"
    BY DEF NoMarker
  <2>2. marker.freshness # "no marker"
    BY <1>6
  <2> QED
    BY <2>1, <2>2
<1>8. DrawnInTime'
  <2>1. SUFFICES ASSUME threshold, mapShown'
                 PROVE  /\ RankOf(marker.freshness) >= Brightness(row)
                        /\ RankOf(marker.freshness) <= Brightness(RowBefore(row, RenderEvery - renderIn'))
                        /\ row.mqtt <= Threshold => marker.status = "Connected"
    BY <1>10, <1>11, <1>6 DEF DrawnInTime, WithThreshold, RowBefore
  <2>2. RankOf(marker.freshness) = Brightness(row)
    BY <1>6, <2>1 DEF Brightness, MarkerFreshnessState
  <2>3. RenderEvery - renderIn' \in Nat
    BY MarkersAssumption
  <2>4. Brightness(row) <= Brightness(RowBefore(row, RenderEvery - renderIn'))
    BY <1>3, <2>3, RowsBefore
  <2>5. row.mqtt <= Threshold => marker.status = "Connected"
    BY <1>3, <1>4, <1>6, <2>1 DEF MqttStatus, NotSeen
  <2>6. Brightness(row) \in Int
    BY DEF Brightness, RankOf
  <2> QED
    BY <2>2, <2>4, <2>5, <2>6
<1>9. GreenIsConnected'
  <2>1. ASSUME mapShown', marker.freshness = "mqtt-recent"
        PROVE  threshold /\ marker.status = "Connected"
    <3>1. threshold /\ row.mqtt <= Threshold
      BY <1>6, <2>1 DEF MarkerFreshnessState
    <3> QED
      BY <1>3, <1>4, <1>6, <3>1 DEF MqttStatus, NotSeen
  <2> QED
    BY <1>10, <1>11, <1>6, <2>1 DEF GreenIsConnected, NoMarker, WithThreshold
<1> QED
  BY <1>6, <1>7, <1>8, <1>9 DEF OnMap, NoMarker

LEMMA MarkersGoOn == MarkersInv /\ [MarkersNext]_markerVars => MarkersInv'
<1>1. SUFFICES ASSUME MarkersInv, [MarkersNext]_markerVars PROVE MarkersInv'
  OBVIOUS
<1>2. /\ MarkersTyped /\ KnownLater /\ DrawnInTime /\ GreenIsConnected /\ (OnMap <=> drawn # NoMarker)
  BY <1>1 DEF MarkersInv
<1>3. /\ RenderEvery \in Nat \ {0} /\ Threshold \in Nat
  BY MarkersAssumption
<1>4. /\ heard \in SeenRows /\ known \in SeenRows
      /\ {heard.seen, heard.mqtt, known.seen, known.mqtt} \subseteq SeenAges
      /\ {heard.seen, heard.mqtt, known.seen, known.mqtt} \subseteq Nat
      /\ 0 \in SeenAges
  <2>1. heard \in SeenRows /\ known \in SeenRows
    BY <1>2 DEF MarkersTyped
  <2>2. {heard.seen, heard.mqtt, known.seen, known.mqtt} \subseteq SeenAges
    BY <2>1 DEF SeenRows
  <2>3. 0 \in SeenAges
    BY MarkersAssumption DEF SeenAges
  <2> QED
    BY <2>1, <2>2, <2>3, AgesAre
<1>13. /\ renderIn \in 0..RenderEvery /\ RenderEvery - renderIn \in Nat /\ renderIn \in Nat
       /\ mapShown \in BOOLEAN /\ selected \in BOOLEAN
  <2>1. renderIn \in 0..RenderEvery /\ mapShown \in BOOLEAN /\ selected \in BOOLEAN
    BY <1>2, Zenon DEF MarkersTyped
  <2> QED
    BY <1>3, <2>1
<1>5. CASE UNCHANGED markerVars
  BY <1>2, <1>5 DEF markerVars, MarkersInv, MarkersTyped, KnownLater, DrawnInTime, WithThreshold,
                    GreenIsConnected, OnMap, RowBefore, Brightness
<1>6. ASSUME SetMarkerSelection PROVE MarkersInv'
  <2>1. /\ mapShown /\ drawn # NoMarker /\ selected' \in BOOLEAN
        /\ UNCHANGED <<heard, known, client, mapShown, renderIn>>
    BY <1>6 DEF SetMarkerSelection
  <2>2. PICK threshold \in BOOLEAN : threshold <=> WithThreshold(client)
    OBVIOUS
  <2>3. WithThreshold(client) = threshold
    <3>1. WithThreshold(client) \in BOOLEAN
      BY DEF WithThreshold
    <3> QED
      BY <2>2, <3>1
  <2>4. PICK marker : marker = drawn'
    OBVIOUS
  <2>5. /\ marker.freshness = MarkerFreshnessState(known, threshold)
        /\ marker.status = drawn.status
        /\ marker \in [freshness : {"mqtt-recent", "heard-recent", "stale", "cold"},
                       large : BOOLEAN, status : {"Connected", "Disconnected", "no popup"}]
    <3>1. marker = [freshness |-> MarkerFreshnessState(known, threshold),
                    large |-> selected', status |-> drawn.status]
      BY <1>6, <2>3, <2>4 DEF SetMarkerSelection
    <3>2. MarkerFreshnessState(known, threshold) \in {"mqtt-recent", "heard-recent", "stale", "cold"}
      BY DEF MarkerFreshnessState
    <3>3. drawn.status \in {"Connected", "Disconnected", "no popup"}
      BY <1>2 DEF MarkersTyped
    <3> QED
      BY <2>1, <3>1, <3>2, <3>3
  <2>6. MarkersTyped'
    BY <1>2, <2>1, <2>4, <2>5 DEF MarkersTyped
  <2>7. DrawnInTime'
    <3>1. SUFFICES ASSUME threshold
                   PROVE  /\ RankOf(marker.freshness) >= Brightness(known)
                          /\ RankOf(marker.freshness) <= Brightness(RowBefore(known, RenderEvery - renderIn))
                          /\ known.mqtt <= Threshold => marker.status = "Connected"
      BY <2>1, <2>2, <2>4 DEF DrawnInTime, WithThreshold, RowBefore, Brightness
    <3>2. RankOf(marker.freshness) = Brightness(known)
      BY <2>5, <3>1 DEF Brightness
    <3>3. RenderEvery - renderIn \in Nat
      BY <1>13
    <3>4. Brightness(known) <= Brightness(RowBefore(known, RenderEvery - renderIn))
      BY <1>4, <3>3, RowsBefore
    <3>5. Brightness(known) \in Int
      BY DEF Brightness, RankOf
    <3>6. known.mqtt <= Threshold => marker.status = "Connected"
      BY <1>2, <2>1, <2>2, <2>5, <3>1 DEF DrawnInTime
    <3> QED
      BY <3>2, <3>4, <3>5, <3>6
  <2>8. GreenIsConnected'
    <3>1. ASSUME marker.freshness = "mqtt-recent" PROVE threshold /\ drawn.status = "Connected"
      <4>1. threshold /\ known.mqtt <= Threshold
        BY <2>5, <3>1 DEF MarkerFreshnessState
      <4> QED
        BY <1>2, <2>1, <2>2, <4>1 DEF DrawnInTime
    <3> QED
      BY <2>1, <2>2, <2>4, <2>5, <3>1 DEF GreenIsConnected, WithThreshold
  <2>9. marker # NoMarker
    <3>1. NoMarker.freshness = "no marker"
      BY DEF NoMarker
    <3>2. marker.freshness # "no marker"
      BY <2>5
    <3> QED
      BY <3>1, <3>2
  <2> QED
    BY <1>2, <2>1, <2>4, <2>6, <2>7, <2>8, <2>9 DEF MarkersInv, KnownLater, OnMap
<1>7. ASSUME LeaveOrEnterMap PROVE MarkersInv'
  <2>1. /\ mapShown' \in BOOLEAN /\ selected' = FALSE
        /\ UNCHANGED <<heard, known, client, renderIn>>
    BY <1>2, <1>7 DEF LeaveOrEnterMap, MarkersTyped
  <2>2. KnownLater' /\ known' \in SeenRows /\ renderIn' \in 0..RenderEvery
    BY <1>2, <2>1 DEF KnownLater, MarkersTyped
  <2>3. CASE client = "loading"
    <3>1. drawn' = drawn /\ drawn = NoMarker
      BY <1>2, <1>7, <2>3 DEF LeaveOrEnterMap, OnMap
    <3> QED
      BY <1>2, <2>1, <2>2, <2>3, <3>1
         DEF MarkersInv, MarkersTyped, DrawnInTime, GreenIsConnected, OnMap, WithThreshold, NoMarker
  <2>4. CASE client # "loading"
    <3>1. RenderNodes
      BY <1>7, <2>4 DEF LeaveOrEnterMap
    <3>2. /\ DrawnInTime' /\ GreenIsConnected' /\ (OnMap <=> drawn # NoMarker)'
          /\ drawn' \in [freshness : {"mqtt-recent", "heard-recent", "stale", "cold", "no marker"},
                         large : BOOLEAN, status : {"Connected", "Disconnected", "no popup"}]
      BY <2>1, <2>2, <2>4, <3>1, Rendered
    <3> QED
      BY <1>2, <2>1, <2>2, <3>2 DEF MarkersInv, MarkersTyped
  <2> QED
    BY <2>3, <2>4
<1>8. ASSUME NEW evidence \in Evidences, UpsertNodeEvidence(evidence) PROVE MarkersInv'
  <2>1. PICK row, told : row = heard' /\ told = known'
    OBVIOUS
  <2>2. /\ row = [seen |-> 0, mqtt |-> IF evidence \in {"own", "gateway"} THEN 0 ELSE heard.mqtt]
        /\ UNCHANGED <<client, mapShown, selected, renderIn>>
        /\ IF client = "up" /\ evidence \in {"sent", "own"}
           THEN told = [seen |-> 0, mqtt |-> IF evidence = "own" THEN 0 ELSE known.mqtt] /\ RenderNodes
           ELSE told = known /\ drawn' = drawn
    BY <1>8, <2>1 DEF UpsertNodeEvidence, NodeUpsert
  <2>3. row \in SeenRows /\ told \in SeenRows
    <3>1. CASE client = "up" /\ evidence \in {"sent", "own"}
      BY <1>4, <2>2, <3>1 DEF SeenRows
    <3>2. CASE ~(client = "up" /\ evidence \in {"sent", "own"})
      BY <1>4, <2>2, <3>2 DEF SeenRows
    <3> QED
      BY <3>1, <3>2
  <2>4. told.mqtt >= row.mqtt /\ told.seen >= row.seen
    <3>1. CASE client = "up" /\ evidence \in {"sent", "own"}
      BY <1>2, <1>4, <2>2, <3>1 DEF KnownLater
    <3>2. CASE ~(client = "up" /\ evidence \in {"sent", "own"})
      BY <1>2, <1>4, <2>2, <3>2 DEF KnownLater
    <3> QED
      BY <3>1, <3>2
  <2>5. CASE client = "up" /\ evidence \in {"sent", "own"}
    <3>1. RenderNodes /\ client' # "loading" /\ known' \in SeenRows /\ mapShown' \in BOOLEAN
          /\ selected' \in BOOLEAN /\ renderIn' \in 0..RenderEvery
      BY <1>2, <2>1, <2>2, <2>3, <2>5 DEF MarkersTyped
    <3>2. /\ DrawnInTime' /\ GreenIsConnected' /\ (OnMap <=> drawn # NoMarker)'
          /\ drawn' \in [freshness : {"mqtt-recent", "heard-recent", "stale", "cold", "no marker"},
                         large : BOOLEAN, status : {"Connected", "Disconnected", "no popup"}]
      BY <3>1, Rendered
    <3> QED
      BY <1>2, <2>1, <2>2, <2>3, <2>4, <3>2 DEF MarkersInv, MarkersTyped, KnownLater
  <2>6. CASE ~(client = "up" /\ evidence \in {"sent", "own"})
    <3>1. UNCHANGED <<known, client, mapShown, selected, renderIn, drawn>>
      BY <2>1, <2>2, <2>6
    <3>2. MarkersTyped' /\ KnownLater'
      BY <1>2, <2>1, <2>3, <2>4, <3>1 DEF MarkersTyped, KnownLater
    <3>3. DrawnInTime' /\ GreenIsConnected' /\ (OnMap <=> drawn # NoMarker)'
      BY <1>2, <3>1 DEF DrawnInTime, WithThreshold, GreenIsConnected, OnMap, RowBefore, Brightness
    <3> QED
      BY <3>2, <3>3 DEF MarkersInv
  <2> QED
    BY <2>5, <2>6
<1>9. ASSUME NEW meta \in BOOLEAN, LoadMarkers(meta) PROVE MarkersInv'
  <2>1. /\ client' \in {"down", "off"} /\ known' = heard /\ renderIn' = RenderEvery
        /\ UNCHANGED <<heard, mapShown, selected>> /\ RenderNodes
    BY <1>9 DEF LoadMarkers
  <2>2. /\ client' # "loading" /\ known' \in SeenRows /\ mapShown' \in BOOLEAN
        /\ selected' \in BOOLEAN /\ renderIn' \in 0..RenderEvery
    BY <1>3, <1>4, <1>13, <2>1
  <2>3. /\ DrawnInTime' /\ GreenIsConnected' /\ (OnMap <=> drawn # NoMarker)'
        /\ drawn' \in [freshness : {"mqtt-recent", "heard-recent", "stale", "cold", "no marker"},
                       large : BOOLEAN, status : {"Connected", "Disconnected", "no popup"}]
    BY <2>1, <2>2, Rendered
  <2>4. KnownLater'
    BY <1>4, <2>1 DEF KnownLater
  <2>5. MarkersTyped'
    BY <1>4, <2>1, <2>2, <2>3 DEF MarkersTyped
  <2> QED
    BY <2>3, <2>4, <2>5 DEF MarkersInv
<1>10. ASSUME ConnectOrDropMarkers PROVE MarkersInv'
  <2>1. /\ client \in {"down", "up"} /\ client' \in {"down", "up"}
        /\ UNCHANGED <<heard, known, mapShown, selected, drawn, renderIn>>
    BY <1>10 DEF ConnectOrDropMarkers, WithThreshold
  <2> QED
    BY <1>2, <2>1 DEF MarkersInv, MarkersTyped, KnownLater, DrawnInTime, WithThreshold,
                      GreenIsConnected, OnMap, RowBefore, Brightness
<1>11. ASSUME ApplyRelevanceToMarkers PROVE MarkersInv'
  <2>1. /\ client \in {"down", "up"} /\ renderIn' = (IF renderIn = 0 THEN RenderEvery ELSE renderIn)
        /\ UNCHANGED <<heard, known, client, mapShown, selected>> /\ RenderNodes
    BY <1>11 DEF ApplyRelevanceToMarkers, WithThreshold
  <2>2. /\ client' # "loading" /\ known' \in SeenRows /\ mapShown' \in BOOLEAN
        /\ selected' \in BOOLEAN /\ renderIn' \in 0..RenderEvery
    BY <1>3, <1>4, <1>13, <2>1
  <2>3. /\ DrawnInTime' /\ GreenIsConnected' /\ (OnMap <=> drawn # NoMarker)'
        /\ drawn' \in [freshness : {"mqtt-recent", "heard-recent", "stale", "cold", "no marker"},
                       large : BOOLEAN, status : {"Connected", "Disconnected", "no popup"}]
    BY <2>1, <2>2, Rendered
  <2> QED
    BY <1>2, <2>1, <2>2, <2>3 DEF MarkersInv, MarkersTyped, KnownLater
<1>12. ASSUME TickMarkers PROVE MarkersInv'
  <2>1. /\ WithThreshold(client) => renderIn > 0
        /\ heard' = OlderRow(heard) /\ known' = OlderRow(known)
        /\ renderIn' = IF WithThreshold(client) THEN renderIn - 1 ELSE renderIn
        /\ UNCHANGED <<client, mapShown, selected, drawn>>
    BY <1>12 DEF TickMarkers
  <2>2. PICK row, told : row = heard' /\ told = known'
    OBVIOUS
  <2>3. row \in SeenRows /\ told \in SeenRows /\ told.mqtt >= known.mqtt
    BY <1>4, <2>1, <2>2, RowsBefore
  <2>4. told.mqtt >= row.mqtt /\ told.seen >= row.seen
    <3>1. /\ row.mqtt = AgeOf(heard.mqtt) /\ row.seen = AgeOf(heard.seen)
          /\ told.mqtt = AgeOf(known.mqtt) /\ told.seen = AgeOf(known.seen)
      BY <2>1, <2>2 DEF OlderRow
    <3>2. AgeOf(heard.mqtt) <= AgeOf(known.mqtt) /\ AgeOf(heard.seen) <= AgeOf(known.seen)
      BY <1>2, <1>4, AgesAre DEF KnownLater
    <3>3. {row.mqtt, row.seen, told.mqtt, told.seen} \subseteq Nat
      BY <1>4, <3>1, AgesAre
    <3> QED
      BY <3>1, <3>2, <3>3
  <2>5. renderIn \in 0..RenderEvery /\ renderIn' \in 0..RenderEvery
    BY <1>3, <1>13, <2>1
  <2>6. MarkersTyped' /\ KnownLater'
    BY <1>2, <2>1, <2>2, <2>3, <2>4, <2>5 DEF MarkersTyped, KnownLater
  <2>7. GreenIsConnected' /\ (OnMap <=> drawn # NoMarker)'
    BY <1>2, <2>1 DEF GreenIsConnected, OnMap, WithThreshold
  <2>8. DrawnInTime'
    <3>1. PICK d, left : d = RenderEvery - renderIn /\ left = renderIn'
      OBVIOUS
    <3>2. SUFFICES ASSUME WithThreshold(client), mapShown
                   PROVE  /\ RankOf(drawn.freshness) >= Brightness(told)
                          /\ RankOf(drawn.freshness) <= Brightness(RowBefore(told, RenderEvery - left))
                          /\ told.mqtt <= Threshold => drawn.status = "Connected"
      BY <2>1, <2>2, <3>1 DEF DrawnInTime, WithThreshold, RowBefore, Brightness
    <3>3. RenderEvery - left = d + 1 /\ d \in Nat
      BY <1>3, <2>1, <2>5, <3>1, <3>2
    <3>4. /\ RankOf(drawn.freshness) >= Brightness(known)
          /\ RankOf(drawn.freshness) <= Brightness(RowBefore(known, d))
          /\ known.mqtt <= Threshold => drawn.status = "Connected"
      BY <1>2, <3>1, <3>2 DEF DrawnInTime
    <3>5. /\ Brightness(told) <= Brightness(known)
          /\ Brightness(RowBefore(known, d)) <= Brightness(RowBefore(told, d + 1))
      BY <1>4, <2>1, <2>2, <3>3, RowsBefore
    <3>6. PICK b0, b1, b2, b3, r : /\ b0 = Brightness(told) /\ r = RankOf(drawn.freshness)
                                  /\ b1 = Brightness(known) /\ b2 = Brightness(RowBefore(known, d))
                                  /\ b3 = Brightness(RowBefore(told, RenderEvery - left))
      OBVIOUS
    <3>9. b0 \in Int /\ b1 \in Int /\ b2 \in Int /\ b3 \in Int /\ r \in Int
      BY <3>6 DEF Brightness, RankOf
    <3>10. r >= b0 /\ r <= b3
      BY <3>3, <3>4, <3>5, <3>6, <3>9
    <3>7. told.mqtt \in Nat
      <4>1. told.mqtt \in SeenAges
        BY <2>3 DEF SeenRows
      <4> QED
        BY <4>1, AgesAre
    <3>8. told.mqtt <= Threshold => known.mqtt <= Threshold
      BY <1>3, <1>4, <2>3, <3>7
    <3> QED
      BY <3>4, <3>6, <3>8, <3>10
  <2> QED
    BY <2>6, <2>7, <2>8 DEF MarkersInv
<1> QED
  BY <1>1, <1>5, <1>6, <1>7, <1>8, <1>9, <1>10, <1>11, <1>12 DEF MarkersNext

\* The marker shows the node as fresh as the client knows it, at most one interval of the
\* pruning behind, a green one has a popup that says connected, and the client never takes the
\* node for more recent than the server does (leafletMap.ts, App.tsx, ingest/service.go).
THEOREM MarkersAreFresh == MarkersSpec => []MarkersTell
<1>1. MarkersSpec => []MarkersInv
  BY MarkersStart, MarkersGoOn, PTL DEF MarkersSpec
<1> QED
  BY <1>1, MarkersTold, PTL

----------------------------------------------------------------------------
(* The links.  What an end of a link knows is the better of what it told   *)
(* itself and of what the other end told, without the signal.  Merging     *)
(* keeps the better rank, so the rank that is kept is the lowest there was *)
(* in whatever order the answers came.                                     *)

Neighbors == [kind : Kinds, snr : Int, at : Int]

\* What an end knows of a link: the best it was told, or the other end was, whose signal is
\* not its own.
Reversed(rank) == IF rank = 0 THEN 1 ELSE rank
Known(a, b) == IF bestTold[a][b] <= Reversed(bestTold[b][a])
               THEN bestTold[a][b] ELSE Reversed(bestTold[b][a])

LinksTyped ==
    /\ bestTold \in [LinkNodes -> [LinkNodes -> 0..Never]]
    /\ DOMAIN linkCache = LinkNodes
    /\ \A a \in LinkNodes :
          /\ DOMAIN linkCache[a] \subseteq LinkNodes
          /\ \A b \in DOMAIN linkCache[a] : linkCache[a][b] \in Neighbors

BestIsKnown ==
    \A a, b \in LinkNodes : a # b =>
        /\ b \in DOMAIN linkCache[a] <=> Known(a, b) # Never
        /\ b \in DOMAIN linkCache[a] =>
              /\ NeighborRank(linkCache[a][b]) = Known(a, b)
              /\ linkCache[a][b].snr # NoSNR => bestTold[a][b] # Never

LinksInv == LinksTyped /\ BestIsKnown

LEMMA SmallerRank ==
    ASSUME NEW a \in 0..Never, NEW b \in 0..Never
    PROVE  BestRank({a, b}) = IF a <= b THEN a ELSE b
<1>1. a \in Int /\ b \in Int /\ a <= 4 /\ b <= 4 /\ Never = 4
  BY DEF Never
<1>2. \E m \in {a, b} \cup {Never} : \A y \in {a, b} \cup {Never} : m <= y
  <2>1. CASE a <= b
    BY <1>1, <2>1
  <2>2. CASE ~(a <= b)
    BY <1>1, <2>2
  <2> QED
    BY <2>1, <2>2
<1>3. /\ Min({a, b} \cup {Never}) \in {a, b, 4}
      /\ Min({a, b} \cup {Never}) <= a /\ Min({a, b} \cup {Never}) <= b
  BY <1>1, <1>2 DEF Min
<1> QED
  BY <1>1, <1>3 DEF BestRank

LEMMA OneRank == ASSUME NEW a \in 0..Never PROVE BestRank({a}) = a
<1>1. {a} = {a, a}
  OBVIOUS
<1> QED
  BY <1>1, SmallerRank

LEMMA RanksAre ==
    ASSUME NEW n \in Neighbors
    PROVE  /\ NeighborRank(n) \in 0..3
           /\ n.kind = "inferred" <=> NeighborRank(n) = 3
           /\ n.kind = "mqtt_direct" <=> NeighborRank(n) = 2
           /\ n.kind = "neighbor_info" <=> NeighborRank(n) \in {0, 1}
           /\ NeighborRank(n) = 0 => n.snr # NoSNR
           /\ MakeReverseNeighbor(n) \in Neighbors
           /\ MakeReverseNeighbor(n).snr = NoSNR
           /\ NeighborRank(MakeReverseNeighbor(n)) = Reversed(NeighborRank(n))
<1>1. n.kind \in Kinds /\ n.snr \in Int /\ n.at \in Int
  BY DEF Neighbors
<1>2. PICK r : r = MakeReverseNeighbor(n)
  OBVIOUS
<1>3. r \in Neighbors /\ r.snr = NoSNR /\ r.kind = n.kind
  BY <1>2 DEF MakeReverseNeighbor, Neighbors, NoSNR
<1> QED
  BY <1>1, <1>2, <1>3 DEF NeighborRank, Kinds, Reversed

LEMMA BetterIsChosen ==
    ASSUME NEW c \in Neighbors, NEW i \in Neighbors
    PROVE  LET better == ChooseBetterNeighbor(c, i)
           IN  /\ better \in Neighbors
               /\ NeighborRank(better) = IF NeighborRank(c) <= NeighborRank(i)
                                         THEN NeighborRank(c) ELSE NeighborRank(i)
               /\ better.snr \in {c.snr, i.snr, NoSNR}
<1>1. PICK better : better = ChooseBetterNeighbor(c, i)
  OBVIOUS
<1>2. NeighborRank(c) \in 0..3 /\ NeighborRank(i) \in 0..3
  BY RanksAre
<1>3. CASE NeighborRank(c) < NeighborRank(i)
  BY <1>1, <1>2, <1>3 DEF ChooseBetterNeighbor
<1>4. CASE ~(NeighborRank(c) < NeighborRank(i)) /\ (NeighborRank(i) < NeighborRank(c) \/ i.snr # NoSNR)
  BY <1>1, <1>2, <1>4 DEF ChooseBetterNeighbor
<1>5. CASE ~(NeighborRank(c) < NeighborRank(i)) /\ ~(NeighborRank(i) < NeighborRank(c) \/ i.snr # NoSNR)
  <2>1. NeighborRank(c) = NeighborRank(i) /\ i.snr = NoSNR
    BY <1>2, <1>5
  <2>2. better = [i EXCEPT !.snr = IF i.at > c.at THEN NoSNR ELSE c.snr]
    BY <1>1, <1>5 DEF ChooseBetterNeighbor
  <2>3. /\ better.kind = i.kind /\ better.snr \in {NoSNR, c.snr}
        /\ better \in Neighbors
    BY <2>2 DEF Neighbors, NoSNR
  <2>4. i.kind \in Kinds /\ c.kind \in Kinds
    BY DEF Neighbors
  <2>5. NeighborRank(better) = NeighborRank(i)
    BY <2>1, <2>3, <2>4 DEF NeighborRank, Kinds
  <2> QED
    BY <1>1, <1>2, <2>1, <2>3, <2>5
<1> QED
  BY <1>3, <1>4, <1>5

LEMMA LinksTold == LinksInv => LinksAgree
<1>1. SUFFICES ASSUME LinksInv, NEW a \in LinkNodes, NEW b \in LinkNodes, a # b
               PROVE  /\ b \in DOMAIN linkCache[a] <=>
                            BestRank({bestTold[a][b], Reversed(bestTold[b][a])}) # Never
                      /\ b \in DOMAIN linkCache[a] =>
                          /\ NeighborRank(linkCache[a][b]) =
                                BestRank({bestTold[a][b], Reversed(bestTold[b][a])})
                          /\ linkCache[a][b].kind = linkCache[b][a].kind
                          /\ linkCache[a][b].snr # NoSNR => bestTold[a][b] # Never
                          /\ TopologyEvidenceLabel(linkCache[a][b]) = TopologyEvidenceLabel(linkCache[b][a])
                          /\ TopologySignalLabel(linkCache[a][b]) = "Inferred" <=>
                                {l.color : l \in {l \in RenderTopology(b, {b, a}) : l.to = a}} = {"inferred"}
                      /\ {l.color : l \in {l \in RenderTopology(a, {a, b}) : l.to = b}} = {} <=>
                            {l.color : l \in {l \in RenderTopology(b, {b, a}) : l.to = a}} = {}
                      /\ \A sorted \in SortedNeighbors(linkCache[a]) : \A i \in 1 .. Len(sorted) - 1 :
                            NeighborRank(linkCache[a][sorted[i]]) <= NeighborRank(linkCache[a][sorted[i + 1]])
  BY DEF LinksAgree, Reversed
<1>2. /\ bestTold[a][b] \in 0..4 /\ bestTold[b][a] \in 0..4
      /\ DOMAIN linkCache[a] \subseteq LinkNodes
      /\ \A n \in DOMAIN linkCache[a] : linkCache[a][n] \in Neighbors
      /\ \A n \in DOMAIN linkCache[b] : linkCache[b][n] \in Neighbors
  BY <1>1 DEF LinksInv, LinksTyped, Never
<1>3. Reversed(bestTold[a][b]) \in 0..4 /\ Reversed(bestTold[b][a]) \in 0..4
  BY <1>2 DEF Reversed
<1>4. BestRank({bestTold[a][b], Reversed(bestTold[b][a])}) = Known(a, b)
  BY <1>2, <1>3, SmallerRank DEF Known, Never
<1>5. /\ b \in DOMAIN linkCache[a] <=> Known(a, b) # 4
      /\ a \in DOMAIN linkCache[b] <=> Known(b, a) # 4
      /\ b \in DOMAIN linkCache[a] => /\ NeighborRank(linkCache[a][b]) = Known(a, b)
                                      /\ linkCache[a][b].snr # NoSNR => bestTold[a][b] # 4
      /\ a \in DOMAIN linkCache[b] => NeighborRank(linkCache[b][a]) = Known(b, a)
  BY <1>1 DEF LinksInv, BestIsKnown, Never
<1>6. /\ Known(a, b) = 4 <=> Known(b, a) = 4
      /\ Known(a, b) = 3 <=> Known(b, a) = 3
      /\ Known(a, b) = 2 <=> Known(b, a) = 2
      /\ Known(a, b) \in 0..4 /\ Known(b, a) \in 0..4
  BY <1>2, <1>3 DEF Known, Reversed
<1>7. b \in DOMAIN linkCache[a] <=> a \in DOMAIN linkCache[b]
  BY <1>5, <1>6
<1>8. ASSUME b \in DOMAIN linkCache[a] PROVE linkCache[a][b].kind = linkCache[b][a].kind
  <2>1. linkCache[a][b] \in Neighbors /\ linkCache[b][a] \in Neighbors
    BY <1>2, <1>7, <1>8
  <2>2. linkCache[a][b].kind \in Kinds /\ linkCache[b][a].kind \in Kinds
    BY <2>1 DEF Neighbors
  <2> QED
    BY <1>5, <1>6, <1>7, <1>8, <2>1, <2>2, RanksAre DEF Kinds
<1>9. ASSUME NEW n \in LinkNodes, NEW m \in LinkNodes, n # m
      PROVE  {l.color : l \in {l \in RenderTopology(n, {n, m}) : l.to = m}} =
                IF m \in DOMAIN linkCache[n]
                THEN {TopologyColor(linkCache[n][m].kind = "inferred",
                                    linkCache[n][m].kind = "mqtt_direct", linkCache[n][m].snr)}
                ELSE {}
  <2> DEFINE color(o) == TopologyColor(linkCache[n][o].kind = "inferred",
                                       linkCache[n][o].kind = "mqtt_direct", linkCache[n][o].snr)
             line(o) == [to |-> o, color |-> color(o)]
  <2>1. RenderTopology(n, {n, m}) = {line(o) : o \in DOMAIN linkCache[n] \cap {n, m}}
    BY DEF RenderTopology
  <2>2. \A o : line(o).to = o /\ line(o).color = color(o)
    OBVIOUS
  <2> HIDE DEF line, color
  <2>3. CASE m \in DOMAIN linkCache[n]
    <3>1. {l \in RenderTopology(n, {n, m}) : l.to = m} = {line(m)}
      BY <2>1, <2>2, <2>3
    <3>2. {l.color : l \in {line(m)}} = {color(m)}
      BY <2>2
    <3> QED
      BY <2>3, <3>1, <3>2 DEF color
  <2>4. CASE m \notin DOMAIN linkCache[n]
    <3>1. {l \in RenderTopology(n, {n, m}) : l.to = m} = {}
      BY <2>1, <2>2, <2>4
    <3> QED
      BY <2>4, <3>1
  <2> QED
    BY <2>3, <2>4
<1>10. ASSUME b \in DOMAIN linkCache[a]
       PROVE  /\ TopologyEvidenceLabel(linkCache[a][b]) = TopologyEvidenceLabel(linkCache[b][a])
              /\ TopologySignalLabel(linkCache[a][b]) = "Inferred" <=>
                    {l.color : l \in {l \in RenderTopology(b, {b, a}) : l.to = a}} = {"inferred"}
  <2>1. {l.color : l \in {l \in RenderTopology(b, {b, a}) : l.to = a}} =
           {TopologyColor(linkCache[b][a].kind = "inferred",
                          linkCache[b][a].kind = "mqtt_direct", linkCache[b][a].snr)}
    BY <1>1, <1>7, <1>9, <1>10
  <2>2. PICK i \in BOOLEAN : i <=> linkCache[b][a].kind = "inferred"
    OBVIOUS
  <2>3. (linkCache[b][a].kind = "inferred") = i
    BY <2>2
  <2>4. \A q, s : TopologyColor(TRUE, q, s) = "inferred"
    BY DEF TopologyColor
  <2>5. \A q : \A s \in Int : TopologyColor(FALSE, q, s) # "inferred"
    BY DEF TopologyColor, NoSNR
  <2>6. linkCache[b][a].snr \in Int
    BY <1>2, <1>7, <1>10 DEF Neighbors
  <2>7. TopologySignalLabel(linkCache[a][b]) = "Inferred" <=> linkCache[a][b].kind = "inferred"
    BY DEF TopologySignalLabel
  <2>8. i <=> TopologyColor(linkCache[b][a].kind = "inferred",
                            linkCache[b][a].kind = "mqtt_direct", linkCache[b][a].snr) = "inferred"
    BY <2>3, <2>4, <2>5, <2>6
  <2> QED
    BY <1>8, <1>10, <2>1, <2>2, <2>7, <2>8 DEF TopologyEvidenceLabel
<1>11. {l.color : l \in {l \in RenderTopology(a, {a, b}) : l.to = b}} = {} <=>
          {l.color : l \in {l \in RenderTopology(b, {b, a}) : l.to = a}} = {}
  BY <1>1, <1>7, <1>9
<1>12. ASSUME NEW sorted \in SortedNeighbors(linkCache[a]), NEW i \in 1 .. Len(sorted) - 1
       PROVE  NeighborRank(linkCache[a][sorted[i]]) <= NeighborRank(linkCache[a][sorted[i + 1]])
  <2>1. Cardinality(DOMAIN linkCache[a]) \in Nat
    BY <1>2, LinksAssumption, FS_Subset, FS_CardinalityType
  <2>2. /\ sorted \in [1..Cardinality(DOMAIN linkCache[a]) -> DOMAIN linkCache[a]]
        /\ \A j, k \in DOMAIN sorted : j < k =>
              ~NeighborBefore(linkCache[a][sorted[k]], linkCache[a][sorted[j]])
    BY DEF SortedNeighbors
  <2>3. i \in DOMAIN sorted /\ i + 1 \in DOMAIN sorted /\ i < i + 1
    BY <2>1, <2>2
  <2>4. /\ NeighborRank(linkCache[a][sorted[i]]) \in 0..3
        /\ NeighborRank(linkCache[a][sorted[i + 1]]) \in 0..3
    BY <1>2, <2>2, <2>3, RanksAre
  <2>5. ~(NeighborRank(linkCache[a][sorted[i + 1]]) < NeighborRank(linkCache[a][sorted[i]]))
    BY <2>2, <2>3 DEF NeighborBefore
  <2> QED
    BY <2>4, <2>5
<1> QED
  BY <1>4, <1>5, <1>8, <1>10, <1>11, <1>12 DEF Never

\* The rank at which a list of neighbours has a node.
RankIn(neighbors, n) == IF n \in DOMAIN neighbors THEN NeighborRank(neighbors[n]) ELSE Never

\* A list of neighbours.
ListsRanked(neighbors) == \A n \in DOMAIN neighbors : neighbors[n] \in Neighbors
SnrIn(neighbors, n) == n \in DOMAIN neighbors /\ neighbors[n].snr # NoSNR

LowerRank(a, b) == IF a <= b THEN a ELSE b

LEMMA RanksMerged ==
    ASSUME NEW current, NEW incoming, NEW merged, NEW n, ListsRanked(current), ListsRanked(incoming),
           merged = MergeNeighbors(current, incoming)
    PROVE  /\ DOMAIN merged = DOMAIN current \cup DOMAIN incoming
           /\ ListsRanked(merged)
           /\ SnrIn(merged, n) => SnrIn(current, n) \/ SnrIn(incoming, n)
           /\ RankIn(merged, n) \in 0..4
           /\ RankIn(current, n) \in 0..4 /\ RankIn(incoming, n) \in 0..4
           /\ RankIn(merged, n) = LowerRank(RankIn(current, n), RankIn(incoming, n))
<1>1. /\ \A m \in DOMAIN current : current[m] \in Neighbors
      /\ \A m \in DOMAIN incoming : incoming[m] \in Neighbors
  BY DEF ListsRanked
<1>2. /\ DOMAIN merged = DOMAIN current \cup DOMAIN incoming
      /\ \A m \in DOMAIN merged :
            merged[m] = IF m \notin DOMAIN incoming THEN current[m]
                        ELSE IF m \notin DOMAIN current THEN incoming[m]
                        ELSE ChooseBetterNeighbor(current[m], incoming[m])
  BY DEF MergeNeighbors
<1>3. ASSUME NEW m \in DOMAIN merged
      PROVE  /\ merged[m] \in Neighbors
             /\ merged[m].snr # NoSNR =>
                   \/ m \in DOMAIN current /\ current[m].snr # NoSNR
                   \/ m \in DOMAIN incoming /\ incoming[m].snr # NoSNR
  <2>1. CASE m \notin DOMAIN incoming \/ m \notin DOMAIN current
    BY <1>2, <1>1, <2>1
  <2>2. CASE m \in DOMAIN incoming /\ m \in DOMAIN current
    BY <1>2, <1>1, <2>2, BetterIsChosen
  <2> QED
    BY <2>1, <2>2
<1>4. /\ RankIn(merged, n) \in 0..4
      /\ RankIn(current, n) \in 0..4 /\ RankIn(incoming, n) \in 0..4
      /\ RankIn(merged, n) = IF RankIn(current, n) <= RankIn(incoming, n)
                             THEN RankIn(current, n) ELSE RankIn(incoming, n)
  <2>1. /\ n \in DOMAIN current => NeighborRank(current[n]) \in 0..3
        /\ n \in DOMAIN incoming => NeighborRank(incoming[n]) \in 0..3
    BY <1>1, RanksAre
  <2>2. CASE n \in DOMAIN incoming /\ n \in DOMAIN current
    <3>1. /\ n \in DOMAIN merged /\ merged[n] = ChooseBetterNeighbor(current[n], incoming[n])
          /\ current[n] \in Neighbors /\ incoming[n] \in Neighbors
      BY <1>2, <1>1, <2>2
    <3>2. NeighborRank(merged[n]) = IF NeighborRank(current[n]) <= NeighborRank(incoming[n])
                                    THEN NeighborRank(current[n]) ELSE NeighborRank(incoming[n])
      BY <3>1, BetterIsChosen
    <3> QED
      BY <2>1, <2>2, <3>1, <3>2 DEF RankIn
  <2>3. CASE ~(n \in DOMAIN incoming /\ n \in DOMAIN current)
    BY <1>2, <2>1, <2>3 DEF RankIn, Never
  <2> QED
    BY <2>2, <2>3
<1> QED
  <2>1. ListsRanked(merged)
    BY <1>3 DEF ListsRanked
  <2>2. SnrIn(merged, n) => SnrIn(current, n) \/ SnrIn(incoming, n)
    BY <1>3 DEF SnrIn
  <2> QED
    BY <1>2, <1>4, <2>1, <2>2 DEF LowerRank

LEMMA KnownByRank ==
    ASSUME LinksTyped, NEW a \in LinkNodes, NEW b \in LinkNodes
    PROVE  RankIn(linkCache[a], b) = Known(a, b) <=>
              /\ b \in DOMAIN linkCache[a] <=> Known(a, b) # Never
              /\ b \in DOMAIN linkCache[a] => NeighborRank(linkCache[a][b]) = Known(a, b)
<1>1. b \in DOMAIN linkCache[a] => NeighborRank(linkCache[a][b]) \in 0..3
  <2>1. b \in DOMAIN linkCache[a] => linkCache[a][b] \in Neighbors
    BY DEF LinksTyped
  <2> QED
    BY <2>1, RanksAre
<1> QED
  BY <1>1 DEF RankIn, Never

LEMMA LinksForgotten ==
    ASSUME linkCache' = [n \in LinkNodes |-> [m \in {} |-> m]],
           bestTold' = [n \in LinkNodes |-> [m \in LinkNodes |-> Never]]
    PROVE  LinksInv'
<1>1. \A n \in LinkNodes : DOMAIN linkCache'[n] = {}
  OBVIOUS
<1>2. LinksTyped'
  BY <1>1 DEF LinksTyped, Never
<1>3. \A a, b \in LinkNodes : Known(a, b)' = Never
  BY DEF Known, Reversed, Never
<1> QED
  BY <1>1, <1>2, <1>3 DEF LinksInv, BestIsKnown

LEMMA LinksStart == LinksInit => LinksInv
<1>1. SUFFICES ASSUME LinksInit PROVE LinksInv
  OBVIOUS
<1>2. \A n \in LinkNodes : DOMAIN linkCache[n] = {}
  BY <1>1 DEF LinksInit
<1>3. LinksTyped
  BY <1>1, <1>2 DEF LinksInit, LinksTyped, Never
<1>4. \A a, b \in LinkNodes : Known(a, b) = Never
  BY <1>1 DEF LinksInit, Known, Reversed, Never
<1> QED
  BY <1>2, <1>3, <1>4 DEF LinksInv, BestIsKnown

LEMMA LinksLearnt ==
    ASSUME LinksInv, NEW id \in LinkNodes, NEW others \in SUBSET (LinkNodes \ {id}),
           NEW neighbors \in [others -> Evidence], LearnLinks(id, neighbors)
    PROVE  LinksInv'
<1>1. /\ LinksTyped /\ BestIsKnown
      /\ linkCache' = UpsertNeighbors(id, neighbors)
      /\ \A n \in others : neighbors[n] \in Neighbors
      /\ DOMAIN neighbors = others /\ id \notin others
  BY LinksAssumption DEF LinksInv, LearnLinks, Neighbors
<1>2. PICK cache, told : cache = linkCache' /\ told = bestTold'
  OBVIOUS
<1>3. ASSUME NEW n \in LinkNodes
      PROVE  /\ bestTold[id][n] \in 0..4 /\ RankIn(neighbors, n) \in 0..4
             /\ n \in others => RankIn(neighbors, n) # Never
             /\ told[id][n] = IF bestTold[id][n] <= RankIn(neighbors, n)
                              THEN bestTold[id][n] ELSE RankIn(neighbors, n)
  <2>1. bestTold[id][n] \in 0..4 /\ bestTold[id][n] \in 0..Never
    BY <1>1 DEF LinksTyped, Never
  <2>2. n \in others => NeighborRank(neighbors[n]) \in 0..3
    BY <1>1, RanksAre
  <2>3. told[id][n] = BestRank({bestTold[id][n]} \cup
                               {NeighborRank(neighbors[m]) : m \in {n} \cap DOMAIN neighbors})
    BY <1>1, <1>2 DEF LearnLinks, LinksTyped
  <2>4. CASE n \in others
    <3>1. {bestTold[id][n]} \cup {NeighborRank(neighbors[m]) : m \in {n} \cap DOMAIN neighbors}
             = {bestTold[id][n], NeighborRank(neighbors[n])}
      BY <1>1, <2>4
    <3>2. NeighborRank(neighbors[n]) \in 0..Never
      BY <2>2, <2>4 DEF Never
    <3>3. /\ n \in DOMAIN neighbors /\ RankIn(neighbors, n) = NeighborRank(neighbors[n])
          /\ RankIn(neighbors, n) \in 0..4 /\ RankIn(neighbors, n) # Never
      BY <1>1, <2>2, <2>4 DEF RankIn, Never
    <3>4. BestRank({bestTold[id][n], NeighborRank(neighbors[n])}) =
             IF bestTold[id][n] <= NeighborRank(neighbors[n])
             THEN bestTold[id][n] ELSE NeighborRank(neighbors[n])
      BY <2>1, <3>2, SmallerRank
    <3> QED
      BY <2>1, <2>3, <3>1, <3>3, <3>4
  <2>5. CASE n \notin others
    <3>1. {bestTold[id][n]} \cup {NeighborRank(neighbors[m]) : m \in {n} \cap DOMAIN neighbors}
             = {bestTold[id][n]}
      BY <1>1, <2>5
    <3>2. RankIn(neighbors, n) = 4
      BY <1>1, <2>5 DEF RankIn, Never
    <3>3. BestRank({bestTold[id][n]}) = bestTold[id][n]
      BY <2>1, OneRank
    <3> QED
      BY <2>1, <2>3, <2>5, <3>1, <3>2, <3>3
  <2> QED
    BY <2>4, <2>5
<1>4. /\ \A a \in LinkNodes \ {id} : told[a] = bestTold[a]
      /\ told \in [LinkNodes -> [LinkNodes -> 0..Never]]
  <2>1. /\ told = [bestTold EXCEPT ![id] = told[id]]
        /\ DOMAIN told[id] = LinkNodes
        /\ told[id] = [n \in LinkNodes |-> told[id][n]]
    BY <1>1, <1>2 DEF LearnLinks, LinksTyped
  <2>2. \A n \in LinkNodes : told[id][n] \in 0..Never
    BY <1>3 DEF Never
  <2>3. told[id] \in [LinkNodes -> 0..Never]
    BY <2>1, <2>2
  <2> QED
    BY <1>1, <2>1, <2>3 DEF LinksTyped
<1>5. DOMAIN cache = LinkNodes
  BY <1>1, <1>2 DEF UpsertNeighbors
<1>6. cache[id] = MergeNeighbors(linkCache[id], neighbors)
  BY <1>1, <1>2 DEF UpsertNeighbors
<1>7. ASSUME NEW a \in others
      PROVE  cache[a] = MergeNeighbors(linkCache[a], [m \in {id} |-> MakeReverseNeighbor(neighbors[a])])
  BY <1>1, <1>2, <1>7 DEF UpsertNeighbors
<1>8. ASSUME NEW a \in LinkNodes \ {id}, a \notin others PROVE cache[a] = linkCache[a]
  BY <1>1, <1>2, <1>8 DEF UpsertNeighbors
<1>9. ASSUME NEW a \in LinkNodes, NEW b \in LinkNodes, a # b
      PROVE  /\ RankIn(linkCache[a], b) = Known(a, b)
             /\ b \in DOMAIN linkCache[a] /\ linkCache[a][b].snr # NoSNR => bestTold[a][b] # 4
             /\ bestTold[a][b] \in 0..4 /\ bestTold[b][a] \in 0..4
  <2>1. bestTold[a][b] \in 0..4 /\ bestTold[b][a] \in 0..4
    BY <1>1, <1>9 DEF LinksTyped, Never
  <2> QED
    BY <1>1, <1>9, <2>1, KnownByRank DEF BestIsKnown, Never
<1>10. ListsRanked(neighbors) /\ \A n \in LinkNodes : ListsRanked(linkCache[n])
  BY <1>1 DEF LinksTyped, ListsRanked
<1>11. ASSUME NEW b \in LinkNodes, b # id
       PROVE  /\ RankIn(cache[id], b) = IF told[id][b] <= Reversed(told[b][id])
                                        THEN told[id][b] ELSE Reversed(told[b][id])
              /\ b \in DOMAIN cache[id] /\ cache[id][b].snr # NoSNR => told[id][b] # 4
  <2>1. /\ RankIn(cache[id], b) = IF RankIn(linkCache[id], b) <= RankIn(neighbors, b)
                                  THEN RankIn(linkCache[id], b) ELSE RankIn(neighbors, b)
        /\ RankIn(linkCache[id], b) \in 0..4
        /\ SnrIn(cache[id], b) => SnrIn(linkCache[id], b) \/ SnrIn(neighbors, b)
    <3>1. PICK current, merged : current = linkCache[id] /\ merged = cache[id]
      OBVIOUS
    <3>2. ListsRanked(current) /\ ListsRanked(neighbors) /\ merged = MergeNeighbors(current, neighbors)
      BY <1>6, <1>10, <3>1
    <3>3. /\ SnrIn(merged, b) => SnrIn(current, b) \/ SnrIn(neighbors, b)
          /\ RankIn(current, b) \in 0..4
          /\ RankIn(merged, b) = LowerRank(RankIn(current, b), RankIn(neighbors, b))
      BY <3>2, RanksMerged, Zenon
    <3> QED
      BY <3>1, <3>3 DEF LowerRank
  <2>2. told[b] = bestTold[b]
    BY <1>4, <1>11
  <2> QED
    BY <1>1, <1>3, <1>9, <1>11, <2>1, <2>2 DEF Known, Reversed, Never, SnrIn
<1>12. ASSUME NEW a \in others
       PROVE  /\ DOMAIN cache[a] = DOMAIN linkCache[a] \cup {id}
              /\ ListsRanked(cache[a])
              /\ RankIn(cache[a], id) = IF told[a][id] <= Reversed(told[id][a])
                                        THEN told[a][id] ELSE Reversed(told[id][a])
              /\ cache[a][id].snr # NoSNR => told[a][id] # 4
              /\ \A b \in LinkNodes \ {id} : b \in DOMAIN cache[a] => cache[a][b] = linkCache[a][b]
  <2>1. PICK r : r = [m \in {id} |-> MakeReverseNeighbor(neighbors[a])]
    OBVIOUS
  <2>2. /\ a \in LinkNodes /\ a # id /\ neighbors[a] \in Neighbors
        /\ DOMAIN r = {id} /\ r[id] = MakeReverseNeighbor(neighbors[a])
    BY <1>1, <1>12, <2>1
  <2>3. /\ NeighborRank(neighbors[a]) \in 0..3
        /\ r[id] \in Neighbors /\ r[id].snr = NoSNR
        /\ RankIn(r, id) = Reversed(NeighborRank(neighbors[a]))
    BY <2>2, RanksAre DEF RankIn
  <2>4. ListsRanked(r) /\ ListsRanked(linkCache[a])
    BY <1>10, <2>2, <2>3 DEF ListsRanked
  <2>5. cache[a] = MergeNeighbors(linkCache[a], r)
    BY <1>7, <2>1
  <2>6. /\ DOMAIN cache[a] = DOMAIN linkCache[a] \cup {id}
        /\ ListsRanked(cache[a])
        /\ SnrIn(cache[a], id) => SnrIn(linkCache[a], id) \/ SnrIn(r, id)
        /\ RankIn(linkCache[a], id) \in 0..4
        /\ RankIn(cache[a], id) = IF RankIn(linkCache[a], id) <= RankIn(r, id)
                                  THEN RankIn(linkCache[a], id) ELSE RankIn(r, id)
    <3>1. PICK current, merged : current = linkCache[a] /\ merged = cache[a]
      OBVIOUS
    <3>2. ListsRanked(current) /\ ListsRanked(r) /\ merged = MergeNeighbors(current, r)
      BY <2>4, <2>5, <3>1
    <3>3. /\ DOMAIN merged = DOMAIN current \cup DOMAIN r
          /\ ListsRanked(merged)
          /\ SnrIn(merged, id) => SnrIn(current, id) \/ SnrIn(r, id)
          /\ RankIn(current, id) \in 0..4
          /\ RankIn(merged, id) = LowerRank(RankIn(current, id), RankIn(r, id))
      BY <3>2, RanksMerged, Zenon
    <3> QED
      BY <2>2, <3>1, <3>3 DEF LowerRank
  <2>7. \A b \in LinkNodes \ {id} : b \in DOMAIN cache[a] => cache[a][b] = linkCache[a][b]
    BY <2>2, <2>5, <2>6 DEF MergeNeighbors
  <2>8. /\ RankIn(neighbors, a) = NeighborRank(neighbors[a])
        /\ told[id][a] = IF bestTold[id][a] <= RankIn(neighbors, a)
                         THEN bestTold[id][a] ELSE RankIn(neighbors, a)
        /\ told[a] = bestTold[a]
    BY <1>1, <1>3, <1>4, <2>2 DEF RankIn
  <2>9. /\ RankIn(linkCache[a], id) = Known(a, id)
        /\ id \in DOMAIN linkCache[a] /\ linkCache[a][id].snr # NoSNR => bestTold[a][id] # 4
        /\ bestTold[a][id] \in 0..4 /\ bestTold[id][a] \in 0..4
    BY <1>9, <2>2
  <2> QED
    BY <2>2, <2>3, <2>6, <2>7, <2>8, <2>9 DEF Known, Reversed, SnrIn
<1>13. ASSUME NEW a \in LinkNodes, NEW b \in LinkNodes, a # b
       PROVE  /\ RankIn(cache[a], b) = IF told[a][b] <= Reversed(told[b][a])
                                       THEN told[a][b] ELSE Reversed(told[b][a])
              /\ b \in DOMAIN cache[a] /\ cache[a][b].snr # NoSNR => told[a][b] # 4
  <2>1. CASE a = id
    BY <1>11, <1>13, <2>1
  <2>2. CASE a # id /\ b = id /\ a \in others
    BY <1>12, <2>2
  <2>3. CASE a # id /\ b = id /\ a \notin others
    <3>1. cache[a] = linkCache[a] /\ told[a] = bestTold[a]
      BY <1>4, <1>8, <2>3
    <3>2. RankIn(neighbors, a) = 4 /\ bestTold[id][a] \in 0..4
      BY <1>1, <1>9, <2>3 DEF RankIn, Never
    <3>3. told[id][a] = bestTold[id][a]
      BY <1>3, <3>2
    <3> QED
      BY <1>9, <2>3, <3>1, <3>3 DEF Known
  <2>4. CASE a # id /\ b # id
    <3>1. told[a] = bestTold[a] /\ told[b] = bestTold[b]
      BY <1>4, <2>4
    <3>2. /\ b \in DOMAIN cache[a] <=> b \in DOMAIN linkCache[a]
          /\ b \in DOMAIN cache[a] => cache[a][b] = linkCache[a][b]
      BY <1>8, <1>12, <2>4
    <3>3. RankIn(cache[a], b) = RankIn(linkCache[a], b)
      BY <3>2 DEF RankIn
    <3> QED
      BY <1>9, <1>13, <3>1, <3>2, <3>3 DEF Known
  <2> QED
    BY <2>1, <2>2, <2>3, <2>4
<1>14. ASSUME NEW a \in LinkNodes
       PROVE  /\ DOMAIN cache[a] \subseteq LinkNodes
              /\ \A b \in DOMAIN cache[a] : cache[a][b] \in Neighbors
  <2>1. DOMAIN linkCache[a] \subseteq LinkNodes /\ \A n \in DOMAIN linkCache[a] : linkCache[a][n] \in Neighbors
    BY <1>1 DEF LinksTyped
  <2>2. CASE a = id
    <3>1. DOMAIN cache[id] = DOMAIN linkCache[id] \cup others /\ ListsRanked(cache[id])
      <4>1. PICK current, merged : current = linkCache[id] /\ merged = cache[id]
        OBVIOUS
      <4>2. ListsRanked(current) /\ ListsRanked(neighbors) /\ merged = MergeNeighbors(current, neighbors)
        BY <1>6, <1>10, <4>1
      <4>3. DOMAIN merged = DOMAIN current \cup DOMAIN neighbors /\ ListsRanked(merged)
        BY <4>2, RanksMerged, Zenon
      <4> QED
        BY <1>1, <4>1, <4>3
    <3> QED
      BY <2>1, <2>2, <3>1 DEF ListsRanked
  <2>3. CASE a \in others
    BY <1>12, <2>1, <2>3 DEF ListsRanked
  <2>4. CASE a # id /\ a \notin others
    BY <1>8, <2>1, <2>4
  <2> QED
    BY <2>2, <2>3, <2>4
<1>15. LinksTyped'
  BY <1>2, <1>4, <1>5, <1>14 DEF LinksTyped
<1>16. \A a, b \in LinkNodes :
          Known(a, b)' = IF told[a][b] <= Reversed(told[b][a]) THEN told[a][b] ELSE Reversed(told[b][a])
  BY <1>2 DEF Known, Reversed
<1>17. ASSUME NEW a \in LinkNodes, NEW b \in LinkNodes, a # b
       PROVE  /\ b \in DOMAIN cache[a] <=> Known(a, b)' # Never
              /\ b \in DOMAIN cache[a] =>
                    /\ NeighborRank(cache[a][b]) = Known(a, b)'
                    /\ cache[a][b].snr # NoSNR => told[a][b] # Never
  <2>1. RankIn(cache[a], b) = Known(a, b)'
    BY <1>13, <1>16, <1>17
  <2>2. b \in DOMAIN cache[a] => NeighborRank(cache[a][b]) \in 0..3
    BY <1>14, RanksAre
  <2> QED
    BY <1>13, <1>17, <2>1, <2>2 DEF RankIn, Never
<1> QED
  BY <1>2, <1>15, <1>17 DEF LinksInv, BestIsKnown

LEMMA LinksGoOn == LinksInv /\ [LinksNext]_linkVars => LinksInv'
<1>1. SUFFICES ASSUME LinksInv, [LinksNext]_linkVars PROVE LinksInv'
  OBVIOUS
<1>2. CASE UNCHANGED linkVars
  BY <1>1, <1>2 DEF linkVars, LinksInv, LinksTyped, BestIsKnown, Known, Neighbors
<1>3. CASE ForgetLinks
  BY <1>3, LinksForgotten DEF ForgetLinks
<1> QED
  BY <1>1, <1>2, <1>3, LinksLearnt DEF LinksNext

\* Both ends of a link know it by the best evidence that either end ever told, whatever the
\* order of the answers, and draw it alike (nodeDetailsCache.ts, topology.ts, leafletMap.ts).
THEOREM BothEndsAgree == LinksSpec => []LinksAgree
<1>1. LinksSpec => []LinksInv
  BY LinksStart, LinksGoOn, PTL DEF LinksSpec
<1> QED
  BY <1>1, LinksTold, PTL

----------------------------------------------------------------------------
(* The names of a node.  What is held in the list, on the map or in the    *)
(* history was read from the server, and the server never takes a name     *)
(* back: a list from before names the node as now, or names it less.       *)

Longs == LongNames \cup {NoName}
Shorts == ShortNames \cup {NoName}
Pairs == [long : Longs, short : Shorts]
Changes == [from : Pairs, to : Pairs, at : ChangeTimes]

NamesTyped ==
    /\ stored \in Pairs \cup {NotHeld}
    /\ nameHistory \in Seq(Changes)
    /\ nodesFilter \in FilterTexts \cup {NoName}
    /\ missedName \in BOOLEAN
    /\ mapEntry \in [long : Longs, short : Shorts, whole : BOOLEAN] \cup {NotHeld}
    /\ summary = NotHeld \/ /\ summary.long \in Longs /\ summary.short \in Shorts
                            /\ summary.display = DisplayName(summary)

\* What is held anywhere was read from the server, and a name that was given stays given.
HeldIsStored ==
    /\ nameHistory # <<>> \/ summary # NotHeld \/ mapEntry # NotHeld => stored # NotHeld
    /\ summary # NotHeld => /\ summary.long # NoName => stored.long # NoName
                            /\ summary.short # NoName => stored.short # NoName

NamesInv == NamesTyped /\ HeldIsStored /\ HistoryLinked /\ MapNamesRight

LEMMA PairsAre ==
    /\ NotHeld \notin Pairs /\ Nameless \in Pairs
    /\ \A p \in Pairs : Names(p) = p /\ p.long \in Longs /\ p.short \in Shorts
    /\ \A p, q \in Pairs : p = q <=> p.long = q.long /\ p.short = q.short
    /\ \A p, q \in Pairs :
          /\ Merged(p, q) \in Pairs
          /\ Merged(p, q).long = OrCurrent(p.long, q.long)
          /\ Merged(p, q).short = OrCurrent(p.short, q.short)
    /\ \A p \in Pairs : Merged(Nameless, p) = p
<1>1. NotHeld \notin Pairs
  BY DEF NotHeld, Pairs
<1>2. Nameless \in Pairs
  BY DEF Nameless, Pairs, Longs, Shorts
<1>3. \A p \in Pairs : Names(p) = p /\ p.long \in Longs /\ p.short \in Shorts
  BY DEF Pairs, Names
<1>4. \A p, q \in Pairs : p = q <=> p.long = q.long /\ p.short = q.short
  BY DEF Pairs
<1>5. ASSUME NEW p \in Pairs, NEW q \in Pairs
      PROVE  /\ Merged(p, q) \in Pairs
             /\ Merged(p, q).long = OrCurrent(p.long, q.long)
             /\ Merged(p, q).short = OrCurrent(p.short, q.short)
  BY DEF Pairs, Merged, OrCurrent
<1>6. ASSUME NEW p \in Pairs PROVE Merged(Nameless, p) = p
  BY DEF Pairs, Merged, OrCurrent, Nameless
<1> QED
  BY <1>1, <1>2, <1>3, <1>4, <1>5, <1>6

\* A list that was read before names the node as the server does, or names it less.
LEMMA LabelLagsOnly == NamesInv => LabelLags
<1>1. SUFFICES ASSUME NamesInv, stored # NotHeld,
                      ~(details # NotHeld /\ Names(details) # Names(stored)),
                      ~(mapEntry # NotHeld /\ (missedName \/ ~mapEntry.whole)),
                      ~(mapEntry = NotHeld /\ (summary = NotHeld \/ Names(summary) # Names(stored)))
               PROVE  ResolvedLabel(NodeId) = DisplayName(stored)
  BY DEF LabelLags
<1>2. \A of : Names(of) = Names(stored) => of.long = stored.long /\ of.short = stored.short
  BY DEF Names
<1>3. PICK best : best = BestNodeLabel(stored)
  OBVIOUS
<1>4. best = OrCurrent(stored.long, stored.short)
  BY <1>1, <1>3 DEF BestNodeLabel
<1>5. DisplayName(stored) = OrCurrent(best, NodeId)
  BY <1>4 DEF DisplayName, OrCurrent
<1>6. BestNodeLabel(details) \in {NoName, best} /\ (details # NotHeld => BestNodeLabel(details) = best)
  BY <1>1, <1>2, <1>4 DEF BestNodeLabel
<1>7. mapEntry # NotHeld => BestNodeLabel(mapEntry) = best
  <2>1. ASSUME mapEntry # NotHeld
        PROVE  mapEntry.long = stored.long /\ mapEntry.short = stored.short
    BY <1>1, <2>1 DEF NamesInv, MapNamesRight
  <2> QED
    BY <1>4, <2>1 DEF BestNodeLabel
<1>8. mapEntry = NotHeld => BestNodeLabel(mapEntry) = NoName
  BY DEF BestNodeLabel
<1>9. PICK listed : listed = IF summary = NotHeld THEN NoName
                             ELSE OrCurrent(BestNodeLabel(summary), summary.display)
  OBVIOUS
<1>10. ResolvedLabel(NodeId) =
          OrCurrent(BestNodeLabel(details), OrCurrent(BestNodeLabel(mapEntry), OrCurrent(listed, NodeId)))
  BY <1>9 DEF ResolvedLabel, OrCurrent
<1>11. summary # NotHeld =>
          /\ BestNodeLabel(summary) = OrCurrent(summary.long, summary.short)
          /\ summary.display = OrCurrent(OrCurrent(summary.long, summary.short), NodeId)
  BY <1>1 DEF NamesInv, NamesTyped, DisplayName, BestNodeLabel, OrCurrent
<1>12. summary # NotHeld => listed = OrCurrent(OrCurrent(summary.long, summary.short), NodeId)
  BY <1>9, <1>11 DEF OrCurrent
<1>13. best = NoName => OrCurrent(listed, NodeId) = NodeId
  <2>1. CASE summary = NotHeld
    BY <1>9, <2>1 DEF OrCurrent
  <2>2. CASE summary # NotHeld /\ best = NoName
    <3>1. stored.long = NoName /\ stored.short = NoName
      BY <1>4, <2>2 DEF OrCurrent
    <3>2. summary.long = NoName /\ summary.short = NoName
      BY <1>1, <2>2, <3>1 DEF NamesInv, HeldIsStored
    <3> QED
      BY <1>12, <2>2, <3>2 DEF OrCurrent
  <2> QED
    BY <2>1, <2>2
<1>14. mapEntry = NotHeld => OrCurrent(listed, NodeId) = OrCurrent(best, NodeId)
  BY <1>1, <1>2, <1>4, <1>12 DEF OrCurrent
<1> QED
  BY <1>5, <1>6, <1>7, <1>8, <1>10, <1>13, <1>14 DEF OrCurrent

LEMMA ListedIsFound == NamesInv => FoundByName
<1>1. SUFFICES ASSUME NamesInv, summary # NotHeld, nodesFilter = summary.display
               PROVE  MatchesFilter(summary, nodesFilter)
  BY DEF FoundByName, FilteredItems
<1>2. /\ summary.long \in Longs /\ summary.short \in Shorts
      /\ nodesFilter = OrCurrent(summary.long, OrCurrent(summary.short, NodeId))
      /\ nodesFilter \in FilterTexts \cup {NoName}
  BY <1>1 DEF NamesInv, NamesTyped, DisplayName
<1>3. nodesFilter \in {NodeId, summary.long, summary.short}
  BY <1>2 DEF OrCurrent
<1>4. nodesFilter # NoName => nodesFilter \in {NodeId} \cup LongNames \cup ShortNames
  BY <1>2, <1>3 DEF Longs, Shorts
<1>5. nodesFilter # NoName => nodesFilter \in Containing[nodesFilter]
  BY <1>2, <1>4, NamesAssumption
<1> QED
  BY <1>3, <1>5 DEF MatchesFilter

LEMMA NamesStart == NamesInit => NamesInv
<1>1. SUFFICES ASSUME NamesInit PROVE NamesInv
  OBVIOUS
<1>2. nameHistory \in Seq(Changes) /\ Len(nameHistory) = 0 /\ DOMAIN nameHistory = {}
  <2>1. nameHistory = <<>>
    BY <1>1 DEF NamesInit
  <2>2. <<>> \in Seq(Changes) /\ Len(<<>>) = 0 /\ DOMAIN <<>> = {}
    BY EmptySeq
  <2> QED
    BY <2>1, <2>2
<1>3. HistoryLinked
  BY <1>1, <1>2 DEF HistoryLinked, NamesInit
<1> QED
  BY <1>1, <1>2, <1>3 DEF NamesInit, NamesInv, NamesTyped, HeldIsStored, MapNamesRight

\* A row of the history goes from the names there were to those there are.
LEMMA HistoryGoesOn ==
    ASSUME NEW given \in Pairs, NEW at \in ChangeTimes, NEW next \in Pairs,
           stored \in Pairs \cup {NotHeld}, nameHistory \in Seq(Changes), HistoryLinked,
           nameHistory # <<>> => stored # NotHeld,
           next = (IF stored = NotHeld THEN given ELSE Merged(given, stored)),
           stored' = next, nameHistory' = HistoryWith(given, at)
    PROVE  nameHistory' \in Seq(Changes) /\ HistoryLinked'
<1>1. PICK rows : rows = nameHistory'
  OBVIOUS
<1>2. Names(next) = next
  BY PairsAre
<1>3. CASE stored # NotHeld /\ next # Names(stored)
  <2>1. /\ stored \in Pairs /\ Names(stored) = stored /\ next = Merged(given, stored)
    BY <1>3, PairsAre
  <2>2. PICK row : row = [from |-> stored, to |-> next, at |-> at]
    OBVIOUS
  <2>3. /\ row \in Changes /\ row.from = stored /\ row.to = next
        /\ rows = Append(nameHistory, row)
    BY <1>1, <1>3, <2>1, <2>2 DEF HistoryWith, Changes
  <2>4. /\ rows \in Seq(Changes) /\ Len(rows) = Len(nameHistory) + 1
        /\ rows[Len(nameHistory) + 1] = row
        /\ \A i \in 1..Len(nameHistory) : rows[i] = nameHistory[i]
        /\ Len(nameHistory) \in Nat /\ DOMAIN nameHistory = 1..Len(nameHistory)
        /\ DOMAIN rows = 1..Len(rows)
    BY <2>3, AppendProperties, LenProperties
  <2>5. \A i \in DOMAIN rows : rows[i].from # rows[i].to
    BY <1>3, <2>1, <2>3, <2>4 DEF HistoryLinked
  <2>6. Len(nameHistory) > 0 => nameHistory[Len(nameHistory)].to = stored
    <3>1. Len(nameHistory) > 0 => nameHistory # <<>>
      BY EmptySeq
    <3> QED
      BY <2>1, <3>1 DEF HistoryLinked, Last
  <2>7. \A i \in 2..Len(rows) : rows[i].from = rows[i - 1].to
    <3>1. ASSUME NEW i \in 2..Len(rows) PROVE rows[i].from = rows[i - 1].to
      <4>1. CASE i = Len(nameHistory) + 1
        <5>1. /\ i - 1 = Len(nameHistory) /\ Len(nameHistory) > 0
              /\ Len(nameHistory) \in 1..Len(nameHistory)
          BY <2>4, <3>1, <4>1
        <5>2. rows[i] = row /\ rows[i - 1] = nameHistory[Len(nameHistory)]
          BY <2>4, <4>1, <5>1
        <5> QED
          BY <2>3, <2>6, <5>1, <5>2
      <4>2. CASE i # Len(nameHistory) + 1
        <5>1. i \in 2..Len(nameHistory) /\ i - 1 \in 1..Len(nameHistory) /\ i \in 1..Len(nameHistory)
          BY <2>4, <3>1, <4>2
        <5> QED
          BY <2>4, <5>1 DEF HistoryLinked
      <4> QED
        BY <4>1, <4>2
    <3> QED
      BY <3>1
  <2>8. Last(rows).to = next
    BY <2>3, <2>4 DEF Last
  <2> QED
    BY <1>1, <1>2, <2>4, <2>5, <2>7, <2>8 DEF HistoryLinked, Names
<1>4. CASE ~(stored # NotHeld /\ next # Names(stored))
  <2>1. nameHistory' = nameHistory
    BY <1>4 DEF HistoryWith
  <2>2. nameHistory # <<>> => Names(next) = Names(stored)
    BY <1>2, <1>4
  <2> QED
    BY <2>1, <2>2 DEF HistoryLinked, Names
<1> QED
  BY <1>3, <1>4

\* The entry of the map after node.upsert, if it comes, and what was missed if it does not.
LEMMA EntryGoesOn ==
    ASSUME NamesInv, NEW given \in Pairs, NEW at \in ChangeTimes, NEW emitted \in BOOLEAN,
           UpsertNames(given, at, emitted)
    PROVE  /\ mapEntry' \in [long : Longs, short : Shorts, whole : BOOLEAN] \cup {NotHeld}
           /\ MapNamesRight'
<1>1. PICK next, entry, missed : next = stored' /\ entry = mapEntry' /\ missed = missedName'
  OBVIOUS
<1>2. /\ stored \in Pairs \cup {NotHeld}
      /\ mapEntry \in [long : Longs, short : Shorts, whole : BOOLEAN] \cup {NotHeld}
      /\ missedName \in BOOLEAN /\ MapNamesRight
      /\ mapEntry # NotHeld => stored # NotHeld
  BY DEF NamesInv, NamesTyped, HeldIsStored
<1>3. /\ next = IF stored = NotHeld THEN given ELSE Merged(given, stored)
      /\ next \in Pairs
      /\ emitted \/ given = Nameless
      /\ entry = IF socket = "up" /\ emitted THEN UpsertEntry(given) ELSE mapEntry
      /\ missed = (mapEntry # NotHeld /\ (missedName \/ (socket # "up" /\ stored # next)))
  BY <1>1, <1>2, PairsAre DEF UpsertNames
<1>4. next.long \in Longs /\ next.short \in Shorts /\ given.long \in Longs /\ given.short \in Shorts
  BY <1>3, PairsAre
<1>5. stored # NotHeld => /\ next.long = OrCurrent(given.long, stored.long)
                          /\ next.short = OrCurrent(given.short, stored.short)
  BY <1>2, <1>3, PairsAre
<1>6. \A a, b : a \in Longs /\ b \in Longs => OrCurrent(a, b) \in Longs
  BY DEF OrCurrent
<1>7. \A a, b : a \in Shorts /\ b \in Shorts => OrCurrent(a, b) \in Shorts
  BY DEF OrCurrent
<1>8. SUFFICES
        /\ entry \in [long : Longs, short : Shorts, whole : BOOLEAN] \cup {NotHeld}
        /\ entry # NotHeld /\ ~missed =>
              /\ entry.long = next.long \/ (~entry.whole /\ entry.long = NoName)
              /\ entry.short = next.short \/ (~entry.whole /\ entry.short = NoName)
  BY <1>1 DEF MapNamesRight
<1>9. mapEntry # NotHeld /\ ~missedName =>
         /\ mapEntry.long = stored.long \/ (~mapEntry.whole /\ mapEntry.long = NoName)
         /\ mapEntry.short = stored.short \/ (~mapEntry.whole /\ mapEntry.short = NoName)
  BY <1>2 DEF MapNamesRight
<1>10. CASE socket = "up" /\ emitted /\ mapEntry = NotHeld
  <2>1. entry = [long |-> given.long, short |-> given.short, whole |-> FALSE]
    BY <1>3, <1>10 DEF UpsertEntry
  <2>2. next.long = given.long \/ given.long = NoName
    BY <1>3, <1>5 DEF OrCurrent
  <2>3. next.short = given.short \/ given.short = NoName
    BY <1>3, <1>5 DEF OrCurrent
  <2> QED
    BY <1>4, <2>1, <2>2, <2>3
<1>11. CASE socket = "up" /\ emitted /\ mapEntry # NotHeld
  <2>1. entry = [long |-> OrCurrent(given.long, mapEntry.long),
                 short |-> OrCurrent(given.short, mapEntry.short), whole |-> mapEntry.whole]
    BY <1>3, <1>11 DEF UpsertEntry, Merged
  <2>2. mapEntry.long \in Longs /\ mapEntry.short \in Shorts /\ mapEntry.whole \in BOOLEAN
    BY <1>2, <1>11
  <2>3. entry \in [long : Longs, short : Shorts, whole : BOOLEAN]
    BY <1>4, <1>6, <1>7, <2>1, <2>2
  <2>4. missed = missedName /\ stored # NotHeld
    BY <1>2, <1>3, <1>11
  <2> QED
    BY <1>5, <1>9, <1>11, <2>1, <2>3, <2>4 DEF OrCurrent
<1>12. CASE ~(socket = "up" /\ emitted)
  <2>1. entry = mapEntry
    BY <1>3, <1>12
  <2>2. ASSUME entry # NotHeld, ~missed PROVE ~missedName /\ next = stored
    <3>1. ~missedName /\ (socket = "up" \/ stored = next)
      BY <1>3, <2>1, <2>2
    <3>2. socket = "up" => given = Nameless
      BY <1>3, <1>12
    <3>3. given = Nameless => next = stored
      BY <1>2, <1>3, <2>1, <2>2, PairsAre
    <3> QED
      BY <3>1, <3>2, <3>3
  <2> QED
    BY <1>2, <1>9, <2>1, <2>2
<1> QED
  BY <1>10, <1>11, <1>12

LEMMA NamesUpserted ==
    ASSUME NamesInv, NEW given \in Pairs, NEW at \in ChangeTimes, NEW emitted \in BOOLEAN,
           UpsertNames(given, at, emitted)
    PROVE  NamesInv'
<1>1. PICK next : next = stored'
  OBVIOUS
<1>2. /\ stored \in Pairs \cup {NotHeld} /\ nameHistory \in Seq(Changes) /\ HistoryLinked
      /\ nameHistory # <<>> => stored # NotHeld
      /\ NamesTyped /\ HeldIsStored
  BY DEF NamesInv, NamesTyped, HeldIsStored
<1>3. /\ next = IF stored = NotHeld THEN given ELSE Merged(given, stored)
      /\ next \in Pairs /\ next # NotHeld
      /\ nameHistory' = HistoryWith(given, at)
      /\ UNCHANGED <<summary, details, socket, nodesFilter>>
  BY <1>1, <1>2, PairsAre DEF UpsertNames
<1>4. nameHistory' \in Seq(Changes) /\ HistoryLinked'
  BY <1>1, <1>2, <1>3, HistoryGoesOn
<1>5. /\ mapEntry' \in [long : Longs, short : Shorts, whole : BOOLEAN] \cup {NotHeld}
      /\ MapNamesRight'
  BY EntryGoesOn
<1>6. missedName' \in BOOLEAN
  BY DEF UpsertNames
<1>7. NamesTyped'
  BY <1>1, <1>2, <1>3, <1>4, <1>5, <1>6 DEF NamesTyped, DisplayName
<1>8. summary # NotHeld => /\ summary.long # NoName => next.long # NoName
                           /\ summary.short # NoName => next.short # NoName
  <2>1. stored # NotHeld => /\ next.long = OrCurrent(given.long, stored.long)
                            /\ next.short = OrCurrent(given.short, stored.short)
    BY <1>2, <1>3, PairsAre
  <2> QED
    BY <1>2, <2>1 DEF HeldIsStored, OrCurrent
<1>9. HeldIsStored'
  BY <1>1, <1>3, <1>8 DEF HeldIsStored
<1> QED
  BY <1>4, <1>5, <1>7, <1>9 DEF NamesInv

LEMMA NamesGoOn == NamesInv /\ [NamesNext]_nameVars => NamesInv'
<1>1. SUFFICES ASSUME NamesInv, [NamesNext]_nameVars PROVE NamesInv'
  OBVIOUS
<1>2. NamesTyped /\ HeldIsStored /\ HistoryLinked /\ MapNamesRight
  BY <1>1 DEF NamesInv
<1>3. CASE UNCHANGED <<stored, nameHistory, summary, mapEntry, missedName>> /\ nodesFilter' \in FilterTexts \cup {NoName}
  <2>1. NamesTyped'
    BY <1>2, <1>3 DEF NamesTyped, DisplayName
  <2>2. HeldIsStored' /\ HistoryLinked' /\ MapNamesRight'
    BY <1>2, <1>3 DEF HeldIsStored, HistoryLinked, MapNamesRight
  <2> QED
    BY <2>1, <2>2 DEF NamesInv
<1>4. nodesFilter \in FilterTexts \cup {NoName}
  BY <1>2 DEF NamesTyped
<1>5. CASE UNCHANGED nameVars
  BY <1>3, <1>4, <1>5 DEF nameVars
<1>6. ASSUME NEW long \in LongNames \cup {NoName}, NEW short \in ShortNames \cup {NoName},
             NEW at \in ChangeTimes, NEW emitted \in BOOLEAN,
             UpsertNames([long |-> long, short |-> short], at, emitted)
      PROVE  NamesInv'
  <2>1. PICK given : given = [long |-> long, short |-> short]
    OBVIOUS
  <2>2. given \in Pairs
    BY <1>6, <2>1 DEF Pairs, Longs, Shorts
  <2> QED
    BY <1>1, <1>6, <2>1, <2>2, NamesUpserted
<1>7. \* Only the entry of the map and what it missed.
      ASSUME UNCHANGED <<stored, nameHistory, summary, nodesFilter>>,
             mapEntry' \in [long : Longs, short : Shorts, whole : BOOLEAN] \cup {NotHeld},
             mapEntry' # NotHeld => stored # NotHeld,
             missedName' \in BOOLEAN,
             MapNamesRight'
      PROVE  NamesInv'
  <2>1. NamesTyped'
    BY <1>2, <1>7 DEF NamesTyped, DisplayName
  <2>2. HeldIsStored' /\ HistoryLinked'
    BY <1>2, <1>7 DEF HeldIsStored, HistoryLinked
  <2> QED
    BY <1>7, <2>1, <2>2 DEF NamesInv
<1>8. stored # NotHeld => stored.long \in Longs /\ stored.short \in Shorts
  BY <1>2, PairsAre DEF NamesTyped
<1>9. ASSUME NEW located \in BOOLEAN, LoadMap(located) PROVE NamesInv'
  <2>1. /\ UNCHANGED <<stored, nameHistory, summary, nodesFilter, missedName>>
        /\ mapEntry' = IF located /\ stored # NotHeld
                       THEN [long |-> stored.long, short |-> stored.short, whole |-> TRUE] ELSE NotHeld
    BY <1>9 DEF LoadMap
  <2>2. mapEntry' \in [long : Longs, short : Shorts, whole : BOOLEAN] \cup {NotHeld}
    BY <1>8, <2>1
  <2>3. mapEntry' # NotHeld => stored # NotHeld
    BY <2>1
  <2>4. MapNamesRight'
    BY <2>1 DEF MapNamesRight
  <2> QED
    BY <1>2, <1>7, <2>1, <2>2, <2>3, <2>4 DEF NamesTyped
<1>10. CASE UpsertStub
  <2>1. /\ UNCHANGED <<stored, nameHistory, summary, nodesFilter, missedName>> /\ stored # NotHeld
        /\ mapEntry' = [long |-> NoName, short |-> NoName, whole |-> FALSE]
    BY <1>10 DEF UpsertStub
  <2>2. mapEntry' \in [long : Longs, short : Shorts, whole : BOOLEAN]
    BY <2>1 DEF Longs, Shorts
  <2>3. MapNamesRight'
    BY <2>1 DEF MapNamesRight
  <2> QED
    BY <1>2, <1>7, <2>1, <2>2, <2>3 DEF NamesTyped
<1>11. CASE PruneEntry
  BY <1>7, <1>11 DEF PruneEntry, MapNamesRight
<1>12. CASE LoadSummary
  <2>1. /\ UNCHANGED <<stored, nameHistory, mapEntry, nodesFilter, missedName>> /\ stored # NotHeld
        /\ summary' = [long |-> stored.long, short |-> stored.short, display |-> DisplayName(stored)]
    BY <1>12 DEF LoadSummary
  <2>2. PICK listed : listed = summary'
    OBVIOUS
  <2>3. listed.long = stored.long /\ listed.short = stored.short /\ listed.display = DisplayName(listed)
    BY <2>1, <2>2 DEF DisplayName
  <2>4. NamesTyped'
    BY <1>2, <1>8, <2>1, <2>2, <2>3 DEF NamesTyped, DisplayName
  <2>5. HeldIsStored' /\ HistoryLinked' /\ MapNamesRight'
    BY <1>2, <2>1, <2>2, <2>3 DEF HeldIsStored, HistoryLinked, MapNamesRight
  <2> QED
    BY <2>4, <2>5 DEF NamesInv
<1>13. CASE ConnectOrDrop \/ CloseDetails
  BY <1>3, <1>4, <1>13 DEF ConnectOrDrop, CloseDetails
<1>14. ASSUME NEW fields \in FieldSets, GetNodeDetails(fields) PROVE NamesInv'
  BY <1>3, <1>4, <1>14 DEF GetNodeDetails
<1>15. ASSUME NEW text \in FilterTexts, OnFilter(text) PROVE NamesInv'
  BY <1>3, <1>15 DEF OnFilter
<1> QED
  BY <1>1, <1>5, <1>6, <1>9, <1>10, <1>11, <1>12, <1>13, <1>14, <1>15 DEF NamesNext

Stamped(rows, n) == n \in Nat /\ DOMAIN rows = 1..n /\ \A i \in 1..n : rows[i].at \in Nat

\* Each row has its place, and comes after the later ones.
Placed(rows, n, place) ==
    /\ place \in [1..n -> 1..n]
    /\ \A m \in 1..n : ByTime(rows)[m] = rows[place[m]]
    /\ \A i \in 1..n : \E m \in 1..n : place[m] = i
    /\ \A m \in 1..n : Cardinality(LaterRows(rows, place[m])) = m - 1

LEMMA RowsHavePlaces == ASSUME NEW n, NEW rows, Stamped(rows, n) PROVE \E place : Placed(rows, n, place)
<1> n \in Nat /\ DOMAIN rows = 1..n /\ \A i \in 1..n : rows[i].at \in Nat
  BY DEF Stamped
<1>0. IsFiniteSet(1..n) /\ Cardinality(1..n) = n
  BY FS_Interval
<1>1. PICK later : later = [i \in 1..n |-> LaterRows(rows, i)]
  OBVIOUS
<1>2. \A i, j \in 1..n : j \in later[i] <=> rows[j].at > rows[i].at \/ (rows[j].at = rows[i].at /\ j > i)
  BY <1>1 DEF LaterRows
<1>3. \A i \in 1..n : later[i] = LaterRows(rows, i) /\ later[i] \subseteq 1..n \ {i}
  BY <1>1, <1>2 DEF LaterRows
<1>4. ASSUME NEW i \in 1..n
      PROVE  IsFiniteSet(later[i]) /\ Cardinality(later[i]) \in Nat /\ Cardinality(later[i]) <= n - 1
  <2>2. IsFiniteSet((1..n) \ {i}) /\ Cardinality((1..n) \ {i}) = n - 1
    BY <1>0, FS_RemoveElement
  <2>3. later[i] \in SUBSET ((1..n) \ {i})
    BY <1>3
  <2> QED
    BY <2>2, <2>3, FS_Subset, FS_CardinalityType
<1>5. ASSUME NEW i \in 1..n, NEW j \in 1..n, j \in later[i]
      PROVE  Cardinality(later[j]) < Cardinality(later[i])
  <2>1. later[j] \in SUBSET later[i]
    <3>1. ASSUME NEW k \in later[j] PROVE k \in later[i]
      <4>1. k \in 1..n
        BY <1>3
      <4>2. rows[i].at \in Nat /\ rows[j].at \in Nat /\ rows[k].at \in Nat
        BY <4>1
      <4>3. rows[j].at > rows[i].at \/ (rows[j].at = rows[i].at /\ j > i)
        BY <1>2, <1>5
      <4>4. rows[k].at > rows[j].at \/ (rows[k].at = rows[j].at /\ k > j)
        BY <1>2, <3>1, <4>1
      <4>5. rows[k].at > rows[i].at \/ (rows[k].at = rows[i].at /\ k > i)
        BY <4>1, <4>2, <4>3, <4>4
      <4> QED
        BY <1>2, <4>1, <4>5
    <3> QED
      BY <3>1
  <2>2. j \notin later[j]
    BY <1>3
  <2>3. /\ Cardinality(later[j]) <= Cardinality(later[i])
        /\ Cardinality(later[j]) # Cardinality(later[i])
    BY <1>4, <1>5, <2>1, <2>2, FS_Subset
  <2> QED
    BY <1>4, <2>3
<1>6. \A i, j \in 1..n : i # j => Cardinality(later[i]) # Cardinality(later[j])
  <2>1. ASSUME NEW i \in 1..n, NEW j \in 1..n, i # j PROVE j \in later[i] \/ i \in later[j]
    BY <1>2, <2>1
  <2> QED
    BY <1>4, <1>5, <2>1
<1>7. PICK rank : rank = [i \in 1..n |-> Cardinality(later[i]) + 1]
  OBVIOUS
<1>8. rank \in [1..n -> 1..n] /\ \A i, j \in 1..n : rank[i] = rank[j] => i = j
  BY <1>4, <1>6, <1>7
<1>9. \A m \in 1..n : \E i \in 1..n : rank[i] = m
  <2>1. rank \in Injection(1..n, 1..n)
    BY <1>8, Fun_IsInj
  <2>2. rank \in Surjection(1..n, 1..n)
    BY <1>0, <2>1, FS_Injection
  <2> QED
    BY <2>2, Zenon DEF Surjection
<1>10. PICK place : place = [m \in 1..n |-> CHOOSE i \in 1..n : Cardinality(LaterRows(rows, i)) = m - 1]
  OBVIOUS
<1>11. ASSUME NEW m \in 1..n
       PROVE  place[m] \in 1..n /\ Cardinality(LaterRows(rows, place[m])) = m - 1
  <2>1. PICK i \in 1..n : rank[i] = m
    BY <1>9
  <2>2. Cardinality(LaterRows(rows, i)) = m - 1
    <3>1. rank[i] = Cardinality(later[i]) + 1 /\ Cardinality(later[i]) \in Nat
      BY <1>4, <1>7
    <3>2. later[i] = LaterRows(rows, i)
      BY <1>3
    <3> QED
      BY <2>1, <3>1, <3>2
  <2>3. place[m] = CHOOSE k \in 1..n : Cardinality(LaterRows(rows, k)) = m - 1
    BY <1>10
  <2> QED
    BY <2>2, <2>3
<1>12. ASSUME NEW i \in 1..n PROVE \E m \in 1..n : place[m] = i
  <2>1. rank[i] \in 1..n /\ rank[i] = Cardinality(later[i]) + 1
    BY <1>7, <1>8
  <2>2. place[rank[i]] \in 1..n /\ Cardinality(later[place[rank[i]]]) = rank[i] - 1
    BY <1>3, <1>11, <2>1
  <2> QED
    BY <1>4, <1>6, <2>1, <2>2
<1>13. \A m \in 1..n : ByTime(rows)[m] = rows[place[m]]
  BY <1>10 DEF ByTime
<1>14. place \in [1..n -> 1..n]
  BY <1>10, <1>11
<1>15. \A m \in 1..n : Cardinality(LaterRows(rows, place[m])) = m - 1
  BY <1>11
<1>16. \A i \in 1..n : \E m \in 1..n : place[m] = i
  BY <1>12
<1> QED
  BY <1>13, <1>14, <1>15, <1>16, Zenon DEF Placed

\* The history in the order of its changes has the same rows, and times that fall.
LEMMA HistoryByTime ==
    ASSUME NEW n, NEW rows, Stamped(rows, n)
    PROVE  /\ DOMAIN ByTime(rows) = 1..n
           /\ Range(ByTime(rows)) = Range(rows)
           /\ \A m \in 2..n : ByTime(rows)[m].at <= ByTime(rows)[m - 1].at
<1> n \in Nat /\ DOMAIN rows = 1..n /\ \A i \in 1..n : rows[i].at \in Nat
  BY DEF Stamped
<1>0. PICK place : Placed(rows, n, place)
  BY RowsHavePlaces, Zenon
<1>1. /\ place \in [1..n -> 1..n]
      /\ \A m \in 1..n : ByTime(rows)[m] = rows[place[m]]
      /\ \A i \in 1..n : \E m \in 1..n : place[m] = i
      /\ \A m \in 1..n : Cardinality(LaterRows(rows, place[m])) = m - 1
  BY <1>0 DEF Placed
<1>2. DOMAIN ByTime(rows) = 1..n
  BY DEF ByTime
<1>3. PICK told : told = ByTime(rows)
  OBVIOUS
<1>4. Range(told) = Range(rows)
  <2>1. Range(told) = {told[m] : m \in 1..n} /\ Range(rows) = {rows[i] : i \in 1..n}
    BY <1>2, <1>3 DEF Range
  <2>2. \A m \in 1..n : told[m] = rows[place[m]] /\ place[m] \in 1..n
    BY <1>1, <1>3
  <2>3. ASSUME NEW m \in 1..n PROVE \E i \in 1..n : told[m] = rows[i]
    BY <2>2
  <2>4. ASSUME NEW i \in 1..n PROVE \E m \in 1..n : rows[i] = told[m]
    <3>1. PICK m \in 1..n : place[m] = i
      BY <1>1
    <3> QED
      BY <2>2, <3>1
  <2> QED
    BY <2>1, <2>3, <2>4
<1>5. ASSUME NEW m \in 2..n PROVE told[m].at <= told[m - 1].at
  <2>1. PICK a, b : a = place[m - 1] /\ b = place[m]
    OBVIOUS
  <2>2. m - 1 \in 1..n /\ m \in 1..n
    OBVIOUS
  <2>3. /\ a \in 1..n /\ b \in 1..n
        /\ told[m - 1] = rows[a] /\ told[m] = rows[b]
        /\ Cardinality(LaterRows(rows, a)) = m - 2 /\ Cardinality(LaterRows(rows, b)) = m - 1
    BY <1>1, <1>3, <2>1, <2>2
  <2>4. rows[a].at \in Nat /\ rows[b].at \in Nat
    BY <2>3
  <2>5. ASSUME rows[b].at > rows[a].at PROVE FALSE
    <3>1. ASSUME NEW k \in LaterRows(rows, b) PROVE k \in LaterRows(rows, a)
      <4>1. k \in 1..n /\ (rows[k].at > rows[b].at \/ rows[k].at = rows[b].at)
        BY <3>1 DEF LaterRows
      <4>2. rows[k].at \in Nat
        BY <4>1
      <4>3. rows[k].at > rows[a].at
        BY <2>4, <2>5, <4>1, <4>2
      <4> QED
        BY <4>1, <4>3 DEF LaterRows
    <3>2. IsFiniteSet(LaterRows(rows, a))
      <4>1. LaterRows(rows, a) \in SUBSET (1..n) /\ IsFiniteSet(1..n)
        BY FS_Interval DEF LaterRows
      <4> QED
        BY <4>1, FS_Subset
    <3>3. Cardinality(LaterRows(rows, b)) <= Cardinality(LaterRows(rows, a))
      <4>1. LaterRows(rows, b) \in SUBSET LaterRows(rows, a)
        BY <3>1
      <4> QED
        BY <3>2, <4>1, FS_Subset
    <3> QED
      BY <2>3, <3>3
  <2>6. rows[b].at <= rows[a].at
    BY <2>4, <2>5
  <2> QED
    BY <2>3, <2>6
<1> QED
  BY <1>2, <1>3, <1>4, <1>5

\* Every name the node ever had is in its history or is its name now.
BorneKnown ==
    borne = {item.from : item \in Range(nameHistory)} \cup (IF stored = NotHeld THEN {} ELSE {stored})

\* What FormerNamesTold says of details that are held.
FormerTold(d) ==
    /\ d.borne \ {Nameless} =
          (({item.from : item \in Range(d.previous)} \ {Nameless}) \cup {Names(d)}) \ {Nameless}
    /\ \A i \in 2..Len(d.previous) : d.previous[i].at <= d.previous[i - 1].at

DetailsInv == details # NotHeld => details.fields \in FieldSets /\ FormerTold(details)

ToldInv == NamesInv /\ BorneKnown /\ DetailsInv

\* What is read of the history as it is.
LEMMA DetailsRead ==
    ASSUME NamesInv, BorneKnown, NEW fields \in FieldSets, GetNodeDetails(fields)
    PROVE  DetailsInv'
<1>1. PICK d, previous : d = details' /\ previous = ByTime(nameHistory)
  OBVIOUS
<1>2. /\ stored \in Pairs /\ nameHistory \in Seq(Changes)
      /\ d = [long |-> stored.long, short |-> stored.short, fields |-> fields,
              previous |-> previous, borne |-> borne]
  BY <1>1 DEF GetNodeDetails, NamesInv, NamesTyped
<1>3. /\ d.fields = fields /\ d.previous = previous /\ d.borne = borne
      /\ d.long = stored.long /\ d.short = stored.short
  BY <1>2
<1>4. Names(d) = stored
  BY <1>2, <1>3, PairsAre DEF Names, Pairs
<1>5. PICK n : n = Len(nameHistory)
  OBVIOUS
<1>6. Stamped(nameHistory, n) /\ \A i \in 1..n : nameHistory[i] \in Changes
  <2>1. n \in Nat /\ DOMAIN nameHistory = 1..n /\ \A i \in 1..n : nameHistory[i] \in Changes
    BY <1>2, <1>5, LenProperties, ElementOfSeq
  <2>2. \A row \in Changes : row.at \in Nat
    BY NamesAssumption DEF Changes
  <2> QED
    BY <2>1, <2>2 DEF Stamped
<1>7. /\ DOMAIN previous = 1..n /\ Range(previous) = Range(nameHistory)
      /\ \A m \in 2..n : previous[m].at <= previous[m - 1].at
  BY <1>1, <1>6, HistoryByTime, Zenon
<1>8. Len(previous) = n
  <2>1. n \in Nat
    BY <1>6 DEF Stamped
  <2>2. previous = [m \in 1..n |-> previous[m]]
    BY <1>1, <1>7 DEF ByTime
  <2>3. \A m \in 1..n : previous[m] \in Range(previous)
    BY <1>7 DEF Range
  <2>4. previous \in [1..n -> Range(previous)]
    BY <2>2, <2>3
  <2>5. previous \in Seq(Range(previous))
    BY <2>1, <2>4, SeqDef
  <2>6. Len(previous) \in Nat /\ DOMAIN previous = 1..Len(previous)
    BY <2>5, LenProperties
  <2> QED
    BY <1>7, <2>1, <2>6
<1>9. stored # NotHeld
  BY <1>2, PairsAre
<1>10. borne = {item.from : item \in Range(previous)} \cup {stored}
  BY <1>7, <1>9 DEF BorneKnown
<1>11. FormerTold(d)
  BY <1>3, <1>4, <1>7, <1>8, <1>10 DEF FormerTold
<1> QED
  BY <1>1, <1>3, <1>11 DEF DetailsInv

LEMMA BorneGoesOn ==
    ASSUME NamesInv, BorneKnown, NEW given \in Pairs, NEW at \in ChangeTimes, NEW emitted \in BOOLEAN,
           UpsertNames(given, at, emitted)
    PROVE  BorneKnown'
<1>1. PICK next, rows : next = stored' /\ rows = nameHistory'
  OBVIOUS
<1>2. /\ stored \in Pairs \cup {NotHeld} /\ nameHistory \in Seq(Changes)
      /\ nameHistory # <<>> => stored # NotHeld
  BY DEF NamesInv, NamesTyped, HeldIsStored
<1>3. /\ next = IF stored = NotHeld THEN given ELSE Merged(given, stored)
      /\ rows = HistoryWith(given, at) /\ borne' = borne \cup {next}
      /\ next \in Pairs
  BY <1>1, <1>2, PairsAre DEF UpsertNames
<1>4. next # NotHeld
  BY <1>3, PairsAre
<1>5. CASE stored # NotHeld /\ next # Names(stored)
  <2>1. stored \in Pairs /\ Names(stored) = stored /\ next = Merged(given, stored)
    BY <1>2, <1>3, <1>5, PairsAre
  <2>2. PICK row : row = [from |-> stored, to |-> next, at |-> at]
    OBVIOUS
  <2>3. row \in Changes /\ row.from = stored /\ rows = Append(nameHistory, row)
    BY <1>3, <1>5, <2>1, <2>2 DEF HistoryWith, Changes
  <2>4. Range(rows) = Range(nameHistory) \cup {row}
    <3>1. /\ rows \in Seq(Changes) /\ Len(rows) = Len(nameHistory) + 1
          /\ rows[Len(nameHistory) + 1] = row
          /\ \A i \in 1..Len(nameHistory) : rows[i] = nameHistory[i]
          /\ Len(nameHistory) \in Nat /\ DOMAIN nameHistory = 1..Len(nameHistory)
          /\ DOMAIN rows = 1..Len(rows)
      BY <1>2, <2>3, AppendProperties, LenProperties
    <3>2. DOMAIN rows = DOMAIN nameHistory \cup {Len(nameHistory) + 1}
      BY <3>1
    <3> QED
      BY <3>1, <3>2 DEF Range
  <2>5. {item.from : item \in Range(rows)} = {item.from : item \in Range(nameHistory)} \cup {stored}
    BY <2>3, <2>4
  <2> QED
    BY <1>1, <1>3, <1>4, <1>5, <2>5 DEF BorneKnown
<1>6. CASE stored = NotHeld
  <2>1. nameHistory = <<>> /\ rows = nameHistory
    BY <1>2, <1>3, <1>6 DEF HistoryWith
  <2>2. borne = {item.from : item \in Range(nameHistory)}
    BY <1>6 DEF BorneKnown
  <2> QED
    BY <1>1, <1>3, <1>4, <2>1, <2>2 DEF BorneKnown
<1>7. CASE stored # NotHeld /\ next = Names(stored)
  <2>1. next = stored /\ rows = nameHistory
    BY <1>2, <1>3, <1>7, PairsAre DEF HistoryWith
  <2>2. borne = {item.from : item \in Range(nameHistory)} \cup {stored}
    BY <1>7 DEF BorneKnown
  <2> QED
    BY <1>1, <1>3, <1>4, <2>1, <2>2 DEF BorneKnown
<1> QED
  BY <1>5, <1>6, <1>7

LEMMA ToldStart == NamesInit => ToldInv
<1>1. SUFFICES ASSUME NamesInit PROVE BorneKnown /\ DetailsInv
  BY NamesStart DEF ToldInv
<1>2. nameHistory = <<>> /\ stored = NotHeld /\ borne = {} /\ details = NotHeld
  BY <1>1 DEF NamesInit
<1>3. Range(nameHistory) = {}
  BY <1>2 DEF Range
<1> QED
  BY <1>2, <1>3 DEF BorneKnown, DetailsInv

LEMMA ToldGoesOn == ToldInv /\ [NamesNext]_nameVars => ToldInv'
<1>1. SUFFICES ASSUME ToldInv, [NamesNext]_nameVars PROVE BorneKnown' /\ DetailsInv'
  BY NamesGoOn DEF ToldInv
<1>2. NamesInv /\ BorneKnown /\ DetailsInv
  BY <1>1 DEF ToldInv
<1>3. ASSUME UNCHANGED <<stored, nameHistory, borne>> PROVE BorneKnown'
  BY <1>2, <1>3 DEF BorneKnown
<1>4. ASSUME UNCHANGED details PROVE DetailsInv'
  BY <1>2, <1>4 DEF DetailsInv
<1>5. CASE UNCHANGED nameVars
  BY <1>3, <1>4, <1>5 DEF nameVars
<1>6. ASSUME NEW long \in LongNames \cup {NoName}, NEW short \in ShortNames \cup {NoName},
             NEW at \in ChangeTimes, NEW emitted \in BOOLEAN,
             UpsertNames([long |-> long, short |-> short], at, emitted)
      PROVE  BorneKnown' /\ DetailsInv'
  <2>1. PICK given : given = [long |-> long, short |-> short]
    OBVIOUS
  <2>2. given \in Pairs
    BY <2>1 DEF Pairs, Longs, Shorts
  <2>3. UNCHANGED details
    BY <1>6 DEF UpsertNames
  <2> QED
    BY <1>2, <1>4, <1>6, <2>1, <2>2, <2>3, BorneGoesOn
<1>7. ASSUME NEW located \in BOOLEAN, LoadMap(located) PROVE BorneKnown' /\ DetailsInv'
  BY <1>3, <1>4, <1>7 DEF LoadMap
<1>8. CASE ConnectOrDrop \/ UpsertStub \/ PruneEntry \/ LoadSummary
  BY <1>3, <1>4, <1>8 DEF ConnectOrDrop, UpsertStub, PruneEntry, LoadSummary
<1>9. CASE CloseDetails
  BY <1>3, <1>9 DEF CloseDetails, DetailsInv
<1>10. ASSUME NEW fields \in FieldSets, GetNodeDetails(fields) PROVE BorneKnown' /\ DetailsInv'
  BY <1>2, <1>3, <1>10, DetailsRead DEF GetNodeDetails
<1>11. ASSUME NEW text \in FilterTexts, OnFilter(text) PROVE BorneKnown' /\ DetailsInv'
  BY <1>3, <1>4, <1>11 DEF OnFilter
<1> QED
  BY <1>1, <1>5, <1>6, <1>7, <1>8, <1>9, <1>10, <1>11 DEF NamesNext

Titles == {"Identity", "LastSeen", "Radio", "Position", "Telemetry", "Source"}

\* Each field has its section.
LEMMA SectionsAre ==
    /\ DOMAIN SectionFields = Titles
    /\ \A a, b \in Titles : a # b => SectionFields[a] \cap SectionFields[b] = {}
    /\ "power" \in SectionFields["Telemetry"]
    /\ "latitude" \in SectionFields["Position"]
<1>1. DOMAIN SectionFields = Titles
  BY DEF SectionFields, Titles
<1>2. \A f \in SectionFields["Identity"] : f \notin SectionFields["LastSeen"] /\ f \notin SectionFields["Radio"]
  BY DEF SectionFields
<1>3. \A f \in SectionFields["Identity"] : f \notin SectionFields["Position"] /\ f \notin SectionFields["Telemetry"]
  BY DEF SectionFields
<1>4. \A f \in SectionFields["Identity"] : f \notin SectionFields["Source"]
  BY DEF SectionFields
<1>5. \A f \in SectionFields["LastSeen"] : f \notin SectionFields["Radio"] /\ f \notin SectionFields["Position"]
  BY DEF SectionFields
<1>6. \A f \in SectionFields["LastSeen"] : f \notin SectionFields["Telemetry"] /\ f \notin SectionFields["Source"]
  BY DEF SectionFields
<1>7. \A f \in SectionFields["Radio"] : f \notin SectionFields["Position"] /\ f \notin SectionFields["Telemetry"]
  BY DEF SectionFields
<1>8. \A f \in SectionFields["Radio"] : f \notin SectionFields["Source"]
  BY DEF SectionFields
<1>9. \A f \in SectionFields["Position"] : f \notin SectionFields["Telemetry"] /\ f \notin SectionFields["Source"]
  BY DEF SectionFields
<1>10. \A f \in SectionFields["Telemetry"] : f \notin SectionFields["Source"]
  BY DEF SectionFields
<1>11. "power" \in SectionFields["Telemetry"] /\ "latitude" \in SectionFields["Position"]
  BY DEF SectionFields
<1>12. ASSUME NEW a \in Titles, NEW b \in Titles, a # b, NEW f \in SectionFields[a]
      PROVE  f \notin SectionFields[b]
  BY <1>2, <1>3, <1>4, <1>5, <1>6, <1>7, <1>8, <1>9, <1>10,
     <1>12 DEF Titles
<1> QED
  BY <1>1, <1>11, <1>12

\* What is known is told in the section of its field.
LEMMA FieldsAreTold == DetailsInv => FieldsTold
<1>1. SUFFICES ASSUME DetailsInv, details # NotHeld PROVE FieldsTold
  BY DEF FieldsTold
<1>2. details.fields \subseteq NodeFields
  BY <1>1, FieldsAssumption DEF DetailsInv
<1>3. DetailSections = {title \in Titles : RowsOf(title) # {}}
  BY SectionsAre DEF DetailSections
<1>4. ASSUME NEW field \in details.fields \ {"precision", "position updated"}
      PROVE  LET told == IF field \in {"voltage", "level"} THEN "power" ELSE field
             IN  Cardinality({title \in DetailSections : told \in RowsOf(title)}) = 1
  <2>1. PICK told : told = IF field \in {"voltage", "level"} THEN "power" ELSE field
    OBVIOUS
  <2>2. PICK title \in Titles : told \in SectionFields[title]
    <3>1. CASE field \in {"voltage", "level"}
      BY <2>1, <3>1, SectionsAre DEF Titles
    <3>2. CASE field \notin {"voltage", "level"}
      <4>1. field \in UNION {SectionFields[t] : t \in Titles}
        BY <1>2, <1>4, <3>2, SectionsAre DEF NodeFields, RowFields
      <4> QED
        BY <2>1, <3>2, <4>1
    <3> QED
      BY <3>1, <3>2
  <2>3. HasValue(told)
    <3>1. CASE field \in {"voltage", "level"}
      <4>1. told = "power" /\ field \in details.fields \cap {"voltage", "level"}
        BY <1>4, <2>1, <3>1
      <4>2. (details.fields \cap {"voltage", "level"} # {}) = TRUE
        BY <4>1
      <4> QED
        BY <4>1, <4>2 DEF HasValue
    <3>2. CASE field \notin {"voltage", "level"}
      <4>1. told = field /\ told \in details.fields /\ told \in NodeFields
        BY <1>2, <1>4, <2>1, <3>2
      <4>2. told \notin {"id", "long", "short", "power"}
        BY <4>1 DEF NodeFields
      <4>3. (told \in details.fields) = TRUE
        BY <4>1
      <4> QED
        BY <4>1, <4>2, <4>3 DEF HasValue
    <3> QED
      BY <3>1, <3>2
  <2>4. told \in RowsOf(title) /\ title \in DetailSections
    BY <1>3, <2>2, <2>3 DEF RowsOf
  <2>5. ASSUME NEW other \in DetailSections, told \in RowsOf(other) PROVE other = title
    <3>1. other \in Titles /\ told \in SectionFields[other]
      BY <1>3, <2>5 DEF RowsOf
    <3> QED
      BY <2>2, <3>1, SectionsAre
  <2>6. {t \in DetailSections : told \in RowsOf(t)} = {title}
    BY <2>4, <2>5
  <2>7. Cardinality({title}) = 1
    BY FS_Singleton
  <2> QED
    BY <2>1, <2>6, <2>7
<1>5. OpensMap <=> "latitude" \in details.fields
  <2>1. ASSUME "latitude" \in details.fields PROVE "Position" \in DetailSections
    <3>1. HasValue("latitude")
      <4>1. ("latitude" \in details.fields) = TRUE
        BY <2>1
      <4> QED
        BY <4>1 DEF HasValue
    <3>2. "latitude" \in RowsOf("Position")
      BY <3>1, SectionsAre DEF RowsOf
    <3> QED
      BY <1>3, <3>2 DEF Titles
  <2> QED
    BY <2>1 DEF OpensMap
<1> QED
  BY <1>4, <1>5 DEF FieldsTold

LEMMA FormerNamesAreTold == DetailsInv => FormerNamesTold
BY DEF DetailsInv, FormerNamesTold, FormerTold, PreviousNames

\* The names and fields of a node, whatever names it is given and in whatever order they come:
\* the history goes from one name to the next up to the present one, and the details tell all
\* of them in the order of their changes; the map has the server's names, what the page calls
\* the node lags only for the reasons LabelLags lists, it is found by the name it is listed
\* under, and each thing known of it is told in one section (nodes.go, nodeState.ts,
\* ResolvedNodeData.tsx, NodesPage.tsx).
THEOREM NamesAreTold == NamesSpec => []NamesTell
<1>1. NamesSpec => []ToldInv
  <2>1. NamesInit => ToldInv
    BY ToldStart
  <2> QED
    BY <2>1, ToldGoesOn, PTL DEF NamesSpec
<1>2. ToldInv => NamesTell
  BY LabelLagsOnly, ListedIsFound, FormerNamesAreTold, FieldsAreTold DEF ToldInv, NamesInv, NamesTell
<1> QED
  BY <1>1, <1>2, PTL

----------------------------------------------------------------------------
(* The filters of the log.  The range of hops is always one that           *)
(* NormalizeLogHopRange leaves alone, and the hops of the badge are then   *)
(* compared as the label says.                                             *)

HopRanges == {r \in [min : 0..7, max : 0..7] : r.min <= r.max}
FormInv == "hopRange" \in DOMAIN logForm /\ logForm.hopRange \in HopRanges

LEMMA RangeIsNormal ==
    /\ \A range : range.min \in Int /\ range.max \in Int => NormalizeLogHopRange(range) \in HopRanges
    /\ \A range \in HopRanges : NormalizeLogHopRange(range) = range
<1>1. ASSUME NEW v \in Int
      PROVE  ClampHopValue(v) \in 0..7 /\ (v \in 0..7 => ClampHopValue(v) = v)
  BY DEF ClampHopValue, LogHopsMin, LogHopsMax
<1>2. ASSUME NEW range, range.min \in Int, range.max \in Int
      PROVE  NormalizeLogHopRange(range) \in HopRanges
  <2>1. PICK a \in 0..7 : a = ClampHopValue(range.min)
    BY <1>1, <1>2
  <2>2. PICK b \in 0..7 : b = ClampHopValue(range.max)
    BY <1>1, <1>2
  <2>3. NormalizeLogHopRange(range) = IF a > b THEN [min |-> b, max |-> a] ELSE [min |-> a, max |-> b]
    BY <2>1, <2>2 DEF NormalizeLogHopRange
  <2> QED
    BY <2>3 DEF HopRanges
<1>3. ASSUME NEW range \in HopRanges
      PROVE  NormalizeLogHopRange(range) = range
  <2>1. range \in [min : 0..7, max : 0..7] /\ range.min <= range.max
    BY DEF HopRanges
  <2>2. ClampHopValue(range.min) = range.min /\ ClampHopValue(range.max) = range.max
    BY <1>1, <2>1
  <2>3. NormalizeLogHopRange(range) = [min |-> range.min, max |-> range.max]
    BY <2>1, <2>2 DEF NormalizeLogHopRange
  <2> QED
    BY <2>1, <2>3
<1> QED
  BY <1>2, <1>3

LEMMA SlidersStop ==
    ASSUME NEW range \in HopRanges, NEW value \in Int
    PROVE  ChangeHopMin(range, value) \in HopRanges /\ ChangeHopMax(range, value) \in HopRanges
<1>1. range \in [min : 0..7, max : 0..7]
  BY DEF HopRanges
<1> DEFINE low == [range EXCEPT !.min = IF value < range.max THEN value ELSE range.max]
           high == [range EXCEPT !.max = IF value > range.min THEN value ELSE range.min]
<1>2. low.min \in Int /\ low.max \in Int /\ high.min \in Int /\ high.max \in Int
  BY <1>1
<1>3. ChangeHopMin(range, value) = NormalizeLogHopRange(low)
      /\ ChangeHopMax(range, value) = NormalizeLogHopRange(high)
  BY DEF ChangeHopMin, ChangeHopMax
<1> QED
  BY <1>2, <1>3, RangeIsNormal

LEMMA BadgeIs ==
    ASSUME NEW row, row.hopStart \in NoHop..LogHopsMax, row.hopLimit \in NoHop..LogHopsMax
    PROVE  /\ GetHopsBadge(row).traversed \in NoHop..LogHopsMax
           /\ SelfUpload(row) => GetHopsBadge(row).traversed = NoHop
           /\ ~SelfUpload(row) =>
                 GetHopsBadge(row).traversed = ClassifyHops(row.hopStart, row.hopLimit).traversed
<1>1. ASSUME NEW a, NEW b PROVE [traversed |-> a, quality |-> b].traversed = a
  OBVIOUS
<1>2. ASSUME NEW start \in NoHop..LogHopsMax, NEW limit \in NoHop..LogHopsMax
      PROVE  ClassifyHops(start, limit).traversed \in NoHop..LogHopsMax
  <2>1. ClassifyHops(start, limit).traversed \in {NoHop, 0} \/
        (~(start <= 0) /\ ~(limit < 0) /\ ~(start <= limit)
         /\ ClassifyHops(start, limit).traversed = start - limit)
    BY <1>1, Zenon DEF ClassifyHops
  <2> QED
    BY <2>1 DEF NoHop, LogHopsMax
<1>3. SelfUpload(row) => GetHopsBadge(row).traversed = NoHop
  BY <1>1, Zenon DEF GetHopsBadge
<1>4. ~SelfUpload(row) => GetHopsBadge(row) = ClassifyHops(row.hopStart, row.hopLimit)
  BY Zenon DEF GetHopsBadge
<1>5. NoHop \in NoHop..LogHopsMax
  BY DEF NoHop, LogHopsMax
<1> QED
  BY <1>2, <1>3, <1>4, <1>5, Zenon

LEMMA FormBegins == FormInit => FormInv
BY DEF FormInit, FormInv, DefaultForm, DefaultLogHopRange, HopRanges, LogHopsMin, LogHopsMax

LEMMA FormGoesOn == FormInv /\ [FormNext]_formVars => FormInv'
<1> SUFFICES ASSUME FormInv, [FormNext]_formVars PROVE FormInv'
  OBVIOUS
<1>1. SliderValues \subseteq Int
  BY LogPageAssumption
<1>2. NormalizeLogHopRange(logForm.hopRange) \in HopRanges
  BY RangeIsNormal DEF FormInv
<1>3. ASSUME NEW kind, ToggleEventKind(kind) PROVE FormInv'
  <2>1. PICK kinds : logForm' = [logForm EXCEPT !.kinds = kinds]
    BY <1>3, Zenon DEF ToggleEventKind
  <2> QED
    BY <2>1 DEF FormInv
<1>4. ASSUME NEW value \in SliderValues, MoveSlider(value) PROVE FormInv'
  <2>1. PICK range \in HopRanges : logForm' = [logForm EXCEPT !.hopRange = range]
    <3>1. value \in Int
      BY <1>1
    <3> QED
      BY <1>2, <1>4, <3>1, SlidersStop, Zenon DEF MoveSlider
  <2> QED
    BY <2>1 DEF FormInv
<1>5. CASE TypeFilter
  <2>1. PICK text : logForm' = [logForm EXCEPT !.text = text]
    BY <1>5, Zenon DEF TypeFilter
  <2> QED
    BY <2>1 DEF FormInv
<1>6. CASE ResetFilters
  BY <1>6, FormBegins DEF ResetFilters, FormInv, DefaultForm, DefaultLogHopRange, HopRanges, LogHopsMin, LogHopsMax
<1>7. ASSUME NEW kinds, NEW min \in SliderValues, NEW max \in SliderValues, FollowLogAddress(kinds, min, max)
      PROVE  FormInv'
  <2>1. [min |-> min, max |-> max].min \in Int /\ [min |-> min, max |-> max].max \in Int
    BY <1>1
  <2>2. PICK range \in HopRanges : range = NormalizeLogHopRange([min |-> min, max |-> max])
    BY <2>1, RangeIsNormal
  <2>3. logForm' = [kinds |-> kinds, hopRange |-> range, text |-> FALSE]
    BY <1>7, <2>2, Zenon DEF FollowLogAddress
  <2> QED
    BY <2>3 DEF FormInv
<1>8. CASE UNCHANGED formVars
  BY <1>8 DEF formVars, FormInv
<1> QED
  BY <1>3, <1>4, <1>5, <1>6, <1>7, <1>8, Zenon DEF FormNext

LEMMA LabelIsKept == FormInv => HopsTell
<1> SUFFICES ASSUME FormInv PROVE HopsTell
  OBVIOUS
<1>1. PICK range \in HopRanges : range = logForm.hopRange
  BY DEF FormInv
<1>2. range \in [min : 0..7, max : 0..7] /\ range.min <= range.max
  BY DEF HopRanges
<1>3. NormalizeLogHopRange(range) = range
  BY RangeIsNormal
<1>4. ASSUME NEW start \in NoHop..LogHopsMax, NEW limit \in NoHop..LogHopsMax, NEW uploader
      PROVE  PassesAsTold([node |-> "n1", uploader |-> uploader, hopStart |-> start, hopLimit |-> limit],
                          range)
  <2> DEFINE row == [node |-> "n1", uploader |-> uploader, hopStart |-> start, hopLimit |-> limit]
  <2>1. row.hopStart = start /\ row.hopLimit = limit
    OBVIOUS
  <2>2. /\ GetHopsBadge(row).traversed \in -1..7
        /\ SelfUpload(row) => GetHopsBadge(row).traversed = -1
        /\ ~SelfUpload(row) => GetHopsBadge(row).traversed = ClassifyHops(start, limit).traversed
    BY <2>1, BadgeIs DEF NoHop, LogHopsMax
  <2> SUFFICES PassesAsTold(row, range)
    OBVIOUS
  <2> HIDE DEF row
  <2>3. PICK badge \in -1..7 : badge = GetHopsBadge(row).traversed
    BY <2>2
  <2>4. EventMatchesLogHopRange(row, range) <=>
            IsDefaultLogHopRange(range) \/ (badge # -1 /\ range.min <= badge /\ badge <= range.max)
    BY <2>1, <2>2, <2>3 DEF EventMatchesLogHopRange, NoHop
  <2>5. PICK label : label = LogHopRangeLabel(range)
    OBVIOUS
  <2>6. /\ label = "all" <=> IsDefaultLogHopRange(range)
        /\ label \in {"all", "at least", "exactly", "between"}
        /\ label = "at least" => range.max = 7
        /\ label = "exactly" => range.min = range.max
    BY <2>5 DEF LogHopRangeLabel, LogHopsMax
  <2>7. PICK lo \in 0..7, hi \in 0..7 : lo = range.min /\ hi = range.max
    BY <1>2
  <2>8. lo <= hi
    BY <1>2, <2>7
  <2>9. CASE label = "all"
    BY <2>3, <2>4, <2>5, <2>6, <2>9 DEF PassesAsTold
  <2>10. CASE label = "at least"
    <3>1. ~IsDefaultLogHopRange(range) /\ hi = 7
      BY <2>6, <2>7, <2>10
    <3>2. EventMatchesLogHopRange(row, range) <=> badge >= lo
      BY <2>4, <2>7, <3>1
    <3> QED
      BY <2>3, <2>5, <2>7, <2>10, <3>2 DEF PassesAsTold
  <2>11. CASE label = "exactly"
    BY <2>3, <2>4, <2>5, <2>6, <2>7, <2>8, <2>11 DEF PassesAsTold
  <2>12. CASE label = "between"
    BY <2>3, <2>4, <2>5, <2>6, <2>7, <2>8, <2>12 DEF PassesAsTold
  <2> QED
    BY <2>6, <2>9, <2>10, <2>11, <2>12
<1> QED
  BY <1>1, <1>3, <1>4, Zenon DEF HopsTell

\* The range of hops is in order whatever sliders were moved and whatever an address had, and
\* an event passes just when the hops of its badge are what the label of the filter promises.
THEOREM HopsAreTold == FormSpec => []HopsTell
<1>1. FormInit => FormInv
  BY FormBegins
<1>2. FormInv /\ [FormNext]_formVars => FormInv'
  BY FormGoesOn
<1>3. FormInv => HopsTell
  BY LabelIsKept
<1> QED
  BY <1>1, <1>2, <1>3, PTL DEF FormSpec

----------------------------------------------------------------------------
(* The details of an event.  That every field is in a view is by how the   *)
(* views share the fields, whatever an event has; that nothing blank is a  *)
(* link is by what the server writes, so the rows have its events only.    *)

EventRows == [id : Nat, event : ServerEvents, day : LogDays]
EventsInv == eventRows \in Seq(EventRows) /\ activeView \in {"view", "raw"}

LEMMA WrittenOnly ==
    ASSUME NEW kind, NEW content, NEW event \in Written(kind, content)
    PROVE  /\ event.kind = kind
           /\ event.blank = {} \/ event.blank = content.blank
           /\ event.fields = {} \/ content.always \subseteq event.fields
BY DEF Written

\* What of an event its links depend on.
LinksOnlyNodes(event) ==
    /\ event.kind \in {5, 6, 7, 9, 11, 12}
    /\ event.kind = 5 => event.blank = {}
    /\ event.kind = 7 => event.blank \subseteq {"variant"}
    /\ event.kind = 11 => event.fields = {} \/ ("sender_node_id" \in event.fields /\ "sender_node_id" \notin event.blank)

LEMMA ServerWrites ==
    ASSUME NEW event \in ServerEvents
    PROVE  LinksOnlyNodes(event)
<1>1. CASE event \in Plain
  BY <1>1 DEF Plain, LinksOnlyNodes
<1>2. CASE event \in Written(5, TracerouteLogDetails) \cup Written(5, TracerouteLifecycle)
  <2>1. event.kind = 5 /\ event.blank = {}
    BY <1>2, WrittenOnly DEF TracerouteLogDetails, TracerouteLifecycle
  <2> QED
    BY <2>1 DEF LinksOnlyNodes
<1>3. CASE event \in Written(6, NeighborLogDetails) \cup Written(12, StoreForwardLogDetails)
  <2>1. event.kind = 6 \/ event.kind = 12
    BY <1>3, WrittenOnly
  <2> QED
    BY <2>1 DEF LinksOnlyNodes
<1>4. CASE event \in Written(7, RoutingLogDetails)
  <2>1. event.kind = 7 /\ event.blank \subseteq {"variant"}
    BY <1>4, WrittenOnly DEF RoutingLogDetails
  <2> QED
    BY <2>1 DEF LinksOnlyNodes
<1>5. CASE event \in Written(11, PKILogDetails)
  <2>1. /\ event.kind = 11
        /\ event.blank \subseteq {"gateway_id", "topic_channel", "envelope_channel_id"}
        /\ event.fields = {} \/ "sender_node_id" \in event.fields
    BY <1>5, WrittenOnly DEF PKILogDetails
  <2> QED
    BY <2>1 DEF LinksOnlyNodes
<1> QED
  BY <1>1, <1>2, <1>3, <1>4, <1>5 DEF ServerEvents

\* The view of each kind, as View chooses it.
LEMMA ViewsAre ==
    ASSUME NEW event
    PROVE  /\ event.kind = 5 => View(event) = TracerouteView(event)
           /\ event.kind = 11 => View(event) = PKIView(event)
           /\ event.kind = 7 => View(event) = RoutingView(event)
           /\ event.kind = 12 => View(event) = StoreForwardView(event)
           /\ event.kind \in {6, 9} => View(event) = {}
BY DEF View

LEMMA FieldsAreShown ==
    ASSUME NEW event, event.kind \in {5, 6, 7, 9, 11, 12}, NEW f \in event.fields, f \notin event.blank
    PROVE  \E tab \in DetailTabs(event) : f \in Shown(event, tab)
<1>1. "view" \in DetailTabs(event)
  BY DEF DetailTabs
<1>2. CASE View(event) = {}
  BY <1>1, <1>2 DEF Shown
<1>3. CASE event.kind \in {5, 12} /\ View(event) # {}
  <2>1. "raw" \in DetailTabs(event)
    BY <1>3 DEF DetailTabs
  <2> QED
    BY <2>1 DEF Shown
<1>4. CASE event.kind \in {7, 11} /\ View(event) # {}
  <2>1. Shown(event, "view") = View(event)
    BY <1>4 DEF Shown
  <2>2. CASE event.kind = 7
    <3>1. View(event) = RoutingView(event)
      BY <2>2, ViewsAre
    <3>2. f \notin RoutingKnownKeys => f \in ExtraDetails(event, RoutingKnownKeys)
      BY DEF ExtraDetails
    <3>3. f \in RoutingKnownKeys => f \in RoutingRows \/ f \in RoutingPaths
      BY DEF RoutingKnownKeys, RoutingRows, RoutingPaths
    <3>4. f \in RoutingRows => f \in Scalars(event)
      BY DEF RoutingRows, Scalars, Lists, Records
    <3>5. f \in RoutingPaths => f \in NodeIdLists(event)
      BY DEF RoutingPaths, NodeIdLists, Lists
    <3>6. f \in RoutingView(event)
      BY <3>2, <3>3, <3>4, <3>5, Zenon DEF RoutingView
    <3> QED
      BY <1>1, <2>1, <3>1, <3>6
  <2>3. CASE event.kind = 11
    <3>1. View(event) = PKIView(event)
      BY <2>3, ViewsAre
    <3>2. f \notin PKIKnownKeys => f \in ExtraDetails(event, PKIKnownKeys)
      BY DEF ExtraDetails
    <3>3. f \in PKIKnownKeys => f \in Scalars(event)
      BY DEF PKIKnownKeys, Scalars, Lists, Records
    <3>4. f \in PKIView(event)
      BY <3>2, <3>3, Zenon DEF PKIView, PKIRows
    <3> QED
      BY <1>1, <2>1, <3>1, <3>4
  <2> QED
    BY <1>4, <2>2, <2>3
<1>5. CASE event.kind \in {6, 9}
  BY <1>2, <1>5, ViewsAre
<1> QED
  BY <1>2, <1>3, <1>4, <1>5

LEMMA LinksAreNodes ==
    ASSUME NEW event, LinksOnlyNodes(event)
    PROVE  NodeReferences(event) \cap event.blank = {}
<1>1. CASE event.kind \notin {7, 11}
  BY <1>1 DEF NodeReferences, LinksOnlyNodes
<1>2. CASE event.kind = 7
  BY <1>2 DEF NodeReferences, LinksOnlyNodes
<1>3. CASE event.kind = 11
  <2>1. NodeReferences(event) \subseteq Shown(event, "view") \cap PKIKnownKeys
    BY <1>3 DEF NodeReferences, PKIKnownKeys
  <2>2. View(event) = PKIView(event)
    BY <1>3, ViewsAre
  <2>3. CASE event.fields = {}
    <3>1. View(event) = {}
      BY <2>2, <2>3 DEF PKIView, Scalars, ExtraDetails
    <3>2. Shown(event, "view") = {}
      BY <2>3, <3>1 DEF Shown
    <3> QED
      BY <2>1, <3>2
  <2>4. CASE "sender_node_id" \in event.fields /\ "sender_node_id" \notin event.blank
    <3>1. "sender_node_id" \in Scalars(event) \cap PKIRows
      BY <2>4 DEF Scalars, Lists, Records, PKIRows, PKIKnownKeys
    <3>2. View(event) # {}
      BY <2>2, <3>1 DEF PKIView
    <3>3. Shown(event, "view") = PKIView(event)
      BY <2>2, <3>2 DEF Shown
    <3>4. PKIView(event) \cap PKIKnownKeys \cap event.blank = {}
      BY DEF PKIView, Scalars, ExtraDetails
    <3> QED
      BY <2>1, <3>3, <3>4
  <2> QED
    BY <1>3, <2>3, <2>4 DEF LinksOnlyNodes
<1> QED
  BY <1>1, <1>2, <1>3

LEMMA RowsGoOn == EventsInv /\ [EventsNext]_eventVars => EventsInv'
<1> SUFFICES ASSUME EventsInv, [EventsNext]_eventVars PROVE EventsInv'
  OBVIOUS
<1>1. ASSUME NEW event \in ServerEvents, NEW day \in LogDays, BringEvent(event, day) PROVE EventsInv'
  <2>1. PICK id : id = (IF eventRows = <<>> THEN 1 ELSE eventRows[1].id + 1)
    OBVIOUS
  <2>2. id \in Nat
    <3>1. eventRows # <<>> => eventRows[1] \in EventRows
      BY DEF EventsInv
    <3> QED
      BY <2>1, <3>1 DEF EventRows
  <2>3. PICK row \in EventRows : row = [id |-> id, event |-> event, day |-> day]
    BY <2>2 DEF EventRows
  <2>4. PICK rows \in Seq(EventRows) : rows = <<row>> \o eventRows
    <3>1. <<row>> \in Seq(EventRows) /\ eventRows \in Seq(EventRows)
      BY DEF EventsInv
    <3> QED
      BY <3>1, ConcatProperties
  <2>5. PICK end : /\ end = (IF Len(rows) < MaxEventRows THEN Len(rows) ELSE MaxEventRows)
                   /\ eventRows' = SubSeq(rows, 1, end)
    BY <1>1, <2>1, <2>3, <2>4, Zenon DEF BringEvent
  <2>6. end \in Nat /\ end <= Len(rows)
    <3>1. Len(rows) \in Nat /\ MaxEventRows \in Nat
      BY LogPageAssumption
    <3> QED
      BY <2>5, <3>1
  <2>7. SubSeq(rows, 1, end) \in Seq(EventRows)
    <3>1. \A i \in 1..end : rows[i] \in EventRows
      BY <2>6
    <3>2. SubSeq(rows, 1, end) = [i \in 1..end |-> rows[i]]
      BY <2>6
    <3> QED
      BY <2>6, <3>1, <3>2
  <2>8. activeView' = activeView
    BY <1>1 DEF BringEvent
  <2> QED
    BY <2>5, <2>7, <2>8 DEF EventsInv
<1>2. ASSUME NEW i \in DOMAIN eventRows, SelectEvent(eventRows[i].id) PROVE EventsInv'
  BY <1>2 DEF SelectEvent, EventsInv
<1>3. ASSUME NEW tab \in {"view", "raw"}, SwitchView(tab) PROVE EventsInv'
  BY <1>3 DEF SwitchView, EventsInv
<1>4. CASE CloseEventDetails
  BY <1>4 DEF CloseEventDetails, EventsInv
<1>5. CASE EmptyList
  BY <1>5 DEF EmptyList, EventsInv
<1>6. CASE UNCHANGED eventVars
  BY <1>6 DEF eventVars, EventsInv
<1> QED
  BY <1>1, <1>2, <1>3, <1>4, <1>5, <1>6 DEF EventsNext

LEMMA DetailsAreWhole == EventsInv => DetailsTell
<1> SUFFICES ASSUME EventsInv, NEW i \in SelectedEvent
             PROVE  LET event == eventRows[i].event
                    IN  /\ event.fields \ event.blank \subseteq UNION {Shown(event, tab) : tab \in DetailTabs(event)}
                        /\ activeView \in {"view", "raw"}
                        /\ NodeReferences(event) \cap event.blank = {}
  BY DEF DetailsTell
<1>1. PICK event \in ServerEvents : event = eventRows[i].event
  <2>1. i \in DOMAIN eventRows
    BY DEF SelectedEvent
  <2>2. eventRows[i] \in EventRows
    BY <2>1 DEF EventsInv
  <2> QED
    BY <2>2 DEF EventRows
<1>2. LinksOnlyNodes(event)
  BY ServerWrites
<1>3. \A f \in event.fields \ event.blank : \E tab \in DetailTabs(event) : f \in Shown(event, tab)
  BY <1>2, FieldsAreShown DEF LinksOnlyNodes
<1>4. NodeReferences(event) \cap event.blank = {}
  BY <1>2, LinksAreNodes
<1> QED
  BY <1>1, <1>3, <1>4 DEF EventsInv

\* Every field the server writes of an event, but an empty string, is told in one of the views
\* of its details, though the client names each field on its own; what is made a link is a node.
THEOREM DetailsAreTold == EventsSpec => []DetailsTell
<1>1. EventsInit => EventsInv
  BY DEF EventsInit, EventsInv
<1>2. EventsInv /\ [EventsNext]_eventVars => EventsInv'
  BY RowsGoOn
<1>3. EventsInv => DetailsTell
  BY DetailsAreWhole
<1> QED
  BY <1>1, <1>2, <1>3, PTL DEF EventsSpec

=============================================================================
