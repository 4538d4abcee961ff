------------------------------ MODULE MCIngest ------------------------------
(***************************************************************************)
(* Senders 1 and 3, gateway 2 and relay 4.  A chat message comes in over   *)
(* two gateways and shares its packet id with one of another sender; a     *)
(* traceroute is answered over a relay; the relay introduces itself late.  *)
(***************************************************************************)
EXTENDS Ingest

MCChannels == [LongFast |-> [primary |-> TRUE, events |-> {"node_info"}],
               Side     |-> [primary |-> FALSE, events |-> {"text_message"}]]

Base == [usable |-> TRUE, kind |-> "chat", mapTopic |-> FALSE, channel |-> "Side", from |-> 1,
         id |-> 1, gateway |-> 2, path |-> <<>>, back |-> <<>>, neighbors |-> {}, request |-> 0,
         direct |-> FALSE, carries |-> {}]

Hello      == [Base EXCEPT !.direct = TRUE]
HelloAgain == [Base EXCEPT !.gateway = 4]
OtherHello == [Base EXCEPT !.from = 3, !.channel = "LongFast"]
Ask        == [Base EXCEPT !.kind = "request", !.channel = "LongFast", !.id = 5, !.request = 5,
                           !.path = <<1, 3>>]
Answer     == [Base EXCEPT !.kind = "reply", !.channel = "LongFast", !.from = 3, !.id = 6,
                           !.request = 5, !.path = <<1, 4, 3>>, !.back = <<3, 1>>]
Report4    == [Base EXCEPT !.kind = "map_report", !.mapTopic = TRUE, !.channel = "", !.from = 4,
                           !.id = 0, !.carries = {"firmware", "position"}]

Refused    == [Base EXCEPT !.channel = "Elsewhere", !.gateway = 4]
Broken     == [Base EXCEPT !.kind = "routing_error", !.channel = "LongFast", !.from = 4,
                           !.id = 7, !.request = 5, !.path = <<4, 1>>]
Renewed    == [Base EXCEPT !.kind = "ack", !.channel = "Side", !.from = 4,
                           !.id = 8, !.request = 5, !.path = <<4, 1>>]
Neighbors3 == [Base EXCEPT !.kind = "neighbor_info", !.from = 3, !.id = 9, !.path = <<1>>,
                           !.neighbors = {4}]

\* Copies of a chat message, one over a channel that is not configured, and nodes that
\* become known in different ways.
MCChatMessages == {Hello, HelloAgain, Refused, OtherHello, Report4}

\* A traceroute that is answered and fails, and a neighbor list; one that is acknowledged.
MCTracerouteMessages == {Ask, Answer, Broken, Neighbors3}
MCAckMessages == {Ask, Answer, Renewed}

Names     == [Base EXCEPT !.kind = "node_info", !.channel = "LongFast", !.carries = {"hardware"}]
Place3    == [Base EXCEPT !.kind = "position", !.channel = "LongFast", !.from = 3,
                          !.carries = {"position"}]
Zero4     == [Base EXCEPT !.kind = "position", !.channel = "LongFast", !.from = 4, !.id = 2]
Battery3  == [Base EXCEPT !.kind = "telemetry", !.from = 3, !.id = 3]
Refused3  == [Battery3 EXCEPT !.channel = "Elsewhere", !.gateway = 4]
Unread3   == [Battery3 EXCEPT !.kind = "unknown_encrypted"]
Sealed    == [Base EXCEPT !.kind = "unknown_encrypted", !.from = NoNode, !.id = 4]
Private   == [Base EXCEPT !.kind = "pki", !.channel = "Elsewhere", !.id = 5, !.path = <<3>>]
Route     == [Base EXCEPT !.kind = "routing", !.channel = "LongFast", !.id = 6, !.path = <<1, 4, 3>>,
                          !.back = <<3, 4, 1>>]
Garbled   == [Base EXCEPT !.usable = FALSE]

\* What a node tells of itself on the primary and on another channel, a position of
\* 0, 0 and a routing packet with its route; and packets that cannot be read or have no
\* sender, and copies of one that come over another channel or cannot be decrypted.
MCTellingMessages == {Names, Place3, Zero4, Route}
MCUnreadableMessages == {Names, Battery3, Refused3, Unread3, Sealed, Private, Garbled}

With(published, fail, crash, forget) ==
    [messages |-> published, maxFailures |-> fail, maxCrashes |-> crash, maxForgets |-> forget]

\* Failures, crashes and lapses of the filter in pairs for the chat, all three for the
\* acknowledged traceroute; the answered one also with failures of two packets.
MCTraffics == {With(MCChatMessages, 1, 1, 0), With(MCChatMessages, 1, 0, 1), With(MCChatMessages, 0, 1, 1),
               With(MCTracerouteMessages, 1, 1, 0), With(MCTracerouteMessages, 2, 0, 0),
               With(MCAckMessages, 1, 1, 1), With(MCTellingMessages, 1, 1, 0),
               With(MCUnreadableMessages, 1, 0, 0), With(MCUnreadableMessages, 0, 1, 0)}

\* One chat message on a channel whose event families leave text messages out.
MCFamilyTraffics == {With({OtherHello}, 0, 0, 0)}

=============================================================================
