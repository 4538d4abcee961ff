------------------------------- MODULE LogPage -------------------------------
(***************************************************************************)
(* The page of the event log: LogPage.tsx (the controls of the filters),   *)
(* LogEventList.tsx (the rows, the days, the event that is opened),        *)
(* LogDetailsModal.tsx with the four views of details it chooses from, and *)
(* what the server writes into the details they show (ingest/service.go,   *)
(* traceroute_tracker.go).                                                 *)
(*                                                                         *)
(* The details of an event are the set of their fields; a field is a list, *)
(* a record or a scalar by its name, and is in "blank" when it is the      *)
(* empty string.  Which rows are in the list is up to LogTab.              *)
(***************************************************************************)
EXTENDS LogFilters, SequencesExt

CONSTANTS ListedKinds,   \* eventKinds, the kinds of the dropdown, in its order
          AddressedKinds,\* bound: what an address may list as kinds, in its order
          SliderValues,  \* bound: where a slider is moved to, what an address has for hops
          LogDays,       \* bound: days of the events
          MaxEventRows   \* bound: rows in the list; one of them has an event that is not Plain

ASSUME LogPageAssumption == SliderValues \subseteq Int /\ MaxEventRows \in Nat \ {0}

VARIABLES logForm,      \* what the controls show: [kinds, hopRange, text]; text: the channel or
                        \* the node filter is not empty
          fromAddress,  \* history: the kinds are as an address listed them
          eventRows, activeEventID, activeView

formVars == <<logForm, fromAddress>>
eventVars == <<eventRows, activeEventID, activeView>>

----------------------------------------------------------------------------
(* The filters                                                             *)

DefaultForm == [kinds |-> <<>>, hopRange |-> DefaultLogHopRange, text |-> FALSE]

\* summaryForEventKinds, as what it tells: the kinds it names, or how many.
SummaryForEventKinds ==
    LET named == SelectSeq(ListedKinds, LAMBDA k : Contains(logForm.kinds, k))
    IN  [all |-> named = <<>>, names |-> IF Len(named) <= 2 THEN named ELSE <<>>, count |-> Len(named)]

IsFiltersAtDefaults ==
    /\ Len(logForm.kinds) = 0 /\ ~logForm.text /\ IsDefaultLogHopRange(NormalizeLogHopRange(logForm.hopRange))

\* Mutant: a kind that is added is added at the end.
ToggleAtEnd(kind) ==
    /\ logForm' = [logForm EXCEPT !.kinds =
          IF Contains(@, kind) THEN SelectSeq(@, LAMBDA k : k # kind) ELSE Append(@, kind)]
    /\ UNCHANGED fromAddress

\* A kind that is added puts all of them in the order of the dropdown.
ToggleEventKind(kind) ==
    /\ logForm' = [logForm EXCEPT !.kinds =
          IF Contains(@, kind) THEN SelectSeq(@, LAMBDA k : k # kind)
          ELSE SelectSeq(ListedKinds, LAMBDA k : k = kind \/ Contains(logForm.kinds, k))]
    /\ fromAddress' = (fromAddress /\ Contains(logForm.kinds, kind))

MoveSlider(value) ==
    /\ \E range \in {ChangeHopMin(NormalizeLogHopRange(logForm.hopRange), value),
                     ChangeHopMax(NormalizeLogHopRange(logForm.hopRange), value)} :
          logForm' = [logForm EXCEPT !.hopRange = range]
    /\ UNCHANGED fromAddress

TypeFilter ==
    logForm' = [logForm EXCEPT !.text = ~@] /\ UNCHANGED fromAddress

ResetFilters ==
    /\ ~IsFiltersAtDefaults
    /\ logForm' = DefaultForm /\ fromAddress' = FALSE

FollowLogAddress(kinds, min, max) ==
    /\ logForm' = [kinds |-> kinds, hopRange |-> NormalizeLogHopRange([min |-> min, max |-> max]),
                   text |-> FALSE]
    /\ fromAddress' = TRUE

FormInit == logForm = DefaultForm /\ fromAddress = FALSE
FormNext ==
    \/ \E kind \in ToSet(ListedKinds) : ToggleEventKind(kind)
    \/ \E value \in SliderValues : MoveSlider(value)
    \/ TypeFilter \/ ResetFilters
    \/ \E kinds \in AddressedKinds, min, max \in SliderValues : FollowLogAddress(kinds, min, max)
FormSpec == FormInit /\ [][FormNext]_formVars

----------------------------------------------------------------------------
(* What the server writes                                                  *)

Lists == {"route", "route_back", "forward_path", "return_path", "forward_snr", "return_snr",
          "source_packets", "steps", "neighbors"}
Records == {"stats", "history", "heartbeat"}

Inferred == {"inferred_forward_path", "inferred_return_path", "inferred_direct"}
Paths == {"forward_path", "return_path", "forward_snr", "return_snr"}

TracerouteLogDetails ==
    [always |-> {"role", "status", "want_response", "hop_start", "hop_limit"},
     may |-> {"request_id", "reply_id", "from", "to", "route", "route_back", "bitfield"} \cup Paths \cup Inferred,
     blank |-> {}]
TracerouteLifecycle ==
    [always |-> {"scope", "status", "started_at", "updated_at"},
     may |-> {"request_id", "from", "to", "error_reason", "completed_at", "source_packets", "steps"}
             \cup Paths \cup Inferred,
     blank |-> {}]
RoutingLogDetails ==
    [always |-> {"variant"},
     may |-> {"request_id", "from", "to", "route", "route_back", "error_reason", "traceroute_status",
              "traceroute_ref"},
     blank |-> {"variant"}]
PKILogDetails ==
    [always |-> {"sender_node_id", "destination_node_id", "gateway_id", "topic_channel",
                 "envelope_channel_id", "packet_id", "encrypted", "decrypted", "pki_encrypted",
                 "payload_size_bytes"},
     may |-> {"hop_start", "hop_limit", "priority"},
     blank |-> {"gateway_id", "topic_channel", "envelope_channel_id"}]
StoreForwardLogDetails ==
    [always |-> {"rr"},
     may |-> {"raw_rr", "from", "to", "raw_role", "text_bytes"} \cup Records,
     blank |-> {}]
NeighborLogDetails ==
    [always |-> {"neighbors_count", "broadcast_interval_secs"},
     may |-> {"neighbor_node_id", "neighbors"}, blank |-> {}]

\* The events of a kind: with none of the fields that may be missing, with each alone, with
\* all of them; and without details, for those that have none and those stored before they had.
Written(kind, details) ==
    LET some == {{}, details.may} \cup {{f} : f \in details.may}
    IN  {[kind |-> kind, fields |-> details.always \cup s, blank |-> b] :
             s \in some, b \in {{}, details.blank}}
        \cup {[kind |-> kind, fields |-> {}, blank |-> {}]}

Plain == {[kind |-> 9, fields |-> {}, blank |-> {}],
          [kind |-> 7, fields |-> {"variant"}, blank |-> {}]}
ServerEvents ==
    Plain \cup Written(5, TracerouteLogDetails) \cup Written(5, TracerouteLifecycle)
    \cup Written(6, NeighborLogDetails) \cup Written(7, RoutingLogDetails)
    \cup Written(11, PKILogDetails) \cup Written(12, StoreForwardLogDetails)

----------------------------------------------------------------------------
(* The views of details                                                    *)

\* The fields that formatScalar makes something of: FALSE and 0 too.
Scalars(event) == event.fields \ (Lists \cup Records \cup event.blank)
NodeIdLists(event) == event.fields \cap Lists

\* One of the two sources of each route, with its signals.
RouteSections(event) ==
    LET section(path, route, snr) ==
            IF path \in event.fields THEN {path} \cup (event.fields \cap {snr})
            ELSE IF route \in event.fields THEN {route} \cup (event.fields \cap {snr}) ELSE {}
    IN  section("forward_path", "route", "forward_snr") \cup section("return_path", "route_back", "return_snr")

TracerouteView(event) ==
    (Scalars(event) \cap {"from", "to", "hop_start", "hop_limit"})
    \cup RouteSections(event) \cup (event.fields \cap {"steps"})

\* Mutant: a key is known that no row is for.
RoutingRowsWithoutStatus == {"variant", "request_id", "from", "to", "error_reason", "traceroute_ref"}

RoutingRows == {"variant", "request_id", "from", "to", "error_reason", "traceroute_ref",
                "traceroute_status"}
RoutingPaths == {"route", "route_back"}
RoutingKnownKeys == {"variant", "request_id", "from", "to", "route", "route_back", "error_reason",
                     "traceroute_ref", "traceroute_status"}

\* What is not known is shown as JSON below the rows.
ExtraDetails(event, known) == event.fields \ known

RoutingView(event) ==
    (Scalars(event) \cap RoutingRows) \cup (NodeIdLists(event) \cap RoutingPaths)
    \cup ExtraDetails(event, RoutingKnownKeys)

PKIKnownKeys == {"sender_node_id", "destination_node_id", "gateway_id", "topic_channel",
                 "envelope_channel_id", "packet_id", "encrypted", "decrypted", "pki_encrypted",
                 "payload_size_bytes", "hop_start", "hop_limit", "priority"}
PKIRows == PKIKnownKeys  \* each has a row
PKIView(event) == (Scalars(event) \cap PKIRows) \cup ExtraDetails(event, PKIKnownKeys)

StoreForwardView(event) ==
    (Scalars(event) \cap {"rr", "raw_rr", "raw_role", "from", "to", "text_bytes"})
    \cup (event.fields \cap Records)

\* resolveLogDetailsRenderer: the view of the kind; the one that has nothing to show, and the
\* kinds that have none, show all of it as JSON.
View(event) ==
    CASE event.kind = 5  -> TracerouteView(event)
      [] event.kind = 11 -> PKIView(event)
      [] event.kind = 7  -> RoutingView(event)
      [] event.kind = 12 -> StoreForwardView(event)
      [] OTHER           -> {}
DetailTabs(event) == IF event.kind \in {5, 12} /\ View(event) # {} THEN {"view", "raw"} ELSE {"view"}
Shown(event, tab) ==
    IF View(event) = {} \/ (tab = "raw" /\ "raw" \in DetailTabs(event)) THEN event.fields ELSE View(event)

\* Fields the view makes links of, to the details of a node.
NodeReferences(event) ==
    IF event.kind \in {5, 7} THEN Shown(event, "view") \cap {"from", "to"}
    ELSE IF event.kind = 11
    THEN Shown(event, "view") \cap {"sender_node_id", "destination_node_id", "gateway_id"}
    ELSE {}

----------------------------------------------------------------------------
(* The list                                                                *)

HasLogDetails(event) == event.fields # {}
SelectedEvent ==
    {i \in DOMAIN eventRows : eventRows[i].id = activeEventID /\ HasLogDetails(eventRows[i].event)}
ModalOpen == SelectedEvent # {}

\* groupLogItemsByDay: the days as they follow each other, each with its rows.
GroupLogItemsByDay(rows) ==
    LET firsts == SetToSortSeq({i \in DOMAIN rows : i = 1 \/ rows[i - 1].day # rows[i].day}, <)
    IN  [g \in DOMAIN firsts |->
            [day |-> rows[firsts[g]].day,
             items |-> SubSeq(rows, firsts[g], IF g = Len(firsts) THEN Len(rows) ELSE firsts[g + 1] - 1)]]

\* The rows of the table that come below a line with their day.
RowsBelowDay(rows) == {GroupLogItemsByDay(rows)[g].items[1].id : g \in DOMAIN GroupLogItemsByDay(rows)}

\* An event comes on top, and the last row goes when there are too many.
BringEvent(event, day) ==
    LET id == IF eventRows = <<>> THEN 1 ELSE eventRows[1].id + 1
        rows == <<[id |-> id, event |-> event, day |-> day]>> \o eventRows
    IN  /\ id <= MaxEventRows + 1
        /\ event \in Plain \/ \A i \in DOMAIN eventRows : eventRows[i].event \in Plain
        /\ eventRows' = SubSeq(rows, 1, IF Len(rows) < MaxEventRows THEN Len(rows) ELSE MaxEventRows)
        /\ UNCHANGED <<activeEventID, activeView>>

\* The button of a row is covered by the modal while that is open.
SelectEvent(id) ==
    /\ ~ModalOpen
    /\ \E i \in DOMAIN eventRows : eventRows[i].id = id /\ HasLogDetails(eventRows[i].event)
    /\ activeEventID' = id /\ activeView' = "view"
    /\ UNCHANGED eventRows

SwitchView(tab) ==
    /\ \E i \in SelectedEvent : tab \in DetailTabs(eventRows[i].event)
    /\ activeView' = tab
    /\ UNCHANGED <<eventRows, activeEventID>>

\* By its button, the Escape key or a click beside it.
CloseEventDetails ==
    /\ ModalOpen
    /\ activeEventID' = 0
    /\ UNCHANGED <<eventRows, activeView>>

\* The filters change: other rows are there, none at first.
EmptyList ==
    /\ eventRows # <<>>
    /\ eventRows' = <<>> /\ UNCHANGED <<activeEventID, activeView>>

EventsInit == eventRows = <<>> /\ activeEventID = 0 /\ activeView = "view"
EventsNext ==
    \/ \E event \in ServerEvents, day \in LogDays : BringEvent(event, day)
    \/ \E i \in DOMAIN eventRows : SelectEvent(eventRows[i].id)
    \/ \E tab \in {"view", "raw"} : SwitchView(tab)
    \/ CloseEventDetails \/ EmptyList
EventsSpec == EventsInit /\ [][EventsNext]_eventVars

----------------------------------------------------------------------------
(* Properties                                                              *)

\* What the label of a range promises is what passes, by the hops the badge of a row shows.
PassesAsTold(row, range) ==
    LET badge == GetHopsBadge(row).traversed
        label == LogHopRangeLabel(range)
        told  == /\ badge >= range.min
                 /\ label = "exactly" => badge = range.min
                 /\ label = "between" => badge <= range.max
    IN  EventMatchesLogHopRange(row, range) <=> label = "all" \/ told

\* A range has its ends in order, whatever sliders were moved and whatever an address had,
\* and its label is right for every row.
HopsTell ==
    /\ logForm.hopRange = NormalizeLogHopRange(logForm.hopRange)
    /\ \A start, limit \in NoHop..LogHopsMax, uploader \in {"n1", "n2"} :
          PassesAsTold([node |-> "n1", uploader |-> uploader, hopStart |-> start, hopLimit |-> limit],
                       logForm.hopRange)

\* The kinds a user chose are in one order, however they were clicked, as the key that tells
\* whether the log was loaded depends on it; and Reset is there just when something is filtered.
KindsTell ==
    /\ ~fromAddress =>
          logForm.kinds = SelectSeq(ListedKinds, LAMBDA k : Contains(logForm.kinds, k))
    /\ IsFiltersAtDefaults <=> logForm = DefaultForm
    /\ SummaryForEventKinds.all <=> ToSet(logForm.kinds) \cap ToSet(ListedKinds) = {}

\* The filters say what they do.
FormTells == HopsTell /\ KindsTell

\* Every field the server writes of an event, but an empty string, is told in one of the
\* views of its details, though the client names each field on its own; what is made a link
\* is a node.
DetailsTell ==
    \A i \in SelectedEvent :
       LET event == eventRows[i].event
       IN  /\ event.fields \ event.blank \subseteq UNION {Shown(event, tab) : tab \in DetailTabs(event)}
           /\ activeView \in {"view", "raw"}
           /\ NodeReferences(event) \cap event.blank = {}

\* The day above a row is its day, in the table as in the cards.
DaysTell ==
    /\ \A i \in DOMAIN eventRows :
          LET above == {j \in 1..i : eventRows[j].id \in RowsBelowDay(eventRows)}
          IN  above # {} /\ eventRows[CHOOSE j \in above : \A k \in above : k <= j].day = eventRows[i].day
    /\ FlattenSeq([g \in DOMAIN GroupLogItemsByDay(eventRows) |->
                      GroupLogItemsByDay(eventRows)[g].items]) = eventRows

\* The events and their details are told as above.
EventsTell == DetailsTell /\ DaysTell

=============================================================================
