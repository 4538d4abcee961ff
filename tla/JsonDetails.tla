----------------------------- MODULE JsonDetails -----------------------------
(***************************************************************************)
(* components/JsonDetailsView.tsx: the details of an event of the log as   *)
(* lines of JSON, whose arrays and objects can be collapsed, in the dialog *)
(* of components/LogDetailsModal.tsx.                                      *)
(*                                                                         *)
(* A value is a scalar, or an array or object with its items and their     *)
(* keys; those of an array are its indices.  A component keeps its         *)
(* "expanded" for as long as it is mounted at its path; one that is not in *)
(* "collapsed" is expanded or not mounted.  Keys are not empty.            *)
(***************************************************************************)
EXTENDS Naturals, Sequences, FiniteSets, SequencesExt

CONSTANTS Values \* of log events' details

VARIABLES value,    \* the value in the dialog, or NoValue: it is closed
          collapsed \* the paths of the mounted components with "expanded" false

jsonVars == <<value, collapsed>>

NoValue == [kind |-> "closed", keys |-> <<>>, items |-> <<>>]
Scalar == [kind |-> "scalar", keys |-> <<>>, items |-> <<>>]

----------------------------------------------------------------------------
(* The lines                                                               *)

\* renderPrefix: what is in an array has no key.
Prefix(key) == IF key = "" THEN <<>> ELSE <<key, ":">>
Comma(trailing) == IF trailing THEN <<",">> ELSE <<>>
KeyIn(parent, i) == IF parent.kind = "object" THEN parent.keys[i] ELSE ""
Opening(v) == IF v.kind = "object" THEN "{" ELSE "["
Closing(v) == IF v.kind = "object" THEN "}" ELSE "]"

\* JsonLine; toggle is the path of the component its button is of.
JsonLine(depth, toggle, tokens) == [depth |-> depth, toggle |-> toggle, tokens |-> tokens]
NoToggle == <<"no toggle">>

\* Mutant: the comma of an array or object follows its opening bracket, too.
RECURSIVE JsonNodeOpensWithComma(_, _, _, _, _)
JsonNodeOpensWithComma(v, path, depth, key, trailing) ==
    IF v.items = <<>> \/ path \in collapsed
    THEN <<JsonLine(depth, NoToggle, Prefix(key) \o <<v.kind>> \o Comma(trailing))>>
    ELSE <<JsonLine(depth, path, Prefix(key) \o <<Opening(v)>> \o Comma(trailing))>>
         \o FlattenSeq([i \in DOMAIN v.items |->
                JsonNodeOpensWithComma(v.items[i], Append(path, v.keys[i]), depth + 1, KeyIn(v, i),
                                       i < Len(v.items))])
         \o <<JsonLine(depth, NoToggle, <<Closing(v)>> \o Comma(trailing))>>

\* JsonNode, JsonArrayNode and JsonObjectNode: one line for a scalar, for what has no items
\* and for what is collapsed.  The comma follows the last line of a value.
RECURSIVE JsonNode(_, _, _, _, _)
JsonNode(v, path, depth, key, trailing) ==
    IF v.kind = "scalar"
    THEN <<JsonLine(depth, NoToggle, Prefix(key) \o <<"scalar">> \o Comma(trailing))>>
    ELSE IF v.items = <<>>
    THEN <<JsonLine(depth, NoToggle, Prefix(key) \o <<Opening(v), Closing(v)>> \o Comma(trailing))>>
    ELSE IF path \in collapsed
    THEN <<JsonLine(depth, path, Prefix(key) \o <<Opening(v), "...", Closing(v)>> \o Comma(trailing))>>
    ELSE <<JsonLine(depth, path, Prefix(key) \o <<Opening(v)>>)>>
         \o FlattenSeq([i \in DOMAIN v.items |->
                JsonNode(v.items[i], Append(path, v.keys[i]), depth + 1, KeyIn(v, i), i < Len(v.items))])
         \o <<JsonLine(depth, NoToggle, <<Closing(v)>> \o Comma(trailing))>>

JsonLines == IF value = NoValue THEN <<>> ELSE JsonNode(value, <<>>, 0, "", FALSE)

----------------------------------------------------------------------------
(* The buttons and the dialog                                              *)

\* Collapsing unmounts what is inside, which is expanded when it comes back.
JsonToggle(path) ==
    /\ \E i \in DOMAIN JsonLines : JsonLines[i].toggle = path
    /\ collapsed' = IF path \in collapsed THEN collapsed \ {path}
                    ELSE {p \in collapsed : ~IsPrefix(path, p)} \cup {path}
    /\ UNCHANGED value

\* The components that both values have at a path: those of one kind all the way.
RECURSIVE Stays(_, _, _)
Stays(old, new, path) ==
    /\ old.kind = new.kind
    /\ path # <<>> =>
          \E i \in DOMAIN old.items, j \in DOMAIN new.items :
             /\ old.keys[i] = Head(path) /\ new.keys[j] = Head(path)
             /\ Stays(old.items[i], new.items[j], Tail(path))

\* The address selects another event while the dialog is open: components that have a place
\* in its details stay as they are.
ShowDetails(v) ==
    /\ v # value /\ value' = v
    /\ collapsed' = {p \in collapsed : Stays(value, v, p)}

CloseDetailsModal == value # NoValue /\ value' = NoValue /\ collapsed' = {}

JsonInit == value = NoValue /\ collapsed = {}

JsonNext ==
    \/ \E i \in DOMAIN JsonLines : JsonToggle(JsonLines[i].toggle)
    \/ \E v \in Values : ShowDetails(v)
    \/ CloseDetailsModal

----------------------------------------------------------------------------
(* Property                                                                *)

\* The JSON of a value, with commas between and nothing of what is inside a collapsed one.
RECURSIVE Text(_, _)
Text(v, path) ==
    IF v.kind = "scalar" THEN <<"scalar">>
    ELSE LET item(i) == Prefix(KeyIn(v, i)) \o Text(v.items[i], Append(path, v.keys[i]))
             inside == IF path \in collapsed /\ v.items # <<>> THEN <<"...">>
                       ELSE FlattenSeq([i \in DOMAIN v.items |->
                                IF i = 1 THEN item(i) ELSE <<",">> \o item(i)])
         IN  <<Opening(v)>> \o inside \o <<Closing(v)>>

Count(lines, tokens) ==
    FoldLeft(LAMBDA n, line : n + Cardinality({i \in DOMAIN line.tokens : line.tokens[i] \in tokens}), 0, lines)

\* Read one after the other the lines are the JSON of the value, whatever is collapsed, each
\* indented by the brackets that are open before it; and each button is of one line.
JsonTells ==
    value # NoValue =>
       /\ FlattenSeq([i \in DOMAIN JsonLines |-> JsonLines[i].tokens]) = Text(value, <<>>)
       /\ \A i \in DOMAIN JsonLines :
             LET before == SubSeq(JsonLines, 1, i - 1)
                 closes == Head(JsonLines[i].tokens) \in {"]", "}"}
             IN  /\ JsonLines[i].depth = Count(before, {"[", "{"}) - Count(before, {"]", "}"})
                                         - (IF closes THEN 1 ELSE 0)
                 /\ JsonLines[i].toggle # NoToggle =>
                       \A j \in DOMAIN JsonLines : JsonLines[j].toggle = JsonLines[i].toggle => j = i

=============================================================================
