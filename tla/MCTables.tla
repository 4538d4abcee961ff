------------------------------ MODULE MCTables ------------------------------
(***************************************************************************)
(* The bounded tables that forget: the duplicate filter and the traceroute *)
(* tracker of the service, and the cache of node details of the web client *)
(* with the effects that use it.  "part" says which one a behaviour is     *)
(* about, and the others stay as they are at first.                        *)
(***************************************************************************)
EXTENDS Dedup, TracerouteTracker, NodeDetails

VARIABLE part

filterVars == <<dedupVars, history>>

MCTimes == 0..3
MCIds == 0..2
MCLinks == [id \in {"a", "b", "c"} |-> CASE id = "a" -> {"c"} [] id = "b" -> {"a"} [] OTHER -> {}]

MCInit ==
    /\ part \in {"packets", "traceroutes", "details"}
    /\ HInit /\ Init
    /\ DetailsInit /\ (part = "details" \/ selectedNode = NoId)

MCNext ==
    /\ part' = part
    /\ \/ part = "packets" /\ HNext /\ UNCHANGED <<vars, detailsVars>>
       \/ part = "traceroutes" /\ Next /\ UNCHANGED <<filterVars, detailsVars>>
       \/ part = "details" /\ DetailsNext /\ UNCHANGED <<filterVars, vars>>

MCSpec ==
    /\ MCInit /\ [][MCNext]_<<part, filterVars, vars, detailsVars>>
    /\ WF_vars(part = "traceroutes" /\ Tick) /\ WF_vars(part = "traceroutes" /\ Sweep)
    /\ WF_detailsVars(part = "details" /\ RunDetailsEffects)
    /\ WF_detailsVars(part = "details" /\ DetailsTick)
    /\ WF_detailsVars(part = "details" /\ Expire)
    /\ \A id \in Listed : /\ WF_detailsVars(part = "details" /\ Reject(id))
                          /\ SF_detailsVars(part = "details" /\ Settle(id))

=============================================================================
