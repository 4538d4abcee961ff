----------------------------- MODULE MCService -----------------------------
(***************************************************************************)
(* What the service does beside the packets: "part" says which of it a     *)
(* behaviour is about, and the others stay as they are at first.  The      *)
(* weekly statistics (one node, weeks of two ticks, two requests at a      *)
(* time), the cached answers about the topology and the activity, the      *)
(* update check, and the schema at the start.                              *)
(***************************************************************************)
EXTENDS Statistics, ResponseCaches, UpdateCheck, Migrations, TLC

VARIABLE part

MCVersions == {1}

MCWeeks == 0..3

MCConsumers == [one |-> {"server"}, all |-> {"server", "fork"}]

MCSymmetry == Permutations(Requests) \cup Permutations(Askers)

MCInit ==
    /\ part \in {"statistics", "topology", "activity", "updates", "schema"}
    /\ Init
    /\ ResponsesInit
    /\ UpdatesInit
    /\ SchemaInit /\ (part = "schema" \/ applied[1] = 0)

MCNext ==
    /\ part' = part
    /\ \/ part = "statistics" /\ Next /\ UNCHANGED <<responseVars, updateVars, schemaVars>>
       \/ part = "topology" /\ TopologyNext /\ UNCHANGED <<vars, updateVars, schemaVars>>
       \/ part = "activity" /\ ActivityNext /\ UNCHANGED <<vars, updateVars, schemaVars>>
       \/ part = "updates" /\ UpdatesNext /\ UNCHANGED <<vars, responseVars, schemaVars>>
       \/ part = "schema" /\ SchemaNext /\ UNCHANGED <<vars, responseVars, updateVars>>

MCSpec == MCInit /\ [][MCNext]_<<part, vars, responseVars, updateVars, schemaVars>>

\* What the update check tells its consumers, and what a stop of the process leaves of a
\* schema that is being brought up to date.
TellsAndStarts == (part = "updates" => UpdatesTold) /\ (part = "schema" => SchemaWhole)

=============================================================================
