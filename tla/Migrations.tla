----------------------------- MODULE Migrations -----------------------------
(***************************************************************************)
(* internal/persistence/sqlite/migrations/runner.go: the schema brought up *)
(* to date as the process starts, one transaction for each step.  The      *)
(* process may stop and any statement may fail in between; the next start  *)
(* goes on with what is in the file.  A release knows the steps up to its  *)
(* target, and an older one may be started on the file of a newer one.     *)
(*                                                                         *)
(* A step is known by how often it was applied; what it does is left out.  *)
(* A database may come from before the versions were kept: it has the      *)
(* tables of the first step and version 0.                                 *)
(***************************************************************************)
EXTENDS Integers

CONSTANTS LastStep,    \* targetSchemaVersion of the newest release
          MaxStarts    \* bound: starts of the process

ASSUME MigrationsAssumption == LastStep \in Nat \ {0} /\ MaxStarts \in Nat

VARIABLES userVersion, \* PRAGMA user_version
          applied,     \* how often each step was applied to the database
          runner,      \* Apply: where it is, the target of its release, its "version"
          starts       \* how often the process was started

schemaVars == <<userVersion, applied, runner, starts>>

Down == [at |-> "down", target |-> 0, version |-> 0]

\* tableExists(nodes)
HasNodes == applied[1] > 0

\* The release that is started reads the version.
ReadSchemaVersion(target) ==
    /\ runner.at = "down" /\ starts < MaxStarts
    /\ starts' = starts + 1
    /\ runner' = [at |-> IF userVersion = 0 THEN "look" ELSE "steps",
                  target |-> target, version |-> userVersion]
    /\ UNCHANGED <<userVersion, applied>>

LookForNodes ==
    /\ runner.at = "look"
    /\ runner' = [runner EXCEPT !.at = IF HasNodes THEN "mark" ELSE "steps"]
    /\ UNCHANGED <<userVersion, applied, starts>>

\* setSchemaVersion(1), which no transaction is around.
MarkFirst ==
    /\ runner.at = "mark"
    /\ userVersion' = 1
    /\ runner' = [runner EXCEPT !.at = "steps", !.version = 1]
    /\ UNCHANGED <<applied, starts>>

\* Mutant: the version is set before the transaction of the step, which may not come.
ApplyMigrationMarkedFirst ==
    /\ runner.at = "steps" /\ runner.version < runner.target
    /\ userVersion' = runner.version + 1
    /\ runner' = [runner EXCEPT !.version = @ + 1]
    /\ applied' \in {applied, [applied EXCEPT ![runner.version + 1] = @ + 1]}
    /\ UNCHANGED starts

\* applyMigration: the step and its version in one transaction.
ApplyMigration ==
    /\ runner.at = "steps" /\ runner.version < runner.target
    /\ applied' = [applied EXCEPT ![runner.version + 1] = @ + 1]
    /\ userVersion' = runner.version + 1
    /\ runner' = [runner EXCEPT !.version = @ + 1]
    /\ UNCHANGED starts

\* Apply returns, and the service starts.
Serve ==
    /\ runner.at = "steps" /\ runner.version >= runner.target
    /\ runner' = [runner EXCEPT !.at = "serving"]
    /\ UNCHANGED <<userVersion, applied, starts>>

\* A statement fails and takes the process with it, or the process is stopped; an open
\* transaction is rolled back.
StopProcess ==
    /\ runner.at # "down"
    /\ runner' = Down
    /\ UNCHANGED <<userVersion, applied, starts>>

SchemaInit ==
    /\ \/ userVersion \in 0..LastStep /\ applied = [n \in 1..LastStep |-> IF n <= userVersion THEN 1 ELSE 0]
       \/ userVersion = 0 /\ applied = [n \in 1..LastStep |-> IF n = 1 THEN 1 ELSE 0]
    /\ runner = Down
    /\ starts = 0

SchemaNext ==
    \/ \E target \in 1..LastStep : ReadSchemaVersion(target)
    \/ LookForNodes \/ MarkFirst \/ ApplyMigration \/ Serve
    \/ StopProcess

SchemaSpec == SchemaInit /\ [][SchemaNext]_schemaVars

----------------------------------------------------------------------------
(* Properties                                                              *)

\* Wherever the process stopped, no step was applied twice, none was left out below the
\* version of the file, and none above it was applied but the tables of an old database;
\* a release only serves a file that has all the steps it knows.
SchemaWhole ==
    /\ \A n \in 1..LastStep :
          /\ n <= userVersion => applied[n] = 1
          /\ n > userVersion => applied[n] = 0 \/ (n = 1 /\ userVersion = 0 /\ applied[n] = 1)
    /\ runner.at = "serving" => \A n \in 1..runner.target : applied[n] = 1

=============================================================================
