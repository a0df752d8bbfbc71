-------------------------- MODULE PostgresService --------------------------
(***************************************************************************)
(* A process that serves the PostgreSQL backend while others start up and  *)
(* migrate the schema of the same database.                                *)
(***************************************************************************)
EXTENDS PostgresSchema, PostgresBackend

CONSTANT Server    \* the opener whose clients call the backend

ASSUME ServerAssumption == Server \in Openers

vars == <<schemaVars, backendVars>>

Init == SchemaInit /\ BackendInit

Next ==
    \/ SchemaNext /\ UNCHANGED backendVars
    \/ step[Server] = "open" /\ BackendNext /\ UNCHANGED schemaVars

Spec == Init /\ [][Next]_vars
=============================================================================
