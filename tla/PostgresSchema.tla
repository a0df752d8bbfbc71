--------------------------- MODULE PostgresSchema ---------------------------
(***************************************************************************)
(* postgres::migrate(): every process that opens the PostgreSQL backend or *)
(* job store first brings the schema up to date on a connection of its     *)
(* own, under a session-level advisory lock.                               *)
(***************************************************************************)
EXTENDS Integers, FiniteSets

CONSTANTS
    Openers,         \* processes that open the database
    NoOpener,        \* nobody holds the advisory lock
    LastVersion,     \* of the schema: 3 in the code
    MaxSchemaFaults  \* bound on failing statements and lost connections

ASSUME SchemaAssumption ==
    /\ NoOpener \notin Openers
    /\ LastVersion \in Nat \ {0}
    /\ MaxSchemaFaults \in Nat

Versions == 1..LastVersion

VARIABLES
    tables,       \* versions whose tables exist
    recorded,     \* rows of schema_migrations
    advisory,     \* the session that holds the advisory lock
    step,         \* of an opener: its step
    present,      \* versions it read as applied
    schemaFaults,
    conflicted    \* openers that failed without a fault

schemaVars == <<tables, recorded, advisory, step, present, schemaFaults, conflicted>>

SchemaInit ==
    /\ tables = {} /\ recorded = {}
    /\ advisory = NoOpener
    /\ step = [p \in Openers |-> "start"]
    /\ present = [p \in Openers |-> {}]
    /\ schemaFaults = 0 /\ conflicted = {}

(* Mutant: the lock is tried, and its answer is not looked at. *)
LockIgnored(p) ==
    /\ step[p] = "start"
    /\ advisory' = IF advisory = NoOpener THEN p ELSE advisory
    /\ step' = [step EXCEPT ![p] = "locked"]
    /\ UNCHANGED <<tables, recorded, present, schemaFaults, conflicted>>

(* pg_advisory_lock() waits until the lock is free. *)
Lock(p) ==
    /\ step[p] = "start" /\ advisory = NoOpener
    /\ advisory' = p
    /\ step' = [step EXCEPT ![p] = "locked"]
    /\ UNCHANGED <<tables, recorded, present, schemaFaults, conflicted>>

(* Version 1 is created if missing, and the applied versions are read. *)
ReadApplied(p) ==
    /\ step[p] = "locked"
    /\ tables' = tables \cup {1}
    /\ present' = [present EXCEPT ![p] = recorded]
    /\ step' = [step EXCEPT ![p] = "applying"]
    /\ UNCHANGED <<recorded, advisory, schemaFaults, conflicted>>

Missing(p) == Versions \ present[p]

(* The next missing version, tables and row in one transaction.  A row that
   another session inserted meanwhile is a duplicate key. *)
Apply(p) ==
    /\ step[p] = "applying" /\ Missing(p) # {}
    /\ LET v == CHOOSE v \in Missing(p) : \A w \in Missing(p) : v <= w
       IN  IF v \in recorded
           THEN /\ step' = [step EXCEPT ![p] = "failed"]
                /\ conflicted' = conflicted \cup {p}
                /\ advisory' = IF advisory = p THEN NoOpener ELSE advisory
                /\ UNCHANGED <<tables, recorded, present>>
           ELSE /\ tables' = tables \cup {v}
                /\ recorded' = recorded \cup {v}
                /\ present' = [present EXCEPT ![p] = @ \cup {v}]
                /\ UNCHANGED <<advisory, step, conflicted>>
    /\ UNCHANGED schemaFaults

Unlock(p) ==
    /\ step[p] = "applying" /\ Missing(p) = {}
    /\ advisory' = IF advisory = p THEN NoOpener ELSE advisory
    /\ step' = [step EXCEPT ![p] = "open"]
    /\ UNCHANGED <<tables, recorded, present, schemaFaults, conflicted>>

(* A statement fails and the lock is given back, or the session ends and the
   server does both: a transaction under way leaves nothing. *)
MigrationFails(p) ==
    /\ step[p] \in {"start", "locked", "applying"}
    /\ schemaFaults < MaxSchemaFaults
    /\ schemaFaults' = schemaFaults + 1
    /\ advisory' = IF advisory = p THEN NoOpener ELSE advisory
    /\ step' = [step EXCEPT ![p] = "failed"]
    /\ present' = [present EXCEPT ![p] = {}]
    /\ UNCHANGED <<tables, recorded, conflicted>>

(* A failed process is started again. *)
OpenAgain(p) ==
    /\ step[p] = "failed"
    /\ step' = [step EXCEPT ![p] = "start"]
    /\ present' = [present EXCEPT ![p] = {}]
    /\ UNCHANGED <<tables, recorded, advisory, schemaFaults, conflicted>>

SchemaNext ==
    \E p \in Openers :
        \/ Lock(p) \/ ReadApplied(p) \/ Apply(p) \/ Unlock(p)
        \/ MigrationFails(p) \/ OpenAgain(p)
-----------------------------------------------------------------------------
(* Processes that start together, fail half-way and start again never apply
   a version twice: no opener fails but for a fault, an open process has
   every version, and the recorded versions are those without a gap. *)
SchemaAgreed ==
    /\ conflicted = {}
    /\ \A p \in Openers : step[p] = "open" => recorded = Versions /\ tables = Versions
    /\ \A v \in recorded : 1..v \subseteq recorded \cap tables
=============================================================================
