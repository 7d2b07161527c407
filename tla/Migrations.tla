------------------------------- MODULE Migrations -------------------------------
(***************************************************************************)
(* packages/postgres/migrations.py: apply_migrations, run by every API     *)
(* process at its start and by scripts/apply_builder_migrations.py, and    *)
(* rollback.  The connection is in autocommit mode: the SQL of a migration *)
(* and the row that records it are two commits, and a process may die      *)
(* between any two of them.                                                *)
(*                                                                         *)
(* The schema is the set of its tables, columns and indexes, as far as     *)
(* migrations tell them apart; a migration is what it adds and needs, and  *)
(* what its `down` drops and needs.                                        *)
(***************************************************************************)
EXTENDS Naturals, FiniteSets, Sequences, FiniteSetsExt
CONSTANTS Runners,     \* the processes that apply or roll back
          MaxRollbacks, MaxDeaths
VARIABLES schema,      \* what exists
          recorded,    \* the versions in schema_migrations
          runner,      \* the processes
          history      \* how often something was rolled back, and died
migrationVars == <<schema, recorded, runner, history>>

Migration(adds, needs, drops, downNeeds) == [adds |-> adds, needs |-> needs, drops |-> drops, downNeeds |-> downNeeds]
InitialSchema ==
  Migration({"strategies", "strategies.scope", "adapters", "schema_migrations"}, {},
            {"schema_migrations", "adapters", "strategies", "strategies.scope", "strategies.scope index"}, {"schema_migrations"})
LedgerAndAudit ==
  Migration({"ledger", "audit_events"}, {"schema_migrations"},
            {"ledger", "audit_events", "audit_events.project_id", "audit index"}, {"schema_migrations"})
AuditProject ==
  Migration({"audit_events.project_id", "audit index"}, {"audit_events"},
            {"audit_events.project_id", "audit index"}, {"audit_events"})
JobsAndConfig == Migration({"backtest_jobs", "builder_config", "workflow_results"}, {},
                           {"backtest_jobs", "builder_config", "workflow_results"}, {})
\* Its `down` drops the columns that InitialSchema already creates.
ScopeColumns == Migration({"strategies.scope", "strategies.scope index"}, {"strategies"},
                          {"strategies.scope", "strategies.scope index"}, {"strategies"})
AuditProjectNotNull == Migration({"audit_events.project_id", "audit index"}, {"audit_events"}, {}, {"audit_events.project_id"})
EvidenceRefs == Migration({"evidence_refs"}, {}, {"evidence_refs"}, {})
MIGRATIONS == <<InitialSchema, LedgerAndAudit, AuditProject, JobsAndConfig, ScopeColumns, AuditProjectNotNull, EvidenceRefs>>
Versions == DOMAIN MIGRATIONS

MigrationInit ==
  /\ schema = {} /\ recorded = {}
  /\ runner = [r \in Runners |-> [pc |-> "idle", next |-> 0, left |-> 0]]
  /\ history = [rollbacks |-> 0, deaths |-> 0]

Set(r, v) == runner' = [runner EXCEPT ![r] = v]
Done(r) == Set(r, [pc |-> "idle", next |-> 0, left |-> 0])

\* current_version: MAX(version), or 0
Current == IF "schema_migrations" \in schema THEN Max(recorded \cup {0}) ELSE 0

\* ensure_schema and current_version, then the loop over the versions above it
StartApply(r) ==
  /\ runner[r].pc = "idle"
  /\ schema' = schema \cup {"schema_migrations"}
  /\ Set(r, [pc |-> "up", next |-> Current + 1, left |-> 0])
  /\ UNCHANGED <<recorded, history>>
Fails(r) == Done(r) /\ UNCHANGED <<schema, recorded, history>>
\* Faulty: the migration is recorded first and run afterwards.
ApplyUp_recordFirst(r) ==
  /\ runner[r].pc = "up" /\ runner[r].next \in Versions
  /\ recorded' = recorded \cup {runner[r].next}
  /\ Set(r, [runner[r] EXCEPT !.pc = "record"])
  /\ UNCHANGED <<schema, history>>
\* The statements of one `up` are one query, hence all or nothing.
ApplyUp(r) ==
  /\ runner[r].pc = "up" /\ runner[r].next \in Versions
  /\ IF MIGRATIONS[runner[r].next].needs \subseteq schema
     THEN /\ schema' = schema \cup MIGRATIONS[runner[r].next].adds
          /\ Set(r, [runner[r] EXCEPT !.pc = "record"])
          /\ UNCHANGED <<recorded, history>>
     ELSE Fails(r)
RecordUp(r) ==
  /\ runner[r].pc = "record"
  /\ IF "schema_migrations" \in schema
     THEN /\ recorded' = recorded \cup {runner[r].next}
          /\ Set(r, [pc |-> "up", next |-> runner[r].next + 1, left |-> 0])
          /\ UNCHANGED <<schema, history>>
     ELSE Fails(r)
FinishApply(r) ==
  /\ runner[r].pc = "up" /\ runner[r].next \notin Versions
  /\ Done(r) /\ UNCHANGED <<schema, recorded, history>>

\* rollback(steps): the `down` of the last `steps` versions up to the current
\* one.  Only the `down` of the first migration touches the recorded rows.
StartRollback(r) ==
  /\ runner[r].pc = "idle" /\ history.rollbacks < MaxRollbacks
  /\ schema' = schema \cup {"schema_migrations"}
  /\ \E steps \in {1, 3, Len(MIGRATIONS)} :
       Set(r, [pc |-> "down", next |-> Current, left |-> steps])
  /\ history' = [history EXCEPT !.rollbacks = @ + 1]
  /\ UNCHANGED recorded
RunDown(r) ==
  /\ runner[r].pc = "down"
  /\ IF runner[r].next = 0 \/ runner[r].left = 0 THEN Done(r) /\ UNCHANGED <<schema, recorded, history>>
     ELSE IF ~(MIGRATIONS[runner[r].next].downNeeds \subseteq schema) THEN Fails(r)
     ELSE /\ schema' = schema \ MIGRATIONS[runner[r].next].drops
          /\ recorded' = IF runner[r].next = 1 THEN {} ELSE recorded
          /\ Set(r, [pc |-> "down", next |-> runner[r].next - 1, left |-> runner[r].left - 1])
          /\ UNCHANGED history
\* The process dies, or a statement fails for another reason.
Die(r) == /\ runner[r].pc # "idle" /\ history.deaths < MaxDeaths
          /\ Done(r)
          /\ history' = [history EXCEPT !.deaths = @ + 1]
          /\ UNCHANGED <<schema, recorded>>

MigrationNext ==
  \E r \in Runners : StartApply(r) \/ ApplyUp(r) \/ RecordUp(r) \/ FinishApply(r) \/ StartRollback(r) \/ RunDown(r) \/ Die(r)
MigrationSpec == MigrationInit /\ [][MigrationNext]_migrationVars
-------------------------------------------------------------------------------
MigrationTypeOK == /\ recorded \subseteq Versions
                   /\ schema \subseteq UNION {MIGRATIONS[v].adds : v \in Versions}
                   /\ \A r \in Runners : runner[r].next \in 0..Len(MIGRATIONS) + 1

\* Until something is rolled back, a version recorded in schema_migrations is
\* in the schema with everything below it, however the processes overlap and
\* wherever one dies: `up` is committed before its row, and repeats harmlessly.
RecordedIsApplied ==
  history.rollbacks = 0 => \A v \in recorded : 1..v \subseteq recorded /\ MIGRATIONS[v].adds \subseteq schema

\* Until something is rolled back, apply_migrations returns with every
\* migration in the schema, whatever an earlier run left half done.
AppliedIsComplete ==
  \A r \in Runners : FinishApply(r) /\ history.rollbacks = 0 =>
    \A v \in Versions : v \in recorded /\ MIGRATIONS[v].adds \subseteq schema

\* Until something is rolled back, schema and schema_migrations agree and a
\* finished run is complete (apply_migrations).
MigrationsAreWhole == [][RecordedIsApplied' /\ AppliedIsComplete]_migrationVars
===============================================================================
