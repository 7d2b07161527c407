----------------------------- MODULE CatalogReplay -----------------------------
(***************************************************************************)
(* packages/catalog_datasets and packages/backtest_runner: a job names a   *)
(* dataset when it is created; when it runs, the specification and the     *)
(* dataset are looked up again, the catalog directory is checked and then  *)
(* read three times (ticks, manifest, engine) while the registry, the      *)
(* specification and the directory may change under it.                    *)
(*                                                                         *)
(* A directory is "plain", reached through a symlink or outside the root   *)
(* ("linked"), or contains a symlink ("inner"); each change of it gets a   *)
(* new version.  The hash of a compilation stands for its specification.   *)
(* Registries without a root refuse everything and are left out.           *)
(***************************************************************************)
EXTENDS Naturals
CONSTANTS ReplayJobs,    \* the backtest jobs
          CatalogPaths,  \* the catalog directories
          MaxChanges     \* bound on the changes from outside
ASSUME ChangesAssumption == MaxChanges \in Nat
VARIABLES dataset,       \* the registered dataset of the one id in use
          catalogs,      \* the directories
          stored,        \* the specification of the version the jobs name
          replay,        \* the jobs
          changes
replayVars == <<dataset, catalogs, stored, replay, changes>>

SourceModes == {"catalog", "local_fixture", "synthetic_test_kit", "external_mirror_manifest", "user_fetched_manifest"}
\* validate_source_policy: which cache and which manifest a source may have.
ValidSource(mode, cache, ref) ==
  /\ mode \in {"external_mirror_manifest", "user_fetched_manifest"} => ref = "builder artifact" /\ cache = "refreshable_manifest"
  /\ mode \in {"local_fixture", "synthetic_test_kit"} => cache = "fixture"
Asked == [instrument : {"btc", "eth"}, data_type : {"quote_ticks", "bars"}, timeframe : {"1m", "5m"}]
CatalogDataset ==
  [owner : {"p", "q"}, fields : Asked, path : CatalogPaths,
   mode : {m \in SourceModes : \E cache \in {"read_only", "refreshable_manifest", "fixture"}, ref \in {"none", "builder artifact"} : ValidSource(m, cache, ref)}]
Specification == [instrument : {"btc", "eth"}, revision : {1, 2}]
Usual == [instrument |-> "btc", data_type |-> "quote_ticks", timeframe |-> "1m"]

NotCreated == [pc |-> "none"]
ReplayInit ==
  /\ \E p \in CatalogPaths : dataset = [owner |-> "p", fields |-> Usual, path |-> p, mode |-> "catalog"]
  /\ catalogs = [p \in CatalogPaths |-> [version |-> 0, state |-> "plain", ticks |-> TRUE]]
  /\ stored = [instrument |-> "btc", revision |-> 1]
  /\ replay = [j \in ReplayJobs |-> NotCreated]
  /\ changes = 0

\* CatalogPathPolicy.validate_path
validate_path(p) == catalogs[p].state # "linked"

(***************************************************************************)
(* What changes around a job.                                              *)
(***************************************************************************)
Changing == changes < MaxChanges /\ changes' = changes + 1
\* register_dataset replaces whatever has the id, of any project.
register_dataset ==
  /\ Changing
  /\ \E d \in CatalogDataset : /\ validate_path(d.path) /\ d.mode \in {"catalog", "synthetic_test_kit"}
                               /\ dataset' = d
  /\ UNCHANGED <<catalogs, stored, replay>>
EditSpec ==
  /\ Changing
  /\ stored' \in Specification
  /\ UNCHANGED <<dataset, catalogs, replay>>
RewriteCatalog ==
  /\ Changing
  /\ \E p \in CatalogPaths, state \in {"plain", "linked", "inner"}, ticks \in BOOLEAN :
       catalogs' = [catalogs EXCEPT ![p] = [version |-> @.version + 1, state |-> state, ticks |-> ticks]]
  /\ UNCHANGED <<dataset, stored, replay>>

(***************************************************************************)
(* A job.                                                                  *)
(***************************************************************************)
\* select_dataset
select_dataset(owner, asked) == dataset.owner = owner /\ dataset.fields = asked /\ validate_path(dataset.path)
SetReplay(j, v) == replay' = [replay EXCEPT ![j] = v] /\ UNCHANGED <<dataset, catalogs, stored, changes>>
Refused(j, why) == SetReplay(j, [replay[j] EXCEPT !.pc = why])
\* create_backtest_job_payload with strict scope: the hash is the client's.
CreateJob(j) ==
  /\ replay[j].pc = "none"
  /\ \E owner \in {"p", "q"}, asked \in Asked, hash \in Specification :
       /\ select_dataset(owner, asked)
       /\ SetReplay(j, [pc |-> "queued", owner |-> owner, asked |-> asked, hash |-> hash, spec |-> hash, dataset |-> dataset,
                        resolved |-> 0, ticks |-> 0, manifest |-> 0, engine |-> 0, linked |-> FALSE])
\* run_backtest_job_payload: the specification, compiled and compared ...
LoadSpec(j) ==
  /\ replay[j].pc = "queued"
  /\ IF stored = replay[j].hash THEN SetReplay(j, [replay[j] EXCEPT !.pc = "select", !.spec = stored]) ELSE Refused(j, "refused")
\* Faulty: the dataset was compared when the job was created.
SelectDataset_byId(j) ==
  /\ replay[j].pc = "select"
  /\ SetReplay(j, [replay[j] EXCEPT !.pc = "check", !.dataset = dataset])
\* ... and the dataset, selected again.
SelectDataset(j) ==
  /\ replay[j].pc = "select"
  /\ IF select_dataset(replay[j].owner, replay[j].asked) THEN SetReplay(j, [replay[j] EXCEPT !.pc = "check", !.dataset = dataset])
     ELSE Refused(j, "refused")

\* _assert_dataset_matches_spec
DatasetMatchesSpec(d, spec) == d.fields.instrument = spec.instrument /\ d.fields.data_type = "quote_ticks"
\* run_strategy_spec_catalog_replay: its checks (RuntimeError when the pinned
\* NautilusTrader is not the installed one) ...
CheckReplay(j) ==
  LET p == replay[j].dataset.path IN
  /\ replay[j].pc = "check"
  /\ \/ Refused(j, "raised")
     \/ IF replay[j].dataset.owner = replay[j].owner /\ DatasetMatchesSpec(replay[j].dataset, replay[j].spec) /\ validate_path(p)
        THEN SetReplay(j, [replay[j] EXCEPT !.pc = "read", !.resolved = catalogs[p].version])
        ELSE Refused(j, "failed")
ReadLinked(j) == replay[j].linked \/ catalogs[replay[j].dataset.path].state = "linked"
\* ... the ticks for the rule graph ...
ReadTicks(j) ==
  LET c == catalogs[replay[j].dataset.path] IN
  /\ replay[j].pc = "read"
  /\ IF c.ticks THEN SetReplay(j, [replay[j] EXCEPT !.pc = "manifest", !.ticks = c.version, !.linked = ReadLinked(j)])
     ELSE Refused(j, "failed")
\* ... the manifest of the files, which only objects to links below the
\* directory ...
TakeManifest(j) ==
  LET c == catalogs[replay[j].dataset.path] IN
  /\ replay[j].pc = "manifest"
  /\ IF c.state = "inner" THEN Refused(j, "failed")
     ELSE SetReplay(j, [replay[j] EXCEPT !.pc = "engine", !.manifest = c.version, !.linked = ReadLinked(j)])
\* ... and the engine, which reads the catalog for itself.
RunEngine(j) ==
  LET c == catalogs[replay[j].dataset.path] IN
  /\ replay[j].pc = "engine"
  /\ \/ Refused(j, "raised")
     \/ SetReplay(j, [replay[j] EXCEPT !.pc = "done", !.engine = c.version, !.linked = ReadLinked(j)])

ReplayNext ==
  \/ register_dataset \/ EditSpec \/ RewriteCatalog
  \/ \E j \in ReplayJobs : CreateJob(j) \/ LoadSpec(j) \/ SelectDataset(j) \/ CheckReplay(j) \/ ReadTicks(j) \/ TakeManifest(j) \/ RunEngine(j)
ReplaySpec == ReplayInit /\ [][ReplayNext]_replayVars
-------------------------------------------------------------------------------
ReplayTypeOK ==
  /\ dataset \in CatalogDataset /\ stored \in Specification /\ changes \in 0..MaxChanges
  /\ \A j \in ReplayJobs : replay[j].pc \in {"none", "queued", "refused", "select", "check", "failed", "raised", "read", "manifest", "engine", "done"}
Replayed == {j \in ReplayJobs : replay[j].pc = "done"}

\* The evidence of a replay is about what the job asked for: its project's
\* dataset with the job's fields, and the specification whose hash it names,
\* although the registry and the version may have changed since it was created
\* (run_backtest_job_payload, run_strategy_spec_catalog_replay).
ReplayedAsAsked ==
  \A j \in Replayed : LET r == replay[j] IN
    /\ r.dataset.owner = r.owner /\ r.dataset.fields = r.asked
    /\ r.spec = r.hash /\ r.spec.instrument = r.asked.instrument /\ r.asked.data_type = "quote_ticks"

\* The manifest checksum is never that of files older than the ticks the rule
\* graph saw, so with a directory that stayed as it was between the first and
\* the last read it describes what the engine ran on (the order of the three
\* reads).
ManifestNotOlder ==
  \A j \in Replayed : replay[j].ticks <= replay[j].manifest /\ replay[j].manifest <= replay[j].engine

\* A replay reads through a symlink only if the directory became one after its
\* own check: the check at registration is not enough (_resolve_catalog_path).
LinkedOnlyAfterCheck ==
  \A j \in Replayed : replay[j].linked => replay[j].resolved < replay[j].engine

\* A replay is evidence of its own job: the dataset, the specification, the
\* manifest and the directory are the ones that were asked for and checked
\* (run_strategy_spec_catalog_replay).
ReplayIsOfJob == ReplayedAsAsked /\ ManifestNotOlder /\ LinkedOnlyAfterCheck
===============================================================================
