------------------------------- MODULE MCRecords -------------------------------
(***************************************************************************)
(* What the Builder keeps: the evidence ledger, promotion requests, the    *)
(* promotion ledger and the lifecycle of a version, the workflow spine,    *)
(* the in-memory strategy repository, the files of the execution lane, and *)
(* the catalog datasets with their replays.  They share no state: a        *)
(* behaviour exercises one of them, chosen at the start.                   *)
(***************************************************************************)
EXTENDS EvidenceLedger, Promotions, WorkflowSpine, StrategyMemory, LaneFiles, CatalogReplay
VARIABLE part
mcVars == <<evidenceVars, promotionVars, spineVars, memoryVars, fileVars, replayVars, part>>

Kinds == <<"validation_report", "backtest_result">>

MCInit ==
  /\ part \in {"evidence", "request", "ledger", "lifecycle", "spine", "memory", "files", "replay"}
  /\ EvidenceInit /\ PromotionInit /\ SpineInit /\ MemoryInit /\ FilesInit /\ ReplayInit
  /\ part # "evidence" => backend = "memory"
  /\ part # "request" => artifactStore = "none"
  /\ part # "spine" => store = "memory"
  /\ part # "memory" => \A t \in Threads : call[t].op = "save" /\ call[t].who = "alice"
  /\ part # "replay" => dataset.path = CHOOSE p \in CatalogPaths : TRUE
MCNext ==
  /\ UNCHANGED part
  /\ \/ part = "evidence" /\ EvidenceNext /\ UNCHANGED <<promotionVars, spineVars, memoryVars, fileVars, replayVars>>
     \/ part = "request" /\ RequestNext /\ UNCHANGED <<evidenceVars, ledgerVars, lifecycleVars, spineVars, memoryVars, fileVars, replayVars>>
     \/ part = "ledger" /\ LedgerNext /\ UNCHANGED <<evidenceVars, requestVars, lifecycleVars, spineVars, memoryVars, fileVars, replayVars>>
     \/ part = "lifecycle" /\ LifecycleNext /\ UNCHANGED <<evidenceVars, requestVars, ledgerVars, spineVars, memoryVars, fileVars, replayVars>>
     \/ part = "spine" /\ SpineNext /\ UNCHANGED <<evidenceVars, promotionVars, memoryVars, fileVars, replayVars>>
     \/ part = "memory" /\ MemoryNext /\ UNCHANGED <<evidenceVars, promotionVars, spineVars, fileVars, replayVars>>
     \/ part = "files" /\ FilesNext /\ UNCHANGED <<evidenceVars, promotionVars, spineVars, memoryVars, replayVars>>
     \/ part = "replay" /\ ReplayNext /\ UNCHANGED <<evidenceVars, promotionVars, spineVars, memoryVars, fileVars>>
MCSpec == MCInit /\ [][MCNext]_mcVars

\* Rows, requests, transactions, records, files and jobs keep their types
\* (EvidenceRef, ArtifactRecord, LifecycleStage, WorkflowResultRecord,
\* StrategySpec, ExecutionCredentialSlot, CatalogDataset).
TypeOK == EvidenceTypeOK /\ PromotionTypeOK /\ SpineTypeOK /\ MemoryTypeOK /\ FilesTypeOK /\ ReplayTypeOK
===============================================================================
