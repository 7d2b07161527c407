------------------------------ MODULE Promotions ------------------------------
(***************************************************************************)
(* Promotion requests (packages/promotions/service.py) over the artifact   *)
(* store, the promotion ledger (packages/postgres/                         *)
(* promotion_ledger_repository.py) and the lifecycle of a strategy version *)
(* (packages/lifecycle).                                                   *)
(*                                                                         *)
(* A request names one artifact per kind of evidence and the service reads *)
(* them one after the other while writers put artifacts.  An artifact is   *)
(* its type, whether it is bound to the version and compile hash of the    *)
(* request, and its checksum, the number of the write that stored it.      *)
(***************************************************************************)
EXTENDS Naturals, Sequences, FiniteSets, SequencesExt

CONSTANTS EvidenceKeys, \* the required kinds of evidence, in the order read
          MaxWrites,    \* bound: artifacts put
          Entries       \* promotions recorded in the ledger

VARIABLES artifactStore,\* "none", "local" or "s3"
          artifact,     \* artifact behind the reference of each kind
          written,      \* every artifact ever put behind it
          writes,       \* number of puts
          request,      \* the promotion request: state, position, checksums
          ledger, audit,\* committed rows
          tx,           \* transaction of each recording
          stage, frozen, earned \* a version: stage, freeze, evidence presented
promotionVars == <<artifactStore, artifact, written, writes, request, ledger, audit, tx,
                   stage, frozen, earned>>
requestVars == <<artifactStore, artifact, written, writes, request>>
ledgerVars == <<ledger, audit, tx>>
lifecycleVars == <<stage, frozen, earned>>

-----------------------------------------------------------------------------
Keys == ToSet(EvidenceKeys)
ASSUME PromotionAssumption == EvidenceKeys \in Seq(Keys) /\ MaxWrites \in Nat
NoArtifact == [type |-> "none"]
Artifacts == [type : Keys, bound : BOOLEAN, sum : 1..MaxWrites]

\* Requests hold "builder" references (artifact://builder/) or others; S3
\* hands out s3:// references only
RefPrefix == IF artifactStore = "s3" THEN "s3" ELSE "builder"

\* put_json: the local store replaces the artifact of a reference, S3 keys
\* are content addressed, so what a reference names is written once
PutJson(k) ==
  /\ writes < MaxWrites
  /\ artifactStore = "s3" => artifact[k] = NoArtifact
  /\ writes' = writes + 1
  /\ \E t \in Keys, b \in BOOLEAN :
       LET a == [type |-> t, bound |-> b, sum |-> writes + 1]
       IN  /\ artifact' = [artifact EXCEPT ![k] = a]
           /\ written' = [written EXCEPT ![k] = @ \cup {a}]
  /\ UNCHANGED <<artifactStore, request>>

\* create_shadow_request and create_final_candidate: the claims are checked
\* before any evidence; without a store nothing else is
CreateRequest(final) ==
  /\ request.state = "new"
  /\ \E versioned \in BOOLEAN, compiled \in BOOLEAN, compatible \in BOOLEAN, approved \in BOOLEAN :
       request' = [request EXCEPT !.final = final, !.approved = approved, !.state =
         IF ~versioned \/ ~compiled \/ ~compatible \/ (final /\ ~approved) THEN "refused"
         ELSE IF artifactStore = "none" THEN "accepted" ELSE "reading"]
  /\ UNCHANGED <<artifactStore, artifact, written, writes>>

\* get_json, the type and _assert_evidence_binding
Fits(k, a) == a # NoArtifact /\ a.type = k /\ a.bound

ReadEvidence ==
  /\ request.state = "reading" /\ request.at <= Len(EvidenceKeys)
  /\ LET k == EvidenceKeys[request.at]
         a == artifact[k]
     IN  request' = IF RefPrefix # "builder" \/ ~Fits(k, a)
                    THEN [request EXCEPT !.state = "refused"]
                    ELSE [request EXCEPT !.at = @ + 1, !.sums[k] = a.sum]
  /\ UNCHANGED <<artifactStore, artifact, written, writes>>

AcceptRequest ==
  /\ request.state = "reading" /\ request.at > Len(EvidenceKeys)
  /\ request' = [request EXCEPT !.state = "accepted"]
  /\ UNCHANGED <<artifactStore, artifact, written, writes>>

-----------------------------------------------------------------------------
\* PromotionLedgerRepository.record_promotion
Modes == {"shadow_only", "signal_preview_only", "paper_replay_candidate"}
Forbidden == {"live_trade_authority", "direct_trade_action_authority", "direct_submit_order_authority"}

RecordPromotion(e) ==
  /\ tx[e].state = "new"
  /\ \E complete \in BOOLEAN, mode \in Modes \cup Forbidden, approved \in BOOLEAN :
       tx' = [tx EXCEPT ![e] = [mode |-> mode, approved |-> approved, state |->
         IF ~complete \/ mode \notin Modes \/ (mode = "paper_replay_candidate" /\ ~approved)
         THEN "rejected" ELSE "begun"]]
  /\ UNCHANGED <<ledger, audit>>

\* Faulty: the insert runs on a pooled connection of its own and commits
InsertLedgerPooled(e) ==
  /\ tx[e].state = "begun"
  /\ tx' = [tx EXCEPT ![e].state = "entered"]
  /\ ledger' = ledger \cup {e}
  /\ UNCHANGED audit

\* Both inserts go through the connection of the transaction: they become
\* visible at the commit, and a failing statement rolls them back
InsertLedger(e) ==
  /\ tx[e].state = "begun"
  /\ tx' = [tx EXCEPT ![e].state = "entered"]
  /\ UNCHANGED <<ledger, audit>>
InsertAudit(e) ==
  /\ tx[e].state = "entered"
  /\ tx' = [tx EXCEPT ![e].state = "committed"]
  /\ ledger' = ledger \cup {e} /\ audit' = audit \cup {e}

RollBack(e) ==
  /\ tx[e].state \in {"begun", "entered"}
  /\ tx' = [tx EXCEPT ![e].state = "failed"]
  /\ UNCHANGED <<ledger, audit>>

-----------------------------------------------------------------------------
\* require_promotion_evidence and promote_stage
Needs == [testing |-> {"validation_passed"},
          beta |-> {"backtest_succeeded", "no_lookahead_passed"},
          final |-> {"shadow_evidence", "gate_compatibility", "manual_approval"}]
Evidence == UNION {Needs[s] : s \in DOMAIN Needs}
Successor == [draft |-> "testing", testing |-> "beta", beta |-> "final"]

MayPromote(from, to, ev) ==
  /\ from \in DOMAIN Successor /\ Successor[from] = to
  /\ Needs[to] \subseteq ev

PromoteStage ==
  \E ev \in SUBSET Evidence, to \in {"draft", "testing", "beta", "final"} :
    /\ Cardinality(ev) <= 3
    /\ MayPromote(stage, to, ev)
    /\ stage' = to /\ earned' = earned \cup ev /\ UNCHANGED frozen

\* freeze_after_backtest_start
FreezeVersion == ~frozen /\ frozen' = TRUE /\ UNCHANGED <<stage, earned>>

-----------------------------------------------------------------------------
PromotionInit ==
  /\ artifactStore \in {"none", "local", "s3"}
  /\ artifact = [k \in Keys |-> NoArtifact] /\ written = [k \in Keys |-> {}] /\ writes = 0
  /\ request = [state |-> "new", at |-> 1, final |-> FALSE, approved |-> FALSE,
                sums |-> [k \in Keys |-> 0]]
  /\ ledger = {} /\ audit = {}
  /\ tx = [e \in Entries |-> [mode |-> "shadow_only", approved |-> FALSE, state |-> "new"]]
  /\ stage = "draft" /\ frozen = FALSE /\ earned = {}

RequestNext == \/ \E k \in Keys : PutJson(k)
               \/ \E final \in BOOLEAN : CreateRequest(final)
               \/ ReadEvidence \/ AcceptRequest
LedgerNext == \E e \in Entries : RecordPromotion(e) \/ InsertLedger(e) \/ InsertAudit(e) \/ RollBack(e)
LifecycleNext == PromoteStage \/ FreezeVersion
PromotionNext == \/ RequestNext /\ UNCHANGED <<ledgerVars, lifecycleVars>>
                 \/ LedgerNext /\ UNCHANGED <<requestVars, lifecycleVars>>
                 \/ LifecycleNext /\ UNCHANGED <<requestVars, ledgerVars>>
PromotionSpec == PromotionInit /\ [][PromotionNext]_promotionVars

PromotionTypeOK ==
  /\ artifactStore \in {"none", "local", "s3"} /\ writes \in 0..MaxWrites
  /\ artifact \in [Keys -> Artifacts \cup {NoArtifact}]
  /\ request \in [state : {"new", "reading", "refused", "accepted"},
                  at : 1..(Len(EvidenceKeys) + 1), final : BOOLEAN, approved : BOOLEAN,
                  sums : [Keys -> 0..MaxWrites]]
  /\ ledger \subseteq Entries /\ audit \subseteq Entries
  /\ stage \in {"draft", "testing", "beta", "final"} /\ frozen \in BOOLEAN

\* A promotion request accepted over a store carries for every kind of
\* evidence the checksum of an artifact of that kind, bound to the version and
\* compile hash, that really was stored there, although artifacts are replaced
\* between its reads (_validate_evidence); a final candidate was approved.
AcceptedIsBound ==
  (request.state = "accepted" /\ artifactStore # "none") =>
    /\ \A k \in Keys : \E a \in written[k] : a.type = k /\ a.bound /\ a.sum = request.sums[k]
    /\ request.final => request.approved

\* No promotion is visible in the ledger without its audit event, nor an audit
\* event without its promotion, whatever statement of record_promotion fails;
\* a paper candidate in the ledger was approved and no entry grants authority.
LedgerIsAudited ==
  /\ ledger = audit
  /\ \A e \in ledger : /\ tx[e].mode \in Modes
                       /\ tx[e].mode = "paper_replay_candidate" => tx[e].approved

\* A version reaches a stage only after the evidence of every stage before it
\* was presented (require_promotion_evidence looks at one transition only).
StageIsEarned ==
  /\ stage \in {"testing", "beta", "final"} => Needs["testing"] \subseteq earned
  /\ stage \in {"beta", "final"} => Needs["beta"] \subseteq earned
  /\ stage = "final" => Needs["final"] \subseteq earned

\* Nothing is promoted on evidence it does not have: neither a request, nor an
\* entry of the ledger, nor a stage (PromotionService, record_promotion,
\* promote_stage).
PromotionsAreBacked == AcceptedIsBound /\ LedgerIsAudited /\ StageIsEarned
===============================================================================
