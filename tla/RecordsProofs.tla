---------------------------- MODULE RecordsProofs ----------------------------
(***************************************************************************)
(* What the Builder keeps, for every number of requests, threads, entries  *)
(* and posted references: proofs about EvidenceLedger, Promotions,         *)
(* WorkflowSpine, StrategyMemory, LaneFiles and CatalogReplay, a section   *)
(* each.                                                                   *)
(***************************************************************************)
EXTENDS MCRecords, FiniteSetTheorems, TLAPS

(***************************************************************************)
(* EvidenceLedger: a status that the verifier gave is its answer for the   *)
(* content that is stored, with both repositories.                         *)
(***************************************************************************)
Underway(v) == step[v] \in {"read", "reread"}
\* A verification under way found a reference, and references never vanish.
Found == \A v \in Verifiers : Underway(v) => row \in Refs /\ copy[v] \in Refs
\* As long as nothing was posted meanwhile, it judged what is stored now.
JudgedStored ==
  ~reposted => \A v \in Verifiers : Underway(v) =>
    /\ copy[v].project = row.project /\ copy[v].content = row.content
    /\ verdict[v] = Verify(row.content, row.project, row.project)
EvidenceInv == EvidenceTypeOK /\ Found /\ JudgedStored /\ StatusMatchesContent

\* Whatever the verifier looks at, its answer is a status.
LEMMA VerifyType ==
  ASSUME NEW c \in Contents, NEW p, NEW q
  PROVE  Verify(c, p, q) \in VerificationStatus
BY DEF Verify, VerificationStatus

\* Neither repository makes a reference of anything but a reference.
LEMMA SavedType ==
  ASSUME EvidenceTypeOK, NEW p \in Projects, NEW c \in Posted, NEW s \in {"unverified", "verified"}
  PROVE  SavedRow(p, c, s) \in Refs /\ SavedRow(p, c, s).posted = TRUE
<1>1. c \in Contents
  BY DEF Posted
<1>2. CASE backend = "memory" \/ row = NoRef
  BY <1>1, <1>2 DEF SavedRow, Refs, VerificationStatus
<1>3. CASE ~(backend = "memory" \/ row = NoRef)
  <2>1. row \in Refs /\ row.content \in Contents
    BY <1>3 DEF EvidenceTypeOK, Refs
  <2> QED BY <1>1, <1>3, <2>1 DEF SavedRow, Refs, Contents, VerificationStatus
<1> QED BY <1>2, <1>3

\* A posted reference comes with its own status, and marks every verification
\* under way.
LEMMA CreateKeeps == ASSUME EvidenceInv, CreateEvidence PROVE EvidenceInv'
<1> USE DEF EvidenceInv
<1>1. PICK p \in Projects, c \in Posted, s \in {"unverified", "verified"} : row' = SavedRow(p, c, s)
  BY DEF CreateEvidence
<1>2. row' \in Refs /\ row'.posted = TRUE
  BY <1>1, SavedType
<1>3. reposted' \in BOOLEAN /\ (~reposted' => \A v \in Verifiers : ~Underway(v)')
  BY DEF CreateEvidence, Underway, EvidenceTypeOK
<1>4. EvidenceTypeOK'
  BY <1>2, <1>3, SavesAssumption DEF CreateEvidence, EvidenceTypeOK
<1>5. Found'
  BY <1>2 DEF CreateEvidence, Found, Underway
<1>6. JudgedStored'
  BY <1>3 DEF JudgedStored
<1>7. StatusMatchesContent'
  BY <1>2 DEF StatusMatchesContent
<1> QED BY <1>4, <1>5, <1>6, <1>7

\* A verification starts from the reference that is stored.
LEMMA ReadKeeps == ASSUME EvidenceInv, NEW v \in Verifiers, VerifyRead(v) PROVE EvidenceInv'
<1> USE DEF EvidenceInv
<1>0. UNCHANGED <<backend, row, saves, reposted>>
  BY DEF VerifyRead
<1>1. PICK context \in Projects :
        IF row # NoRef /\ row.project = context
        THEN /\ copy' = [copy EXCEPT ![v] = row]
             /\ verdict' = [verdict EXCEPT ![v] = Verify(row.content, row.project, context)]
             /\ step' = [step EXCEPT ![v] = IF backend = "memory" THEN "read" ELSE "reread"]
        ELSE /\ step' = [step EXCEPT ![v] = "done"]
             /\ UNCHANGED <<copy, verdict>>
  BY DEF VerifyRead
<1>2. CASE row # NoRef /\ row.project = context
  <2>1. row \in Refs /\ row.content \in Contents
    BY <1>2 DEF EvidenceTypeOK, Refs
  <2>2. Verify(row.content, row.project, context) \in VerificationStatus
    BY <2>1, VerifyType
  <2>3. EvidenceTypeOK'
    BY <1>0, <1>1, <1>2, <2>1, <2>2 DEF EvidenceTypeOK
  <2>4. Found'
    BY <1>0, <1>1, <1>2, <2>1 DEF EvidenceTypeOK, Found, Underway
  <2>5. JudgedStored'
    BY <1>0, <1>1, <1>2 DEF EvidenceTypeOK, JudgedStored, Underway
  <2> QED BY <1>0, <2>3, <2>4, <2>5 DEF StatusMatchesContent
<1>3. CASE ~(row # NoRef /\ row.project = context)
  <2>1. EvidenceTypeOK' /\ Found' /\ JudgedStored'
    BY <1>0, <1>1, <1>3 DEF EvidenceTypeOK, Found, JudgedStored, Underway
  <2> QED BY <1>0, <2>1 DEF StatusMatchesContent
<1> QED BY <1>2, <1>3

\* The second read of the in-memory repository finds what the first one found.
LEMMA RereadKeeps == ASSUME EvidenceInv, NEW v \in Verifiers, VerifyReread(v) PROVE EvidenceInv'
<1> USE DEF EvidenceInv
<1>1. UNCHANGED <<backend, row, saves, verdict, reposted>> /\ row \in Refs /\ step[v] = "read"
  BY DEF VerifyReread, Found, Underway
<1>2. EvidenceTypeOK'
  BY <1>1 DEF VerifyReread, EvidenceTypeOK
<1>3. Found'
  BY <1>1 DEF VerifyReread, EvidenceTypeOK, Found, Underway
<1>4. JudgedStored'
  BY <1>1 DEF VerifyReread, EvidenceTypeOK, JudgedStored, Underway
<1> QED BY <1>1, <1>2, <1>3, <1>4 DEF StatusMatchesContent

\* The result is written next to the content it was computed for.
LEMMA WriteKeeps == ASSUME EvidenceInv, NEW v \in Verifiers, VerifyWrite(v) PROVE EvidenceInv'
<1> USE DEF EvidenceInv
<1>1. /\ UNCHANGED <<backend, saves, copy, verdict, reposted>>
      /\ step[v] = "reread" /\ step' = [step EXCEPT ![v] = "done"]
      /\ row \in Refs /\ copy[v] \in Refs /\ verdict[v] \in VerificationStatus
  BY DEF VerifyWrite, EvidenceTypeOK, Found, Underway
<1>2. CASE row' = row
  <2>1. EvidenceTypeOK' /\ Found' /\ JudgedStored'
    BY <1>1, <1>2 DEF EvidenceTypeOK, Found, JudgedStored, Underway
  <2> QED BY <1>1, <1>2, <2>1 DEF StatusMatchesContent
<1>3. CASE row' = Updated(v)
  <2>1. row' \in Refs /\ row'.status = verdict[v]
    BY <1>1, <1>3 DEF Updated, Refs
  <2>2. ~reposted => row'.project = row.project /\ row'.content = row.content
    BY <1>1, <1>3 DEF Updated, JudgedStored, Underway
  <2>3. EvidenceTypeOK'
    BY <1>1, <2>1 DEF EvidenceTypeOK
  <2>4. Found'
    BY <1>1, <2>1 DEF EvidenceTypeOK, Found, Underway
  <2>5. JudgedStored'
    BY <1>1, <2>2 DEF EvidenceTypeOK, JudgedStored, Underway
  <2>6. StatusMatchesContent'
    BY <1>1, <2>1, <2>2 DEF StatusMatchesContent, JudgedStored, Underway
  <2> QED BY <2>3, <2>4, <2>5, <2>6
<1> QED BY <1>2, <1>3 DEF VerifyWrite

\* The invariant is inductive.
LEMMA EvidenceInductive == EvidenceSpec => []EvidenceInv
<1>1. EvidenceInit => EvidenceInv
  <2> SUFFICES ASSUME EvidenceInit PROVE EvidenceInv
    OBVIOUS
  <2>1. EvidenceTypeOK
    <3>1. saves \in 0..MaxSaves
      BY SavesAssumption DEF EvidenceInit
    <3>2. "unverified" \in VerificationStatus /\ NoRef \in Refs \cup {NoRef}
      BY DEF VerificationStatus
    <3>3. verdict \in [Verifiers -> VerificationStatus] /\ copy \in [Verifiers -> Refs \cup {NoRef}]
      BY <3>2 DEF EvidenceInit
    <3>4. step \in [Verifiers -> {"new", "read", "reread", "done"}]
      BY DEF EvidenceInit
    <3> QED BY <3>1, <3>2, <3>3, <3>4 DEF EvidenceInit, EvidenceTypeOK
  <2>2. \A v \in Verifiers : ~Underway(v)
    BY DEF EvidenceInit, Underway
  <2>3. StatusMatchesContent
    BY DEF EvidenceInit, StatusMatchesContent
  <2> QED BY <2>1, <2>2, <2>3 DEF EvidenceInv, Found, JudgedStored
<1>2. EvidenceInv /\ [EvidenceNext]_evidenceVars => EvidenceInv'
  <2>1. ASSUME EvidenceInv, UNCHANGED evidenceVars PROVE EvidenceInv'
    BY <2>1 DEF evidenceVars, EvidenceInv, EvidenceTypeOK, Found, JudgedStored, StatusMatchesContent, Underway
  <2> QED BY <2>1, CreateKeeps, ReadKeeps, RereadKeeps, WriteKeeps DEF EvidenceNext
<1> QED BY <1>1, <1>2, PTL DEF EvidenceSpec

\* Rows, copies and results keep their types (EvidenceRef,
\* EvidenceVerificationStatus).
THEOREM EvidenceTypeCorrect == EvidenceSpec => []EvidenceTypeOK
<1>1. EvidenceInv => EvidenceTypeOK
  BY DEF EvidenceInv
<1> QED BY <1>1, EvidenceInductive, PTL

\* However many verifications of one reference overlap, in memory or on
\* Postgres: a status the verifier gave is its answer for the content stored,
\* unless a reference was posted while one of them was on its way
\* (verify_evidence of routes/evidence.py).
THEOREM StatusAlwaysMatches == EvidenceSpec => []StatusMatchesContent
<1>1. EvidenceInv => StatusMatchesContent
  BY DEF EvidenceInv
<1> QED BY <1>1, EvidenceInductive, PTL

(***************************************************************************)
(* Promotions: nothing is promoted on evidence it does not have.           *)
(***************************************************************************)
TxStates == {"new", "rejected", "begun", "entered", "committed", "failed"}
\* What was read for a kind of evidence is an artifact that was stored for it.
ReadFor(k) == \E a \in written[k] : a.type = k /\ a.bound /\ a.sum = request.sums[k]

RequestInv ==
  /\ written \in [Keys -> SUBSET Artifacts]
  /\ \A k \in Keys : artifact[k] # NoArtifact => artifact[k] \in written[k]
  /\ request.state = "new" => request.at = 1
  /\ request.state \in {"reading", "accepted"} => (request.final => request.approved)
  /\ request.state = "reading" => \A i \in 1..(request.at - 1) : ReadFor(EvidenceKeys[i])
LedgerInv ==
  /\ tx \in [Entries -> [mode : Modes \cup Forbidden, approved : BOOLEAN, state : TxStates]]
  /\ \A e \in Entries : tx[e].state \in {"begun", "entered", "committed"} =>
       tx[e].mode \in Modes /\ (tx[e].mode = "paper_replay_candidate" => tx[e].approved)
  /\ \A e \in ledger : tx[e].state = "committed"
PromotionInv == PromotionTypeOK /\ RequestInv /\ LedgerInv /\ PromotionsAreBacked

\* At the start nothing was put, asked for, recorded or promoted.
LEMMA PromotionInitInv == PromotionInit => PromotionInv
<1> SUFFICES ASSUME PromotionInit PROVE PromotionInv
  OBVIOUS
<1> USE PromotionAssumption DEF PromotionInit
<1>1. request \in [state : {"new", "reading", "refused", "accepted"},
                  at : 1..(Len(EvidenceKeys) + 1), final : BOOLEAN, approved : BOOLEAN,
                  sums : [Keys -> 0..MaxWrites]]
  OBVIOUS
<1>2. PromotionTypeOK
  <2>1. artifact \in [Keys -> Artifacts \cup {NoArtifact}]
    OBVIOUS
  <2>2. writes \in 0..MaxWrites /\ artifactStore \in {"none", "local", "s3"}
    OBVIOUS
  <2>3. ledger \subseteq Entries /\ audit \subseteq Entries
        /\ stage \in {"draft", "testing", "beta", "final"} /\ frozen \in BOOLEAN
    OBVIOUS
  <2> HIDE DEF PromotionInit
  <2> QED
    BY <1>1, <2>1, <2>2, <2>3 DEF PromotionTypeOK
<1>3. RequestInv
  BY DEF RequestInv
<1>4. tx \in [Entries -> [mode : Modes \cup Forbidden, approved : BOOLEAN, state : TxStates]]
  BY DEF Modes, TxStates
<1>5. LedgerInv
  BY <1>4 DEF LedgerInv
<1>6. PromotionsAreBacked
  BY DEF PromotionsAreBacked, AcceptedIsBound, LedgerIsAudited, StageIsEarned
<1> QED
  BY <1>2, <1>3, <1>5, <1>6 DEF PromotionInv

\* Putting an artifact forgets none that was ever put, so what a request read
\* before stays evidence.
LEMMA PutKeeps ==
  ASSUME PromotionInv, NEW k \in Keys, PutJson(k), UNCHANGED <<ledgerVars, lifecycleVars>>
  PROVE  PromotionInv'
<1> USE PromotionAssumption
<1>1. PICK a \in Artifacts : /\ artifact' = [artifact EXCEPT ![k] = a]
                             /\ written' = [written EXCEPT ![k] = @ \cup {a}]
  <2>1. \A t \in Keys, b \in BOOLEAN : [type |-> t, bound |-> b, sum |-> writes + 1] \in Artifacts
    BY DEF PutJson, PromotionInv, PromotionTypeOK, Artifacts
  <2> QED
    BY <2>1 DEF PutJson
<1>2. request' = request /\ artifactStore' = artifactStore /\ writes' = writes + 1
      /\ writes < MaxWrites
  BY DEF PutJson
<1>3. PromotionTypeOK'
  BY <1>1, <1>2 DEF PromotionInv, PromotionTypeOK, ledgerVars, lifecycleVars
<1>4. \A q \in Keys : written[q] \subseteq written'[q]
  BY <1>1 DEF PromotionInv, RequestInv
<1>5. \A q \in Keys : ReadFor(q) => ReadFor(q)'
  BY <1>2, <1>4 DEF ReadFor
<1>6. request.at \in 1..(Len(EvidenceKeys) + 1)
      /\ \A i \in 1..Len(EvidenceKeys) : EvidenceKeys[i] \in Keys
  BY DEF PromotionInv, PromotionTypeOK
<1>7. RequestInv'
  <2>1. written' \in [Keys -> SUBSET Artifacts]
    BY <1>1 DEF PromotionInv, RequestInv
  <2>2. \A q \in Keys : artifact'[q] # NoArtifact => artifact'[q] \in written'[q]
    BY <1>1, <1>4 DEF PromotionInv, RequestInv, PromotionTypeOK
  <2>3. request.state = "reading" => \A i \in 1..(request.at - 1) : ReadFor(EvidenceKeys[i])'
    BY <1>5, <1>6 DEF PromotionInv, RequestInv
  <2> QED
    BY <1>2, <2>1, <2>2, <2>3 DEF PromotionInv, RequestInv
<1>8. AcceptedIsBound'
  BY <1>2, <1>5 DEF PromotionInv, PromotionsAreBacked, AcceptedIsBound, ReadFor
<1>9. LedgerInv' /\ LedgerIsAudited' /\ StageIsEarned'
  BY DEF PromotionInv, LedgerInv, PromotionsAreBacked, LedgerIsAudited, StageIsEarned,
         ledgerVars, lifecycleVars
<1> QED
  BY <1>3, <1>7, <1>8, <1>9 DEF PromotionInv, PromotionsAreBacked

\* A request is accepted over a store only when every kind was read.
LEMMA RequestKeeps ==
  ASSUME PromotionInv, UNCHANGED <<ledgerVars, lifecycleVars>>,
         (\E final \in BOOLEAN : CreateRequest(final)) \/ ReadEvidence \/ AcceptRequest
  PROVE  PromotionInv'
<1> USE PromotionAssumption
<1> DEFINE Req == [state : {"new", "reading", "refused", "accepted"},
                   at : 1..(Len(EvidenceKeys) + 1), final : BOOLEAN, approved : BOOLEAN,
                   sums : [Keys -> 0..MaxWrites]]
<1>1. /\ artifactStore' = artifactStore /\ artifact' = artifact /\ written' = written
      /\ writes' = writes
  BY DEF CreateRequest, ReadEvidence, AcceptRequest
<1>2. LedgerInv' /\ LedgerIsAudited' /\ StageIsEarned'
  BY DEF PromotionInv, LedgerInv, PromotionsAreBacked, LedgerIsAudited, StageIsEarned,
         ledgerVars, lifecycleVars
<1>3. request \in Req
  BY DEF PromotionInv, PromotionTypeOK
<1>4. SUFFICES request' \in Req /\ RequestInv' /\ AcceptedIsBound'
  BY <1>1, <1>2 DEF PromotionInv, PromotionTypeOK, PromotionsAreBacked, ledgerVars, lifecycleVars
<1>5. ASSUME NEW final \in BOOLEAN, CreateRequest(final)
      PROVE  request' \in Req /\ RequestInv' /\ AcceptedIsBound'
  <2>1. PICK approved \in BOOLEAN, state \in {"refused", "accepted", "reading"} :
          /\ request' = [request EXCEPT !.final = final, !.approved = approved, !.state = state]
          /\ state # "refused" => (final => approved)
          /\ state = "accepted" => artifactStore = "none"
    BY <1>5 DEF CreateRequest
  <2>2. request' \in Req
    BY <1>3, <2>1
  <2>3. /\ request'.final = final /\ request'.approved = approved /\ request'.state = state
        /\ request'.at = request.at /\ request'.sums = request.sums
    BY <1>3, <2>1
  <2>4. request.at = 1
    BY <1>5 DEF CreateRequest, PromotionInv, RequestInv
  <2>5. RequestInv'
    BY <1>1, <2>1, <2>3, <2>4 DEF PromotionInv, RequestInv
  <2>6. AcceptedIsBound'
    BY <1>1, <2>1, <2>3 DEF AcceptedIsBound
  <2> QED
    BY <2>2, <2>5, <2>6
<1>6. CASE ReadEvidence
  <2> DEFINE k == EvidenceKeys[request.at]
             a == artifact[k]
  <2>1. request.state = "reading" /\ request.at \in 1..Len(EvidenceKeys) /\ k \in Keys
    BY <1>3, <1>6 DEF ReadEvidence
  <2>2. CASE request' = [request EXCEPT !.state = "refused"]
    <3>1. request' \in Req /\ request'.state = "refused"
      BY <1>3, <2>2
    <3> QED
      BY <1>1, <3>1 DEF PromotionInv, RequestInv, AcceptedIsBound
  <2>3. CASE request' = [request EXCEPT !.at = @ + 1, !.sums[k] = a.sum] /\ Fits(k, a)
    <3>1. a \in Artifacts /\ a \in written[k] /\ a.type = k /\ a.bound /\ a.sum \in 1..MaxWrites
      BY <2>1, <2>3 DEF PromotionInv, PromotionTypeOK, RequestInv, Fits, Artifacts
    <3>2. request' \in Req
      <4>1. request.at + 1 \in 1..(Len(EvidenceKeys) + 1) /\ a.sum \in 0..MaxWrites
        BY <2>1, <3>1
      <4>2. \A x \in 1..(Len(EvidenceKeys) + 1), y \in 0..MaxWrites, q \in Keys :
              [request EXCEPT !.at = x, !.sums[q] = y] \in Req
        BY <1>3
      <4> QED
        BY <2>1, <2>3, <4>1, <4>2
    <3>3. /\ request'.at = request.at + 1 /\ request'.state = "reading"
          /\ request'.final = request.final /\ request'.approved = request.approved
          /\ request'.sums = [request.sums EXCEPT ![k] = a.sum]
      BY <1>3, <2>1, <2>3
    <3>4. ASSUME NEW i \in 1..(request'.at - 1)
          PROVE  \E b \in written[EvidenceKeys[i]] :
                   b.type = EvidenceKeys[i] /\ b.bound /\ b.sum = request'.sums[EvidenceKeys[i]]
      <4>1. i \in 1..request.at /\ EvidenceKeys[i] \in Keys
        BY <1>3, <2>1, <3>3
      <4>2. CASE EvidenceKeys[i] = k
        <5>1. request'.sums[k] = a.sum
          BY <1>3, <2>1, <3>3
        <5> QED
          BY <3>1, <4>2, <5>1
      <4>3. CASE EvidenceKeys[i] # k
        <5>1. i \in 1..(request.at - 1)
          BY <2>1, <4>1, <4>3
        <5>2. request'.sums[EvidenceKeys[i]] = request.sums[EvidenceKeys[i]]
          BY <1>3, <3>3, <4>1, <4>3
        <5>3. ReadFor(EvidenceKeys[i])
          BY <2>1, <5>1 DEF PromotionInv, RequestInv
        <5> QED
          BY <5>2, <5>3 DEF ReadFor
      <4> QED
        BY <4>2, <4>3
    <3>5. \A i \in 1..(request'.at - 1) : ReadFor(EvidenceKeys[i])'
      BY <1>1, <3>4 DEF ReadFor
    <3> QED
      BY <1>1, <2>1, <3>2, <3>3, <3>5 DEF PromotionInv, RequestInv, AcceptedIsBound
  <2> QED
    BY <1>6, <2>2, <2>3 DEF ReadEvidence
<1>7. CASE AcceptRequest
  <2>1. /\ request.state = "reading" /\ request.at = Len(EvidenceKeys) + 1
        /\ request' = [request EXCEPT !.state = "accepted"]
    BY <1>3, <1>7 DEF AcceptRequest
  <2>2. /\ request' \in Req /\ request'.state = "accepted" /\ request'.sums = request.sums
        /\ request'.final = request.final /\ request'.approved = request.approved
    BY <1>3, <2>1
  <2>3. \A k \in Keys : \E i \in 1..Len(EvidenceKeys) : k = EvidenceKeys[i]
    BY DEF Keys, ToSet
  <2>4. \A k \in Keys : ReadFor(k)
    BY <2>1, <2>3 DEF PromotionInv, RequestInv
  <2>5. AcceptedIsBound'
    BY <1>1, <2>1, <2>2, <2>4 DEF AcceptedIsBound, ReadFor, PromotionInv, RequestInv
  <2> QED
    BY <1>1, <2>1, <2>2, <2>5 DEF PromotionInv, RequestInv
<1> QED
  BY <1>5, <1>6, <1>7

\* Only a transaction that was checked and did both inserts shows in the ledger.
LEMMA LedgerKeeps ==
  ASSUME PromotionInv, UNCHANGED <<requestVars, lifecycleVars>>, LedgerNext
  PROVE  PromotionInv'
<1>1. RequestInv' /\ AcceptedIsBound' /\ StageIsEarned'
  BY DEF PromotionInv, RequestInv, ReadFor, PromotionsAreBacked, AcceptedIsBound, StageIsEarned,
         requestVars, lifecycleVars
<1> DEFINE Tx == [mode : Modes \cup Forbidden, approved : BOOLEAN, state : TxStates]
<1>2. tx \in [Entries -> Tx]
  BY DEF PromotionInv, LedgerInv
<1>3. ledger \subseteq Entries /\ ledger = audit
  BY DEF PromotionInv, PromotionTypeOK, PromotionsAreBacked, LedgerIsAudited
<1>4. SUFFICES ASSUME NEW e \in Entries,
                      RecordPromotion(e) \/ InsertLedger(e) \/ InsertAudit(e) \/ RollBack(e)
               PROVE  LedgerInv' /\ ledger' \subseteq Entries /\ LedgerIsAudited'
  BY <1>1 DEF LedgerNext, PromotionInv, PromotionTypeOK, PromotionsAreBacked, LedgerIsAudited,
         requestVars, lifecycleVars
<1>5. PICK t \in Tx : /\ tx' = [tx EXCEPT ![e] = t]
                      /\ t.state \in {"begun", "entered", "committed"} =>
                           t.mode \in Modes /\ (t.mode = "paper_replay_candidate" => t.approved)
                      /\ tx[e].state # "committed"
                      /\ \/ ledger' = ledger /\ audit' = audit
                         \/ /\ ledger' = ledger \cup {e} /\ audit' = audit \cup {e}
                            /\ t.state = "committed"
  <2>1. ASSUME NEW st \in TxStates PROVE [tx[e] EXCEPT !.state = st] \in Tx
    BY <1>2, <2>1
  <2>2. CASE RecordPromotion(e)
    <3>1. PICK mode \in Modes \cup Forbidden, approved \in BOOLEAN, st \in {"rejected", "begun"} :
            /\ tx' = [tx EXCEPT ![e] = [mode |-> mode, approved |-> approved, state |-> st]]
            /\ st = "begun" => mode \in Modes /\ (mode = "paper_replay_candidate" => approved)
      BY <2>2 DEF RecordPromotion
    <3>2. [mode |-> mode, approved |-> approved, state |-> st] \in Tx
      BY DEF TxStates
    <3> QED
      BY <2>2, <3>1, <3>2 DEF RecordPromotion
  <2>3. CASE InsertLedger(e)
    BY <1>2, <2>1, <2>3 DEF InsertLedger, TxStates, PromotionInv, LedgerInv
  <2>4. CASE InsertAudit(e)
    BY <1>2, <2>1, <2>4 DEF InsertAudit, TxStates, PromotionInv, LedgerInv
  <2>5. CASE RollBack(e)
    BY <1>2, <2>1, <2>5 DEF RollBack, TxStates, PromotionInv, LedgerInv
  <2> QED
    BY <1>4, <2>2, <2>3, <2>4, <2>5
<1>6. tx' \in [Entries -> Tx]
  BY <1>2, <1>5
<1>7. e \notin ledger
  BY <1>5 DEF PromotionInv, LedgerInv
<1>8. LedgerInv'
  BY <1>2, <1>3, <1>5, <1>6, <1>7 DEF PromotionInv, LedgerInv
<1>9. LedgerIsAudited'
  BY <1>2, <1>3, <1>5, <1>7 DEF PromotionInv, PromotionsAreBacked, LedgerIsAudited
<1> QED
  BY <1>3, <1>5, <1>8, <1>9

\* A stage follows its predecessor, so it adds its evidence to what was there.
LEMMA LifecycleKeeps ==
  ASSUME PromotionInv, UNCHANGED <<requestVars, ledgerVars>>, LifecycleNext
  PROVE  PromotionInv'
<1>1. RequestInv' /\ AcceptedIsBound' /\ LedgerInv' /\ LedgerIsAudited'
  BY DEF PromotionInv, RequestInv, ReadFor, PromotionsAreBacked, AcceptedIsBound, LedgerInv,
         LedgerIsAudited, requestVars, ledgerVars
<1>2. stage' \in {"draft", "testing", "beta", "final"} /\ frozen' \in BOOLEAN
  BY DEF PromotionInv, PromotionTypeOK, LifecycleNext, PromoteStage, FreezeVersion
<1>3. StageIsEarned'
  <2>1. CASE PromoteStage
    <3>1. PICK ev, to : MayPromote(stage, to, ev) /\ stage' = to /\ earned' = earned \cup ev
      BY <2>1 DEF PromoteStage
    <3>2. \/ stage = "draft" /\ to = "testing"
          \/ stage = "testing" /\ to = "beta"
          \/ stage = "beta" /\ to = "final"
      BY <3>1 DEF MayPromote, Successor
    <3>3. Needs[to] \subseteq ev
      BY <3>1 DEF MayPromote
    <3> QED
      BY <3>1, <3>2, <3>3 DEF PromotionInv, PromotionsAreBacked, StageIsEarned
  <2>2. CASE FreezeVersion
    BY <2>2 DEF FreezeVersion, PromotionInv, PromotionsAreBacked, StageIsEarned
  <2> QED
    BY <2>1, <2>2 DEF LifecycleNext
<1> QED
  BY <1>1, <1>2, <1>3 DEF PromotionInv, PromotionTypeOK, PromotionsAreBacked,
         requestVars, ledgerVars

\* The invariant of the promotions is inductive.
LEMMA PromotionNextInv == PromotionInv /\ [PromotionNext]_promotionVars => PromotionInv'
<1> SUFFICES ASSUME PromotionInv, [PromotionNext]_promotionVars PROVE PromotionInv'
  OBVIOUS
<1>1. CASE RequestNext /\ UNCHANGED <<ledgerVars, lifecycleVars>>
  BY <1>1, PutKeeps, RequestKeeps DEF RequestNext
<1>2. CASE UNCHANGED promotionVars
  BY <1>2 DEF promotionVars, PromotionInv, PromotionTypeOK, RequestInv, ReadFor, LedgerInv,
         PromotionsAreBacked, AcceptedIsBound, LedgerIsAudited, StageIsEarned
<1> QED
  BY <1>1, <1>2, LedgerKeeps, LifecycleKeeps DEF PromotionNext

\* A request accepted over a store names, for every kind of evidence, an
\* artifact that was really stored and fits; the promotion ledger and its audit
\* log agree; a version has presented the evidence of every stage up to its own.
THEOREM PromotionsAlwaysBacked == PromotionSpec => []PromotionsAreBacked
<1>1. PromotionInv => PromotionsAreBacked
  BY DEF PromotionInv
<1> QED
  BY PromotionInitInv, PromotionNextInv, <1>1, PTL DEF PromotionSpec

(***************************************************************************)
(* CatalogReplay: a replay is evidence of its own job.                     *)
(***************************************************************************)
Catalog == [version : Nat, state : {"plain", "linked", "inner"}, ticks : BOOLEAN]
ReplayPcs == {"queued", "refused", "select", "check", "failed", "raised", "read", "manifest",
              "engine", "done"}
ReplayJob ==
  [pc : ReplayPcs, owner : {"p", "q"}, asked : Asked, hash : Specification, spec : Specification,
   dataset : CatalogDataset, resolved : Nat, ticks : Nat, manifest : Nat, engine : Nat, linked : BOOLEAN]

\* What is known of a job after each of its steps: r is the job, c the catalog
\* of its dataset as it is now.
Pursued(r, c) ==
  /\ r.pc \in {"select", "check", "read", "manifest", "engine", "done"} => r.spec = r.hash
  /\ r.pc \in {"check", "read", "manifest", "engine", "done"} =>
       r.dataset.owner = r.owner /\ r.dataset.fields = r.asked
  /\ r.pc \in {"read", "manifest", "engine", "done"} =>
       r.spec.instrument = r.asked.instrument /\ r.asked.data_type = "quote_ticks"
  /\ r.pc \in {"queued", "select", "check"} => r.linked = FALSE
  /\ r.pc \in {"read", "manifest", "engine"} =>
       /\ r.resolved <= c.version
       /\ r.linked = TRUE \/ c.state = "linked" => r.resolved < c.version
  /\ r.pc \in {"manifest", "engine"} => r.ticks <= c.version
  /\ r.pc = "engine" => r.ticks <= r.manifest /\ r.manifest <= c.version
  /\ r.pc = "done" => /\ r.ticks <= r.manifest /\ r.manifest <= r.engine
                      /\ r.linked = TRUE => r.resolved < r.engine

Pursuing(j) ==
  replay[j] # NotCreated => replay[j] \in ReplayJob /\ Pursued(replay[j], catalogs[replay[j].dataset.path])
ReplayInv ==
  /\ dataset \in CatalogDataset /\ stored \in Specification /\ changes \in 0..MaxChanges
  /\ catalogs \in [CatalogPaths -> Catalog]
  /\ replay = [j \in ReplayJobs |-> replay[j]]
  /\ \A j \in ReplayJobs : Pursuing(j)

\* At the start there is a usual dataset, a plain directory and no job.
LEMMA ReplayInitInv == ReplayInit => ReplayInv
<1> SUFFICES ASSUME ReplayInit PROVE ReplayInv
  OBVIOUS
<1>1. dataset \in CatalogDataset
  <2>1. ValidSource("catalog", "read_only", "none") /\ "catalog" \in SourceModes
    BY DEF ValidSource, SourceModes
  <2>2. Usual \in Asked
    BY DEF Usual, Asked
  <2>3. \A p \in CatalogPaths :
          [owner |-> "p", fields |-> Usual, path |-> p, mode |-> "catalog"] \in CatalogDataset
    BY <2>1, <2>2 DEF CatalogDataset
  <2> QED
    BY <2>3 DEF ReplayInit
<1>2. stored \in Specification /\ changes \in 0..MaxChanges
  BY ChangesAssumption DEF ReplayInit, Specification
<1>3. catalogs \in [CatalogPaths -> Catalog]
  BY DEF ReplayInit, Catalog
<1>4. replay = [j \in ReplayJobs |-> replay[j]] /\ \A j \in ReplayJobs : Pursuing(j)
  BY DEF ReplayInit, Pursuing
<1> QED
  BY <1>1, <1>2, <1>3, <1>4 DEF ReplayInv

\* A directory that changes gets a higher version, so what was read of it is
\* older and a link found later was not there at the check.
LEMMA ChangeKeeps ==
  ASSUME ReplayInv, register_dataset \/ EditSpec \/ RewriteCatalog
  PROVE  ReplayInv'
<1>1. changes' \in 0..MaxChanges /\ replay' = replay
  BY ChangesAssumption DEF register_dataset, EditSpec, RewriteCatalog, Changing, ReplayInv
<1>2. dataset' \in CatalogDataset /\ stored' \in Specification
  BY DEF register_dataset, EditSpec, RewriteCatalog, ReplayInv
<1>3. /\ catalogs' \in [CatalogPaths -> Catalog]
      /\ \A p \in CatalogPaths : catalogs'[p] = catalogs[p] \/ catalogs'[p].version = catalogs[p].version + 1
  <2>1. CASE RewriteCatalog
    <3>1. PICK p \in CatalogPaths, state \in {"plain", "linked", "inner"}, ticks \in BOOLEAN :
            catalogs' = [catalogs EXCEPT ![p] = [version |-> @.version + 1, state |-> state, ticks |-> ticks]]
      BY <2>1 DEF RewriteCatalog
    <3>2. catalogs[p].version + 1 \in Nat
      BY DEF ReplayInv, Catalog
    <3>3. [version |-> catalogs[p].version + 1, state |-> state, ticks |-> ticks] \in Catalog
      BY <3>2 DEF Catalog
    <3> QED
      BY <3>1, <3>3 DEF ReplayInv
  <2>2. CASE catalogs' = catalogs
    BY <2>2 DEF ReplayInv
  <2> QED
    BY <2>1, <2>2 DEF register_dataset, EditSpec
<1>4. ASSUME NEW j \in ReplayJobs, replay[j] # NotCreated
      PROVE  Pursued(replay[j], catalogs'[replay[j].dataset.path])
  <2>1. replay[j] \in ReplayJob /\ Pursued(replay[j], catalogs[replay[j].dataset.path])
    BY <1>4 DEF ReplayInv, Pursuing
  <2>2. replay[j].dataset.path \in CatalogPaths
    BY <2>1 DEF ReplayJob, CatalogDataset
  <2>3. PICK c, d \in Catalog : c = catalogs[replay[j].dataset.path] /\ d = catalogs'[replay[j].dataset.path]
    BY <1>3, <2>2 DEF ReplayInv
  <2>4. c.version \in Nat /\ d.version \in Nat /\ (d = c \/ d.version = c.version + 1)
    BY <1>3, <2>2, <2>3 DEF Catalog
  <2>5. /\ replay[j].resolved \in Nat /\ replay[j].ticks \in Nat
        /\ replay[j].manifest \in Nat /\ replay[j].engine \in Nat
    BY <2>1 DEF ReplayJob
  <2> QED
    BY <2>1, <2>3, <2>4, <2>5 DEF Pursued
<1> QED
  BY <1>1, <1>2, <1>3, <1>4 DEF ReplayInv, Pursuing

\* A job moves on to v, and nothing else changes.
LEMMA Advance ==
  ASSUME ReplayInv, NEW j \in ReplayJobs, NEW v \in ReplayJob,
         Pursued(v, catalogs[v.dataset.path]), SetReplay(j, v)
  PROVE  ReplayInv'
<1>1. /\ dataset' = dataset /\ catalogs' = catalogs /\ stored' = stored /\ changes' = changes
      /\ replay' = [replay EXCEPT ![j] = v]
  BY DEF SetReplay
<1>2. replay' = [i \in ReplayJobs |-> replay'[i]]
  BY <1>1 DEF ReplayInv
<1>3. replay'[j] = v /\ \A i \in ReplayJobs : i # j => replay'[i] = replay[i]
  BY <1>1 DEF ReplayInv
<1>4. \A i \in ReplayJobs : replay'[i] # NotCreated =>
         replay'[i] \in ReplayJob /\ Pursued(replay'[i], catalogs[replay'[i].dataset.path])
  BY <1>3 DEF ReplayInv, Pursuing
<1> QED
  BY <1>1, <1>2, <1>4 DEF ReplayInv, Pursuing

\* A job that is refused, fails or raises makes no claim.
LEMMA RefusedKeeps ==
  ASSUME ReplayInv, NEW j \in ReplayJobs, replay[j] \in ReplayJob,
         NEW why \in {"refused", "failed", "raised"}, Refused(j, why)
  PROVE  ReplayInv'
<1> DEFINE v == [replay[j] EXCEPT !.pc = why]
<1>1. v \in ReplayJob /\ v.pc = why
  BY DEF ReplayJob, ReplayPcs
<1>2. Pursued(v, catalogs[v.dataset.path])
  BY <1>1 DEF Pursued
<1> QED
  BY <1>1, <1>2, Advance DEF Refused

\* A job is created and taken through its steps one at a time; what is read of
\* its directory is at most as old as the read before.
LEMMA JobKeeps ==
  ASSUME ReplayInv, NEW j \in ReplayJobs,
         \/ CreateJob(j) \/ LoadSpec(j) \/ SelectDataset(j) \/ CheckReplay(j)
         \/ ReadTicks(j) \/ TakeManifest(j) \/ RunEngine(j)
  PROVE  ReplayInv'
<1>1. CASE CreateJob(j)
  <2>1. PICK owner \in {"p", "q"}, asked \in Asked, hash \in Specification :
          SetReplay(j, [pc |-> "queued", owner |-> owner, asked |-> asked, hash |-> hash, spec |-> hash,
                        dataset |-> dataset, resolved |-> 0, ticks |-> 0, manifest |-> 0, engine |-> 0,
                        linked |-> FALSE])
    BY <1>1 DEF CreateJob
  <2> DEFINE v == [pc |-> "queued", owner |-> owner, asked |-> asked, hash |-> hash, spec |-> hash,
                   dataset |-> dataset, resolved |-> 0, ticks |-> 0, manifest |-> 0, engine |-> 0,
                   linked |-> FALSE]
  <2>2. v \in ReplayJob
    BY DEF ReplayJob, ReplayPcs, ReplayInv
  <2>3. Pursued(v, catalogs[v.dataset.path])
    BY DEF Pursued
  <2> QED
    BY <2>1, <2>2, <2>3, Advance
<1> SUFFICES ASSUME \/ LoadSpec(j) \/ SelectDataset(j) \/ CheckReplay(j)
                    \/ ReadTicks(j) \/ TakeManifest(j) \/ RunEngine(j)
             PROVE  ReplayInv'
  BY <1>1
<1>2. replay[j] # NotCreated
  BY DEF LoadSpec, SelectDataset, CheckReplay, ReadTicks, TakeManifest, RunEngine, NotCreated
<1>3. PICK r \in ReplayJob : r = replay[j] /\ Pursued(r, catalogs[r.dataset.path])
  BY <1>2 DEF ReplayInv, Pursuing
<1>4. PICK c \in Catalog : c = catalogs[r.dataset.path]
  BY <1>3 DEF ReplayInv, ReplayJob, CatalogDataset
<1>5. /\ c.version \in Nat /\ r.resolved \in Nat /\ r.ticks \in Nat /\ r.manifest \in Nat
      /\ r.engine \in Nat /\ r.linked \in BOOLEAN
  BY <1>3, <1>4 DEF Catalog, ReplayJob
<1>6. CASE \E why \in {"refused", "failed", "raised"} : Refused(j, why)
  BY <1>3, <1>6, RefusedKeeps
<1>7. CASE LoadSpec(j) /\ stored = r.hash /\ SetReplay(j, [replay[j] EXCEPT !.pc = "select", !.spec = stored])
  <2> DEFINE v == [r EXCEPT !.pc = "select", !.spec = stored]
  <2>1. v \in ReplayJob
    BY DEF ReplayJob, ReplayPcs, ReplayInv
  <2>2. v.pc = "select" /\ v.spec = stored /\ v.hash = r.hash /\ v.linked = r.linked
    BY DEF ReplayJob
  <2>3. r.pc = "queued"
    BY <1>3, <1>7 DEF LoadSpec
  <2>4. Pursued(v, catalogs[v.dataset.path])
    BY <1>3, <1>7, <2>2, <2>3 DEF Pursued
  <2> QED
    BY <1>3, <1>7, <2>1, <2>4, Advance
<1>8. CASE SelectDataset(j) /\ SetReplay(j, [replay[j] EXCEPT !.pc = "check", !.dataset = dataset])
           /\ select_dataset(r.owner, r.asked)
  <2> DEFINE v == [r EXCEPT !.pc = "check", !.dataset = dataset]
  <2>1. v \in ReplayJob
    BY DEF ReplayJob, ReplayPcs, ReplayInv
  <2>2. /\ v.dataset = dataset /\ v.pc = "check" /\ v.spec = r.spec /\ v.hash = r.hash
        /\ v.owner = r.owner /\ v.asked = r.asked /\ v.linked = r.linked
    BY DEF ReplayJob
  <2>3. Pursued(v, catalogs[v.dataset.path])
    BY <1>3, <1>8, <2>2 DEF SelectDataset, select_dataset, Pursued
  <2> QED
    BY <1>3, <1>8, <2>1, <2>3, Advance
<1>9. CASE /\ CheckReplay(j) /\ c.state # "linked"
           /\ DatasetMatchesSpec(r.dataset, r.spec)
           /\ SetReplay(j, [replay[j] EXCEPT !.pc = "read", !.resolved = c.version])
  <2> DEFINE v == [r EXCEPT !.pc = "read", !.resolved = c.version]
  <2>1. v \in ReplayJob
    BY <1>5 DEF ReplayJob, ReplayPcs
  <2>2. /\ v.dataset = r.dataset /\ v.pc = "read" /\ v.spec = r.spec /\ v.hash = r.hash
        /\ v.owner = r.owner /\ v.asked = r.asked /\ v.linked = r.linked /\ v.resolved = c.version
    BY DEF ReplayJob
  <2>3. r.pc = "check"
    BY <1>3, <1>9 DEF CheckReplay
  <2>4. Pursued(v, c)
    BY <1>3, <1>5, <1>9, <2>2, <2>3 DEF DatasetMatchesSpec, Pursued
  <2> QED
    BY <1>3, <1>4, <1>9, <2>1, <2>2, <2>4, Advance
<1>10. CASE ReadTicks(j) /\ SetReplay(j, [replay[j] EXCEPT !.pc = "manifest", !.ticks = c.version, !.linked = ReadLinked(j)])
  <2> DEFINE v == [r EXCEPT !.pc = "manifest", !.ticks = c.version, !.linked = ReadLinked(j)]
  <2>1. ReadLinked(j) \in BOOLEAN /\ (ReadLinked(j) = TRUE => r.linked = TRUE \/ c.state = "linked")
    BY <1>3, <1>4, <1>5 DEF ReadLinked
  <2>2. v \in ReplayJob
    BY <1>5, <2>1 DEF ReplayJob, ReplayPcs
  <2>3. /\ v.dataset = r.dataset /\ v.pc = "manifest" /\ v.spec = r.spec /\ v.hash = r.hash
        /\ v.owner = r.owner /\ v.asked = r.asked /\ v.linked = ReadLinked(j) /\ v.resolved = r.resolved
        /\ v.ticks = c.version
    BY DEF ReplayJob
  <2>4. r.pc = "read"
    BY <1>3, <1>10 DEF ReadTicks
  <2>5. Pursued(v, c)
    BY <1>3, <1>4, <1>5, <2>1, <2>3, <2>4 DEF Pursued
  <2> QED
    BY <1>3, <1>4, <1>10, <2>2, <2>3, <2>5, Advance
<1>11. CASE TakeManifest(j) /\ SetReplay(j, [replay[j] EXCEPT !.pc = "engine", !.manifest = c.version, !.linked = ReadLinked(j)])
  <2> DEFINE v == [r EXCEPT !.pc = "engine", !.manifest = c.version, !.linked = ReadLinked(j)]
  <2>1. ReadLinked(j) \in BOOLEAN /\ (ReadLinked(j) = TRUE => r.linked = TRUE \/ c.state = "linked")
    BY <1>3, <1>4, <1>5 DEF ReadLinked
  <2>2. v \in ReplayJob
    BY <1>5, <2>1 DEF ReplayJob, ReplayPcs
  <2>3. /\ v.dataset = r.dataset /\ v.pc = "engine" /\ v.spec = r.spec /\ v.hash = r.hash
        /\ v.owner = r.owner /\ v.asked = r.asked /\ v.linked = ReadLinked(j) /\ v.resolved = r.resolved
        /\ v.ticks = r.ticks /\ v.manifest = c.version
    BY DEF ReplayJob
  <2>4. r.pc = "manifest"
    BY <1>3, <1>11 DEF TakeManifest
  <2>5. Pursued(v, c)
    BY <1>3, <1>4, <1>5, <2>1, <2>3, <2>4 DEF Pursued
  <2> QED
    BY <1>3, <1>4, <1>11, <2>2, <2>3, <2>5, Advance
<1>12. CASE RunEngine(j) /\ SetReplay(j, [replay[j] EXCEPT !.pc = "done", !.engine = c.version, !.linked = ReadLinked(j)])
  <2> DEFINE v == [r EXCEPT !.pc = "done", !.engine = c.version, !.linked = ReadLinked(j)]
  <2>1. ReadLinked(j) \in BOOLEAN /\ (ReadLinked(j) = TRUE => r.linked = TRUE \/ c.state = "linked")
    BY <1>3, <1>4, <1>5 DEF ReadLinked
  <2>2. v \in ReplayJob
    BY <1>5, <2>1 DEF ReplayJob, ReplayPcs
  <2>3. /\ v.dataset = r.dataset /\ v.pc = "done" /\ v.spec = r.spec /\ v.hash = r.hash
        /\ v.owner = r.owner /\ v.asked = r.asked /\ v.linked = ReadLinked(j) /\ v.resolved = r.resolved
        /\ v.ticks = r.ticks /\ v.manifest = r.manifest /\ v.engine = c.version
    BY DEF ReplayJob
  <2>4. r.pc = "engine"
    BY <1>3, <1>12 DEF RunEngine
  <2>5. Pursued(v, c)
    BY <1>3, <1>4, <1>5, <2>1, <2>3, <2>4 DEF Pursued
  <2> QED
    BY <1>3, <1>4, <1>12, <2>2, <2>3, <2>5, Advance
<1> QED
  BY <1>3, <1>4, <1>6, <1>7, <1>8, <1>9, <1>10, <1>11, <1>12
     DEF LoadSpec, SelectDataset, CheckReplay, ReadTicks, TakeManifest, RunEngine, validate_path

\* The invariant of the replays is inductive.
LEMMA ReplayNextInv == ReplayInv /\ [ReplayNext]_replayVars => ReplayInv'
<1> SUFFICES ASSUME ReplayInv, [ReplayNext]_replayVars PROVE ReplayInv'
  OBVIOUS
<1>1. CASE UNCHANGED replayVars
  BY <1>1 DEF replayVars, ReplayInv, Pursuing
<1> QED
  BY <1>1, ChangeKeeps, JobKeeps DEF ReplayNext

\* The dataset and the specification of a finished replay are those the job
\* asked for, its manifest is not older than the ticks nor newer than what the
\* engine ran on, and it read through a link only if the directory was changed
\* after the check, whatever changes around it.
THEOREM ReplayAlwaysOfJob == ReplaySpec => []ReplayIsOfJob
<1>1. ReplayInv => ReplayIsOfJob
  <2> SUFFICES ASSUME ReplayInv, NEW j \in Replayed
               PROVE  /\ replay[j].dataset.owner = replay[j].owner
                      /\ replay[j].dataset.fields = replay[j].asked
                      /\ replay[j].spec = replay[j].hash
                      /\ replay[j].spec.instrument = replay[j].asked.instrument
                      /\ replay[j].asked.data_type = "quote_ticks"
                      /\ replay[j].ticks <= replay[j].manifest
                      /\ replay[j].manifest <= replay[j].engine
                      /\ replay[j].linked => replay[j].resolved < replay[j].engine
    BY DEF ReplayIsOfJob, ReplayedAsAsked, ManifestNotOlder, LinkedOnlyAfterCheck
  <2>1. replay[j].pc = "done" /\ j \in ReplayJobs
    BY DEF Replayed
  <2>2. replay[j] # NotCreated
    BY <2>1 DEF NotCreated
  <2>3. replay[j] \in ReplayJob /\ Pursued(replay[j], catalogs[replay[j].dataset.path])
    BY <2>1, <2>2 DEF ReplayInv, Pursuing
  <2>4. replay[j].linked \in BOOLEAN
    BY <2>3 DEF ReplayJob
  <2> QED
    BY <2>1, <2>3, <2>4 DEF Pursued
<1> QED
  BY ReplayInitInv, ReplayNextInv, <1>1, PTL DEF ReplaySpec

(***************************************************************************)
(* LaneFiles: what the execution lane wrote it reads back.                 *)
(***************************************************************************)
SlotStates == {"new", "rejected", "read", "emptied", "created", "killed"}
Env == [KeyClasses -> Slots \cup {"none"}]
SlotRecord == [at : SlotStates, keys : SUBSET {"venue_key", "venue_secret"}, merged : Env]
FilesTyped ==
  /\ FilesTypeOK
  /\ env \in Env /\ slot \in [Slots -> SlotRecord] /\ overlapped \in BOOLEAN
  /\ saving \in [Commands -> {"none", "queued", "claimed"}]
  /\ reports \in [Commands -> {"absent", "queued", "claimed"}]

\* e holds, for every key of a created slot, the value of a created slot, or of
\* s, which has that key.
Holds(e, s) ==
  \A t \in Slots : slot[t].at = "created" => \A k \in slot[t].keys :
    \E u \in Slots : e[k] = u /\ k \in slot[u].keys /\ (slot[u].at = "created" \/ u = s)

\* As long as creations follow one another and none was killed: one at most is
\* under way, and what it is going to write keeps every key of the others.
SlotsInv ==
  (overlapped = FALSE /\ \A t \in Slots : slot[t].at # "killed") =>
    /\ \A s, t \in Slots : Writing(s) /\ Writing(t) => s = t
    /\ (\A t \in Slots : slot[t].at # "emptied") => Holds(env, "none")
    /\ \A s \in Slots : slot[s].at = "read" =>
         slot[s].merged = [k \in KeyClasses |-> IF k \in slot[s].keys THEN s ELSE env[k]]
    /\ \A s \in Slots : slot[s].at = "emptied" =>
         Holds(slot[s].merged, s) /\ \A k \in slot[s].keys : slot[s].merged[k] = s

FilesInv == FilesTyped /\ SlotsInv /\ SavedLoads

\* At the start no file exists.
LEMMA FilesInitInv == FilesInit => FilesInv
<1> SUFFICES ASSUME FilesInit PROVE FilesInv
  OBVIOUS
<1>1. Nothing \in Env
  BY DEF Nothing, Env
<1>2. slot \in [Slots -> SlotRecord] /\ env \in Env
  BY <1>1 DEF FilesInit, SlotRecord, SlotStates
<1>3. FilesTypeOK
  BY <1>2, FilesAssumption DEF FilesInit, FilesTypeOK, Env
<1>4. FilesTyped
  BY <1>2, <1>3 DEF FilesInit, FilesTyped
<1>5. SlotsInv
  BY DEF FilesInit, SlotsInv, Holds, Writing
<1>6. SavedLoads
  BY DEF FilesInit, SavedLoads, Load
<1> QED
  BY <1>4, <1>5, <1>6 DEF FilesInv

\* A command file that is not being saved and was not hit by a kill holds what
\* was reported.
LEMMA CommandKeeps ==
  ASSUME FilesInv, NEW c \in Commands,
         WriteCommand(c) \/ \E v \in {"queued", "claimed"} : SaveCommand(c, v)
  PROVE  FilesInv'
<1>1. env' = env /\ slot' = slot /\ overlapped' = overlapped /\ kills' = kills
  BY DEF WriteCommand, SaveCommand
<1>2. SlotsInv'
  BY <1>1 DEF FilesInv, SlotsInv, Holds, Writing
<1>3. FilesTyped'
  BY <1>1 DEF FilesInv, FilesTyped, FilesTypeOK, WriteCommand, Wrote, SaveCommand
<1>4. SavedLoads'
  BY DEF FilesInv, FilesTyped, FilesTypeOK, SavedLoads, Load, WriteCommand, Wrote, SaveCommand
<1> QED
  BY <1>2, <1>3, <1>4 DEF FilesInv

\* A kill marks the creations and the saves that it hits.
LEMMA KillKeeps ==
  ASSUME FilesInv, Kill
  PROVE  FilesInv'
<1>1. /\ slot' \in [Slots -> SlotRecord]
      /\ \A s \in Slots : /\ slot'[s].keys = slot[s].keys
                          /\ slot'[s].at = IF Writing(s) THEN "killed" ELSE slot[s].at
                          /\ ~Writing(s) => slot'[s] = slot[s]
  <2>1. \A s \in Slots : [slot[s] EXCEPT !.at = "killed"] \in SlotRecord
    BY DEF FilesInv, FilesTyped, SlotRecord, SlotStates
  <2>2. slot' \in [Slots -> SlotRecord]
    BY <2>1 DEF Kill, FilesInv, FilesTyped
  <2>3. \A s \in Slots : slot[s] \in SlotRecord
    BY DEF FilesInv, FilesTyped
  <2>4. \A s \in Slots : /\ slot'[s].keys = slot[s].keys
                         /\ slot'[s].at = IF Writing(s) THEN "killed" ELSE slot[s].at
                         /\ ~Writing(s) => slot'[s] = slot[s]
    BY <2>3 DEF Kill, SlotRecord
  <2> QED
    BY <2>2, <2>4
<1>2. FilesTyped'
  BY <1>1, FilesAssumption DEF FilesInv, FilesTyped, FilesTypeOK, Kill, SlotRecord, SlotStates
<1>3. SlotsInv'
  <2>1. CASE \E s \in Slots : Writing(s)
    BY <1>1, <2>1 DEF SlotsInv
  <2>2. CASE ~ \E s \in Slots : Writing(s)
    <3>1. slot' = slot
      BY <2>2 DEF Kill, FilesInv, FilesTyped
    <3> QED
      BY <3>1 DEF FilesInv, SlotsInv, Holds, Writing, Kill
  <2> QED
    BY <2>1, <2>2
<1>4. SavedLoads'
  BY DEF FilesInv, FilesTyped, FilesTypeOK, SavedLoads, Load, Kill
<1> QED
  BY <1>2, <1>3, <1>4 DEF FilesInv

\* The steps of a creation leave the command files alone.
LEMMA SlotStepFrame ==
  ASSUME FilesInv, NEW s \in Slots, CreateSlot(s) \/ EmptyEnv(s) \/ FillEnv(s)
  PROVE  FilesTyped' /\ SavedLoads'
<1>1. command' = command /\ saving' = saving /\ reports' = reports /\ hit' = hit /\ kills' = kills
  BY DEF CreateSlot, EmptyEnv, FillEnv
<1>2. SavedLoads'
  BY <1>1 DEF FilesInv, SavedLoads, Load
<1>3. slot[s] \in SlotRecord /\ env \in Env /\ slot \in [Slots -> SlotRecord]
  BY DEF FilesInv, FilesTyped
<1>4. slot' \in [Slots -> SlotRecord]
  <2>1. \A st \in SlotStates : [slot[s] EXCEPT !.at = st] \in SlotRecord
    BY <1>3 DEF SlotRecord
  <2>2. CASE CreateSlot(s)
    <3>1. PICK asked \in SUBSET KeyClasses \ {{}}, v \in ValueClasses :
            IF (\A k \in asked : ValidKey(k)) /\ ValidValue(v)
            THEN slot' = [slot EXCEPT ![s] =
                   [at |-> "read", keys |-> asked,
                    merged |-> [k \in KeyClasses |-> IF k \in asked THEN s ELSE env[k]]]]
            ELSE slot' = [slot EXCEPT ![s].at = "rejected"]
      BY <2>2 DEF CreateSlot
    <3>2. [k \in KeyClasses |-> IF k \in asked THEN s ELSE env[k]] \in Env
      BY <1>3 DEF Env
    <3>3. (\A k \in asked : ValidKey(k)) => asked \in SUBSET {"venue_key", "venue_secret"}
      BY DEF ValidKey
    <3>4. (\A k \in asked : ValidKey(k)) =>
            [at |-> "read", keys |-> asked,
             merged |-> [k \in KeyClasses |-> IF k \in asked THEN s ELSE env[k]]] \in SlotRecord
      BY <3>2, <3>3 DEF SlotRecord, SlotStates
    <3> QED
      BY <1>3, <2>1, <3>1, <3>4 DEF SlotStates
  <2>3. CASE EmptyEnv(s)
    BY <1>3, <2>1, <2>3 DEF EmptyEnv, SlotStates
  <2>4. CASE FillEnv(s)
    BY <1>3, <2>1, <2>4 DEF FillEnv, SlotStates
  <2> QED
    BY <2>2, <2>3, <2>4
<1>5. env' \in Env
  BY <1>3 DEF CreateSlot, EmptyEnv, FillEnv, Body, Nothing, SlotRecord, Env
<1>6. overlapped' \in BOOLEAN
  BY DEF CreateSlot, EmptyEnv, FillEnv, FilesInv, FilesTyped
<1>7. FilesTyped'
  BY <1>1, <1>4, <1>5, <1>6 DEF FilesInv, FilesTyped, FilesTypeOK, SlotRecord, SlotStates, Env
<1> QED
  BY <1>2, <1>7

\* A creation that overlaps no other reads, empties and fills the file, and the
\* values of the others come back with its own.
LEMMA SlotStepKeeps ==
  ASSUME FilesInv, NEW s \in Slots, CreateSlot(s) \/ EmptyEnv(s) \/ FillEnv(s)
  PROVE  SlotsInv'
<1> SUFFICES ASSUME overlapped' = FALSE, \A t \in Slots : slot'[t].at # "killed"
             PROVE  /\ \A q, t \in Slots : Writing(q)' /\ Writing(t)' => q = t
                    /\ (\A t \in Slots : slot'[t].at # "emptied") => Holds(env, "none")'
                    /\ \A q \in Slots : slot'[q].at = "read" =>
                         slot'[q].merged = [k \in KeyClasses |-> IF k \in slot'[q].keys THEN q ELSE env'[k]]
                    /\ \A q \in Slots : slot'[q].at = "emptied" =>
                         Holds(slot[q].merged, q)' /\ \A k \in slot'[q].keys : slot'[q].merged[k] = q
  BY DEF SlotsInv
<1>1. slot \in [Slots -> SlotRecord] /\ env \in Env /\ "none" \notin Slots
  BY FilesAssumption DEF FilesInv, FilesTyped
<1>2. \A t \in Slots : t # s => slot'[t] = slot[t]
  BY <1>1 DEF CreateSlot, EmptyEnv, FillEnv
<1>3. overlapped = FALSE /\ \A t \in Slots : slot[t].at # "killed"
  BY <1>1, <1>2 DEF FilesInv, FilesTyped, CreateSlot, EmptyEnv, FillEnv
<1>4. \A t \in Slots : slot[t].at = "created" => t # s /\ slot'[t] = slot[t]
  BY <1>2 DEF CreateSlot, EmptyEnv, FillEnv
<1>5. CASE CreateSlot(s)
  <2>1. \A t \in Slots : ~Writing(t)
    BY <1>5 DEF CreateSlot
  <2>2. Holds(env, "none") /\ env' = env
    BY <1>3, <1>5, <2>1 DEF FilesInv, SlotsInv, CreateSlot, Writing
  <2>3. \/ slot'[s].at = "rejected"
        \/ /\ slot'[s].at = "read"
           /\ slot'[s].merged = [k \in KeyClasses |-> IF k \in slot'[s].keys THEN s ELSE env[k]]
    BY <1>1, <1>5 DEF CreateSlot, SlotRecord
  <2>4. \A t \in Slots : t # s => ~Writing(t)'
    BY <1>2, <2>1 DEF Writing
  <2>5. \A q, t \in Slots : Writing(q)' /\ Writing(t)' => q = t
    BY <2>4
  <2>6. Holds(env, "none")'
    BY <1>1, <1>2, <1>4, <2>2, <2>3 DEF Holds
  <2>7. \A q \in Slots : slot'[q].at \in {"read", "emptied"} => q = s
    BY <2>4 DEF Writing
  <2> QED
    BY <2>2, <2>3, <2>5, <2>6, <2>7
<1>6. CASE EmptyEnv(s)
  <2>1. slot[s].at = "read" /\ Writing(s)
    BY <1>6 DEF EmptyEnv, Writing
  <2>2. \A t \in Slots : Writing(t) => t = s
    BY <1>3, <2>1 DEF FilesInv, SlotsInv
  <2>3. Holds(env, "none")
    BY <1>3, <2>1, <2>2 DEF FilesInv, SlotsInv, Writing
  <2>4. slot[s].merged = [k \in KeyClasses |-> IF k \in slot[s].keys THEN s ELSE env[k]]
    BY <1>3, <2>1 DEF FilesInv, SlotsInv
  <2>5. /\ slot'[s].at = "emptied" /\ slot'[s].keys = slot[s].keys
        /\ slot'[s].merged = slot[s].merged
    BY <1>1, <1>6 DEF EmptyEnv, SlotRecord
  <2>6. \A t \in Slots : slot[t].keys \subseteq KeyClasses
    BY <1>1 DEF SlotRecord, KeyClasses
  <2>7. ASSUME NEW t \in Slots, slot'[t].at = "created", NEW k \in slot'[t].keys
        PROVE  \E u \in Slots : slot'[s].merged[k] = u /\ k \in slot'[u].keys
                                /\ (slot'[u].at = "created" \/ u = s)
    <3>1. t # s /\ slot'[t] = slot[t] /\ k \in KeyClasses
      BY <1>2, <2>5, <2>6, <2>7
    <3>2. CASE k \in slot[s].keys
      BY <2>4, <2>5, <3>1, <3>2
    <3>3. CASE k \notin slot[s].keys
      <4>1. PICK u \in Slots : env[k] = u /\ k \in slot[u].keys /\ (slot[u].at = "created" \/ u = "none")
        BY <2>3, <2>7, <3>1 DEF Holds
      <4>2. slot'[u] = slot[u] /\ slot[u].at = "created"
        BY <1>1, <1>4, <4>1
      <4> QED
        BY <2>4, <2>5, <3>1, <3>3, <4>1, <4>2
    <3> QED
      BY <3>2, <3>3
  <2>8. Holds(slot[s].merged, s)'
    BY <2>7 DEF Holds
  <2>9. \A k \in slot'[s].keys : slot'[s].merged[k] = s
    BY <2>4, <2>5, <2>6
  <2>10. \A t \in Slots : Writing(t)' => t = s
    BY <1>2, <2>2 DEF Writing
  <2>11. \A q \in Slots : slot'[q].at \in {"read", "emptied"} => q = s
    BY <2>10 DEF Writing
  <2> QED
    BY <2>5, <2>8, <2>9, <2>10, <2>11
<1>7. CASE FillEnv(s)
  <2>1. slot[s].at = "emptied" /\ Writing(s)
    BY <1>7 DEF FillEnv, Writing
  <2>2. \A t \in Slots : Writing(t) => t = s
    BY <1>3, <2>1 DEF FilesInv, SlotsInv
  <2>3. Holds(slot[s].merged, s) /\ \A k \in slot[s].keys : slot[s].merged[k] = s
    BY <1>3, <2>1 DEF FilesInv, SlotsInv
  <2>4. slot'[s].at = "created" /\ slot'[s].keys = slot[s].keys /\ env' = slot[s].merged
    BY <1>1, <1>7 DEF FillEnv, Body, SlotRecord
  <2>5. \A t \in Slots : ~Writing(t)'
    BY <1>2, <2>2, <2>4 DEF Writing
  <2>6. ASSUME NEW t \in Slots, slot'[t].at = "created", NEW k \in slot'[t].keys
        PROVE  \E u \in Slots : env'[k] = u /\ k \in slot'[u].keys /\ slot'[u].at = "created"
    <3>1. CASE t = s
      BY <2>3, <2>4, <2>6, <3>1
    <3>2. CASE t # s
      <4>1. PICK u \in Slots : slot[s].merged[k] = u /\ k \in slot[u].keys
                               /\ (slot[u].at = "created" \/ u = s)
        BY <1>2, <2>3, <2>6, <3>2 DEF Holds
      <4> QED
        BY <1>4, <2>4, <4>1
    <3> QED
      BY <3>1, <3>2
  <2>7. Holds(env, "none")'
    BY <2>6 DEF Holds
  <2>8. \A q \in Slots : slot'[q].at \notin {"read", "emptied"}
    BY <2>5 DEF Writing
  <2> QED
    BY <2>5, <2>7, <2>8
<1> QED
  BY <1>5, <1>6, <1>7

\* The invariant of the files is inductive.
LEMMA FilesNextInv == FilesInv /\ [FilesNext]_fileVars => FilesInv'
<1> SUFFICES ASSUME FilesInv, [FilesNext]_fileVars PROVE FilesInv'
  OBVIOUS
<1>1. CASE UNCHANGED fileVars
  BY <1>1 DEF fileVars, FilesInv, FilesTyped, FilesTypeOK, SlotsInv, Holds, Writing, SavedLoads, Load
<1>2. CASE FilesNext
  <2>1. ASSUME NEW s \in Slots, CreateSlot(s) \/ EmptyEnv(s) \/ FillEnv(s) PROVE FilesInv'
    BY <2>1, SlotStepFrame, SlotStepKeeps DEF FilesInv
  <2>2. ASSUME NEW c \in Commands, WriteCommand(c) \/ \E v \in {"queued", "claimed"} : SaveCommand(c, v)
        PROVE  FilesInv'
    BY <2>2, CommandKeeps
  <2> QED
    BY <1>2, <2>1, <2>2, KillKeeps DEF FilesNext
<1> QED
  BY <1>1, <1>2

\* A created slot resolves to values of created slots unless two creations
\* overlapped, and a command file loads as it was last reported unless a kill
\* hit a save of it.
THEOREM FilesAlwaysReadBack == FilesSpec => []FilesReadBack
<1>1. FilesInv => FilesReadBack
  <2> SUFFICES ASSUME FilesInv PROVE CreatedIsResolvable
    BY DEF FilesInv, FilesReadBack
  <2> SUFFICES ASSUME ~overlapped, \A t \in Slots : slot[t].at \notin {"emptied", "killed"},
                      NEW s \in Slots, slot[s].at = "created"
               PROVE  /\ Resolve(s) = "values"
                      /\ \A k \in slot[s].keys :
                            \E t \in Slots : env[k] = t /\ slot[t].at = "created" /\ k \in slot[t].keys
    BY DEF CreatedIsResolvable
  <2>1. "none" \notin Slots /\ overlapped = FALSE
    BY FilesAssumption DEF FilesInv, FilesTyped
  <2>2. Holds(env, "none")
    BY <2>1 DEF FilesInv, SlotsInv
  <2>3. \A k \in slot[s].keys :
          \E t \in Slots : env[k] = t /\ slot[t].at = "created" /\ k \in slot[t].keys
    BY <2>1, <2>2 DEF Holds
  <2>4. Resolve(s) = "values"
    BY <2>1, <2>3 DEF Resolve
  <2> QED
    BY <2>3, <2>4
<1> QED
  BY FilesInitInv, FilesNextInv, <1>1, PTL DEF FilesSpec

(***************************************************************************)
(* StrategyMemory: as long as no two writers overlap, the known ids are    *)
(* 1..m, so the number a save takes is one that no other save can hold.    *)
(***************************************************************************)
Spec == [by : Users, status : StrategyStatus]
Call == [op : Ops, who : Users, at : {"new", "numbered", "appended", "approving", "done"},
         id : Nat]
MemoryTyped ==
  /\ records \in [Numbers -> Seq(Spec)]
  /\ scopes \in [Numbers -> Users \cup {"none"}]
  /\ call \in [Threads -> Call]
  /\ seen \in [Threads -> StrategyStatus \cup {"none"}]
  /\ saved \subseteq Threads \X Numbers
  /\ raced \in BOOLEAN
\* A request holds an id of the table, and one that was looked up is known.
IdsTyped ==
  \A t \in Threads :
    /\ At(t, "numbered") => call[t].id \in Numbers
    /\ At(t, "appended") \/ At(t, "approving") => call[t].id \in Known
    /\ At(t, "approving") => seen[t] \in {"backtested", "approved"} /\ scopes[call[t].id] # "none"
\* Every id but the demo's was taken by a request: there is room for the rest.
KnownTaken ==
  \A i \in Known : i \in DemoNumbers \/ \E u \in Threads : ~At(u, "new") /\ call[u].id = i
\* The ids are 1..m; the one save that has a number has the next one.
NumbersInv ==
  /\ \E m \in Nat : Known = 1..m
  /\ DemoNumbers \subseteq Known
  /\ \A t \in Threads : At(t, "numbered") => call[t].id = Number
  /\ \A t, u \in Threads : At(t, "numbered") /\ At(u, "numbered") => t = u
By(i, who) == \A k \in DOMAIN records[i] : records[i][k].by = who
\* A strategy without a scope is the one of the save that appended to it.
OwnersInv ==
  /\ \A i \in Numbers : scopes[i] # "none" => i \in Known /\ By(i, scopes[i])
  /\ \A i \in DemoNumbers : scopes[i] # "none"
  /\ \A t \in Threads : At(t, "appended") =>
        scopes[call[t].id] = "none" /\ By(call[t].id, call[t].who)
  /\ \A t, u \in Threads : At(t, "appended") /\ At(u, "appended") /\ call[t].id = call[u].id => t = u
SavedInv ==
  /\ \A x \in saved : scopes[x[2]] # "none" /\ x[2] \notin DemoNumbers
  /\ \A x, y \in saved : x[2] = y[2] => x = y
LatestInv ==
  \A t \in Threads : At(t, "approving") => Latest(call[t].id).status = seen[t]
MemoryInv ==
  /\ MemoryTyped /\ IdsTyped /\ KnownTaken
  /\ ~raced => NumbersInv /\ OwnersInv /\ SavedInv /\ LatestInv

\* There is an id left for every request that has none.
LEMMA NumberFits ==
  ASSUME MemoryInv, NEW t \in Threads, At(t, "new")
  PROVE  IsFiniteSet(Known) /\ Cardinality(Known) \in Nat /\ Number \in Numbers
<1> DEFINE taken == {call[u].id : u \in Threads \ {t}}
<1>1. IsFiniteSet(Threads) /\ Demo \in Nat /\ Cardinality(Threads) \in Nat
  BY MemoryAssumption, FS_CardinalityType
<1>2. /\ IsFiniteSet(Threads \ {t})
      /\ Cardinality(Threads \ {t}) = Cardinality(Threads) - 1
  BY <1>1, FS_RemoveElement
<1>3. IsFiniteSet(taken) /\ Cardinality(taken) <= Cardinality(Threads \ {t})
  <2> DEFINE f == [u \in Threads \ {t} |-> call[u].id]
  <2>1. f \in Surjection(Threads \ {t}, taken)
    BY DEF Surjection
  <2> HIDE DEF taken, f
  <2> QED
    BY <1>2, <2>1, FS_Surjection
<1>4. IsFiniteSet(DemoNumbers) /\ Cardinality(DemoNumbers) = Demo
  BY <1>1, FS_Interval DEF DemoNumbers
<1>5. IsFiniteSet(DemoNumbers \cup taken) /\ Cardinality(taken) \in Nat
      /\ Cardinality(DemoNumbers \cup taken) <= Cardinality(DemoNumbers) + Cardinality(taken)
  <2> HIDE DEF taken
  <2>1. IsFiniteSet(DemoNumbers \cup taken)
    BY <1>3, <1>4, FS_Union
  <2>2. IsFiniteSet(DemoNumbers \cap taken) /\ Cardinality(DemoNumbers \cap taken) \in Nat
        /\ Cardinality(taken) \in Nat
    BY <1>3, <1>4, FS_Intersection, FS_CardinalityType
  <2>3. Cardinality(DemoNumbers \cup taken) =
          Cardinality(DemoNumbers) + Cardinality(taken) - Cardinality(DemoNumbers \cap taken)
    BY <1>3, <1>4, FS_Union
  <2> QED
    BY <1>1, <1>4, <2>1, <2>2, <2>3
<1>6. Known \subseteq DemoNumbers \cup taken
  BY DEF MemoryInv, KnownTaken, At
<1>7. IsFiniteSet(Known) /\ Cardinality(Known) \in Nat
      /\ Cardinality(Known) <= Cardinality(DemoNumbers \cup taken)
  <2> HIDE DEF taken
  <2> QED
    BY <1>5, <1>6, FS_Subset, FS_CardinalityType
<1>8. Cardinality(DemoNumbers \cup taken) \in Nat
  <2> HIDE DEF taken
  <2> QED
    BY <1>5, FS_CardinalityType
<1>9. Cardinality(Known) + 1 <= Demo + Cardinality(Threads)
  <2> HIDE DEF taken
  <2> QED
    BY <1>1, <1>2, <1>3, <1>4, <1>5, <1>7, <1>8
<1> QED
  BY <1>1, <1>7, <1>9 DEF Number, Numbers

\* The number of 1..m is m + 1.
LEMMA NumberIsNext ==
  ASSUME NEW m \in Nat, Known = 1..m
  PROVE  Number = m + 1
<1>1. Cardinality(1..m) = m
  BY FS_Interval
<1> QED
  BY <1>1 DEF Number

\* The demo strategies are numbered from 1 and owned.
LEMMA MemoryInitInv == MemoryInit => MemoryInv
<1> SUFFICES ASSUME MemoryInit PROVE MemoryInv
  OBVIOUS
<1>1. IsFiniteSet(Threads) /\ Demo \in Nat /\ Cardinality(Threads) \in Nat
  BY MemoryAssumption, FS_CardinalityType
<1>2. DemoNumbers \subseteq Numbers /\ DemoNumbers = 1..Demo
  BY <1>1 DEF DemoNumbers, Numbers
<1>3. StrategySpec("alice", "backtested") \in Spec /\ StrategySpec("alice", "backtested").by = "alice"
  BY DEF StrategySpec, Spec, Users, StrategyStatus
<1>4. \A i \in Numbers :
        records[i] = IF i \in DemoNumbers THEN <<StrategySpec("alice", "backtested")>> ELSE <<>>
  BY DEF MemoryInit, SaveExplicit
<1>5. records \in [Numbers -> Seq(Spec)]
  BY <1>3 DEF MemoryInit, SaveExplicit
<1>6. Known = DemoNumbers
  <2>1. \A i \in Numbers : records[i] # <<>> <=> i \in DemoNumbers
    BY <1>4
  <2> QED
    BY <1>2, <2>1 DEF Known
<1>7. \A t \in Threads : call[t].at = "new"
  BY DEF MemoryInit
<1>8. scopes \in [Numbers -> Users \cup {"none"}] /\ \A i \in Numbers : scopes[i] = IF i \in DemoNumbers THEN "alice" ELSE "none"
  BY DEF MemoryInit, Users
<1>9. MemoryTyped
  <2>1. call \in [Threads -> Call]
    <3>1. [op : Ops, who : Users, at : {"new"}, id : {0}] \subseteq Call
      BY DEF Call
    <3> QED
      BY <3>1 DEF MemoryInit
  <2> QED
    BY <1>5, <1>8, <2>1 DEF MemoryInit, MemoryTyped
<1>10. IdsTyped /\ KnownTaken
  BY <1>6, <1>7 DEF IdsTyped, KnownTaken, At
<1>11. NumbersInv
  BY <1>1, <1>2, <1>6, <1>7 DEF NumbersInv, At
<1>12. OwnersInv
  BY <1>2, <1>3, <1>4, <1>6, <1>7, <1>8 DEF OwnersInv, By, At
<1>13. SavedInv /\ LatestInv
  BY <1>7 DEF SavedInv, LatestInv, At, MemoryInit
<1> QED
  BY <1>9, <1>10, <1>11, <1>12, <1>13 DEF MemoryInv

\* What a step of request t does to the calls: t goes to at and holds id i.
CallStep(t, at, i) ==
  /\ call' \in [Threads -> Call]
  /\ \A u \in Threads \ {t} : call'[u] = call[u]
  /\ call'[t].at = at /\ call'[t].id = i /\ call'[t].who = call[t].who
LEMMA CallSteps ==
  ASSUME MemoryTyped, NEW t \in Threads,
         NEW at \in {"new", "numbered", "appended", "approving", "done"}, NEW i \in Nat
  PROVE  /\ call' = [call EXCEPT ![t].at = at] => CallStep(t, at, call[t].id)
         /\ call' = [call EXCEPT ![t].at = at, ![t].id = i] => CallStep(t, at, i)
<1>1. call[t] \in Call /\ call \in [Threads -> Call]
  BY DEF MemoryTyped
<1>2. /\ [call[t] EXCEPT !.at = at] \in Call
      /\ [call[t] EXCEPT !.at = at, !.id = i] \in Call
  BY <1>1 DEF Call
<1> QED
  BY <1>1, <1>2 DEF CallStep, Call

\* A step of t that writes nothing keeps what is said of the strategies.
LEMMA QuietStep ==
  ASSUME MemoryInv, NEW t \in Threads, NEW at \in {"numbered", "done"}, NEW i \in Nat,
         CallStep(t, at, i), At(t, "new") \/ i = call[t].id,
         raced' \in BOOLEAN, UNCHANGED <<records, scopes, seen, saved>>
  PROVE  /\ Known' = Known /\ Number' = Number
         /\ MemoryTyped' /\ KnownTaken'
         /\ \A u \in Threads \ {t} : call'[u] = call[u]
         /\ OwnersInv => OwnersInv'
         /\ SavedInv => SavedInv'
         /\ LatestInv => LatestInv'
<1>1. Known' = Known /\ Number' = Number
  BY DEF Known, Number
<1>2. MemoryTyped'
  BY DEF MemoryInv, MemoryTyped, CallStep
<1>3. /\ \A u \in Threads \ {t} : call'[u] = call[u]
      /\ call'[t].at = at /\ call'[t].id = i
  BY DEF CallStep
<1>4. KnownTaken'
  <2> SUFFICES ASSUME NEW j \in Known, j \notin DemoNumbers
               PROVE  \E u \in Threads : call'[u].at # "new" /\ call'[u].id = j
    BY <1>1 DEF KnownTaken, At, DemoNumbers
  <2>1. PICK u \in Threads : ~At(u, "new") /\ call[u].id = j
    BY DEF MemoryInv, KnownTaken
  <2> QED
    BY <1>3, <2>1 DEF At
<1>5. \A u \in Threads : (At(u, "appended")' \/ At(u, "approving")') => u # t
  BY <1>3 DEF At
<1>6. OwnersInv => OwnersInv'
  BY <1>1, <1>3, <1>5 DEF OwnersInv, By, At, DemoNumbers
<1>7. SavedInv => SavedInv'
  BY DEF SavedInv, DemoNumbers
<1>8. LatestInv => LatestInv'
  BY <1>3, <1>5 DEF LatestInv, Latest, At
<1> QED
  BY <1>1, <1>2, <1>3, <1>4, <1>6, <1>7, <1>8

\* A request that ends without a write leaves everything as it was.
LEMMA EndKeeps ==
  ASSUME MemoryInv, NEW t \in Threads, CallStep(t, "done", call[t].id),
         UNCHANGED <<records, scopes, seen, saved, raced>>
  PROVE  MemoryInv'
<1>1. call[t].id \in Nat /\ raced' \in BOOLEAN
  BY DEF MemoryInv, MemoryTyped, Call
<1>2. /\ Known' = Known /\ Number' = Number
      /\ MemoryTyped' /\ KnownTaken'
      /\ \A u \in Threads \ {t} : call'[u] = call[u]
      /\ OwnersInv => OwnersInv'
      /\ SavedInv => SavedInv'
      /\ LatestInv => LatestInv'
  BY <1>1, QuietStep
<1>3. call'[t].at = "done"
  BY DEF CallStep
<1>4. IdsTyped'
  BY <1>2, <1>3 DEF MemoryInv, IdsTyped, At
<1>5. ~raced => NumbersInv'
  BY <1>2, <1>3 DEF MemoryInv, NumbersInv, At, DemoNumbers
<1> QED
  BY <1>2, <1>4, <1>5 DEF MemoryInv

\* A number taken while no other save holds one is free.
LEMMA NumberKeeps ==
  ASSUME MemoryInv, NEW t \in Threads, At(t, "new"), CallStep(t, "numbered", Number),
         raced' = (raced \/ Storing(t)), UNCHANGED <<records, scopes, seen, saved>>
  PROVE  MemoryInv'
<1>1. Number \in Numbers /\ Number \in Nat /\ raced' \in BOOLEAN
  BY NumberFits DEF MemoryInv, MemoryTyped, Number
<1>2. /\ Known' = Known /\ Number' = Number
      /\ MemoryTyped' /\ KnownTaken'
      /\ \A u \in Threads \ {t} : call'[u] = call[u]
      /\ OwnersInv => OwnersInv'
      /\ SavedInv => SavedInv'
      /\ LatestInv => LatestInv'
  BY <1>1, QuietStep
<1>3. call'[t].at = "numbered" /\ call'[t].id = Number
  BY DEF CallStep
<1>4. IdsTyped'
  BY <1>1, <1>2, <1>3 DEF MemoryInv, IdsTyped, At, Numbers
<1>5. ~raced' => NumbersInv'
  BY <1>2, <1>3 DEF MemoryInv, NumbersInv, At, DemoNumbers, Storing
<1> QED
  BY <1>2, <1>4, <1>5 DEF MemoryInv

\* The first spec of a strategy extends 1..m by m + 1.
LEMMA AppendKeeps ==
  ASSUME MemoryInv, NEW t \in Threads, SaveAppend(t)
  PROVE  MemoryInv'
<1>1. MemoryTyped /\ IdsTyped /\ KnownTaken
  BY DEF MemoryInv
<1>2. PICK i \in Nat : i = call[t].id
  BY <1>1 DEF MemoryTyped, Call
<1>3. i \in Numbers /\ At(t, "numbered")
  BY <1>1, <1>2 DEF IdsTyped, SaveAppend
<1>4. CallStep(t, "appended", i)
  BY <1>1, <1>2, CallSteps DEF SaveAppend
<1>5. PICK spec \in Spec : spec.by = call[t].who /\ records' = [records EXCEPT ![i] = Append(@, spec)]
  <2>1. PICK s \in {"draft", "backtested"} :
          records' = [records EXCEPT ![call[t].id] = Append(@, StrategySpec(call[t].who, s))]
    BY DEF SaveAppend
  <2>2. call[t].who \in Users
    BY <1>1 DEF MemoryTyped, Call
  <2>3. StrategySpec(call[t].who, s) \in Spec /\ StrategySpec(call[t].who, s).by = call[t].who
    BY <2>2 DEF StrategySpec, Spec, StrategyStatus
  <2> QED
    BY <1>2, <2>1, <2>3
<1>6. /\ records' \in [Numbers -> Seq(Spec)]
      /\ records'[i] = Append(records[i], spec) /\ records'[i] # <<>>
      /\ \A j \in Numbers \ {i} : records'[j] = records[j]
  <2>1. records \in [Numbers -> Seq(Spec)]
    BY <1>1 DEF MemoryTyped
  <2> QED
    BY <1>3, <1>5, <2>1
<1>7. Known' = Known \cup {i}
  BY <1>3, <1>6 DEF Known
<1>8. MemoryTyped'
  BY <1>1, <1>4, <1>6 DEF MemoryTyped, CallStep, SaveAppend
<1>9. IdsTyped'
  BY <1>1, <1>4, <1>7 DEF IdsTyped, At, CallStep, SaveAppend
<1>10. KnownTaken'
  BY <1>1, <1>3, <1>2, <1>4, <1>7 DEF KnownTaken, At, CallStep
<1>11. ASSUME ~raced' PROVE (NumbersInv /\ OwnersInv /\ SavedInv /\ LatestInv)'
  <2>1. ~raced /\ ~Approving(i)
    BY <1>2, <1>11 DEF SaveAppend
  <2>2. NumbersInv /\ OwnersInv /\ SavedInv /\ LatestInv
    BY <2>1 DEF MemoryInv
  <2>3. PICK m \in Nat : Known = 1..m
    BY <2>2 DEF NumbersInv
  <2>4. i = m + 1 /\ i \notin Known
    BY <1>2, <1>3, <2>2, <2>3, NumberIsNext DEF NumbersInv
  <2>5. Known' = 1..(m + 1) /\ m + 1 \in Nat
    BY <1>7, <2>3, <2>4
  <2>6. \A u \in Threads : ~At(u, "numbered")'
    BY <1>3, <1>4, <2>2 DEF NumbersInv, At, CallStep
  <2>7. NumbersInv'
    <3>1. DemoNumbers \subseteq Known'
      BY <1>7, <2>2 DEF NumbersInv
    <3> QED
      BY <2>5, <2>6, <3>1 DEF NumbersInv, DemoNumbers
  <2>8. records[i] = <<>>
    BY <1>3, <2>4 DEF Known
  <2>9. \A k \in DOMAIN records'[i] : records'[i][k].by = call[t].who
    BY <1>5, <1>6, <2>8
  <2>10. scopes' = scopes /\ saved' = saved /\ seen' = seen /\ scopes[i] = "none"
    BY <1>3, <2>2, <2>4 DEF OwnersInv, SaveAppend
  <2>11. OwnersInv'
    <3>1. \A j \in Numbers : scopes'[j] # "none" => j \in Known' /\ By(j, scopes[j])'
      BY <1>6, <1>7, <2>2, <2>10 DEF OwnersInv, By
    <3>2. \A j \in DemoNumbers : scopes'[j] # "none"
      BY <2>2, <2>10 DEF OwnersInv
    <3>3. \A u \in Threads : At(u, "appended")' =>
            (u = t \/ (At(u, "appended") /\ call[u].id \in Known /\ call[u].id # i)) /\ (u # t => call'[u] = call[u])
      BY <1>1, <1>4, <2>4 DEF At, CallStep, IdsTyped
    <3>4. ASSUME NEW u \in Threads, At(u, "appended")'
          PROVE  scopes'[call'[u].id] = "none" /\ By(call[u].id, call[u].who)'
      <4>1. CASE u = t
        BY <1>4, <2>9, <2>10, <4>1 DEF By, CallStep
      <4>2. CASE u # t
        <5>1. call'[u] = call[u] /\ call[u].id \in Numbers \ {i} /\ At(u, "appended")
          BY <3>3, <3>4, <4>2 DEF Known
        <5>2. scopes[call[u].id] = "none" /\ By(call[u].id, call[u].who)
          BY <2>2, <5>1 DEF OwnersInv
        <5> QED
          BY <1>6, <2>10, <5>1, <5>2 DEF By
      <4> QED
        BY <4>1, <4>2
    <3>5. \A u, w \in Threads : At(u, "appended")' /\ At(w, "appended")' /\ call'[u].id = call'[w].id => u = w
      BY <1>4, <2>2, <3>3 DEF OwnersInv, CallStep
    <3> QED
      BY <3>1, <3>2, <3>4, <3>5 DEF OwnersInv, DemoNumbers
  <2>12. SavedInv'
    BY <2>2, <2>10 DEF SavedInv, DemoNumbers
  <2>13. LatestInv'
    <3>1. \A u \in Threads : At(u, "approving")' => u # t /\ At(u, "approving") /\ call'[u] = call[u]
      BY <1>4 DEF At, CallStep
    <3>2. \A u \in Threads : At(u, "approving") => call[u].id \in Numbers /\ call[u].id # i
      BY <1>1, <2>1 DEF IdsTyped, Known, Approving
    <3> QED
      BY <1>6, <2>2, <2>10, <3>1, <3>2 DEF LatestInv, Latest
  <2> QED
    BY <2>7, <2>11, <2>12, <2>13
<1> QED
  BY <1>8, <1>9, <1>10, <1>11 DEF MemoryInv

\* The save that appended to a strategy is the one that gives it an owner.
LEMMA ScopeKeeps ==
  ASSUME MemoryInv, NEW t \in Threads, SaveScope(t)
  PROVE  MemoryInv'
<1>1. MemoryTyped /\ IdsTyped /\ KnownTaken
  BY DEF MemoryInv
<1>2. PICK i \in Nat : i = call[t].id
  BY <1>1 DEF MemoryTyped, Call
<1>3. i \in Known /\ i \in Numbers /\ At(t, "appended") /\ call[t].who \in Users
  BY <1>1, <1>2 DEF IdsTyped, SaveScope, Known, MemoryTyped, Call
<1>4. CallStep(t, "done", i)
  BY <1>1, <1>2, CallSteps DEF SaveScope, End
<1>5. /\ \A u \in Threads \ {t} : call'[u] = call[u]
      /\ call'[t].at = "done" /\ call'[t].id = i
  BY <1>4 DEF CallStep
<1>6. /\ records' = records /\ seen' = seen /\ raced' = raced /\ saved' = saved \cup {<<t, i>>}
      /\ Known' = Known /\ Number' = Number
  BY <1>2 DEF SaveScope, Known, Number
<1>7. /\ scopes' \in [Numbers -> Users \cup {"none"}]
      /\ scopes'[i] = call[t].who /\ scopes'[i] # "none"
      /\ \A j \in Numbers \ {i} : scopes'[j] = scopes[j]
  BY <1>1, <1>2, <1>3 DEF SaveScope, MemoryTyped, Users
<1>8. MemoryTyped'
  BY <1>1, <1>3, <1>4, <1>6, <1>7 DEF MemoryTyped, CallStep
<1>9. IdsTyped'
  <2> SUFFICES ASSUME NEW u \in Threads, u # t
               PROVE  /\ At(u, "numbered") => call[u].id \in Numbers
                      /\ At(u, "appended") \/ At(u, "approving") => call[u].id \in Known
                      /\ At(u, "approving") => seen[u] \in {"backtested", "approved"} /\ scopes'[call[u].id] # "none"
    BY <1>5, <1>6 DEF IdsTyped, At, Numbers
  <2> QED
    BY <1>1, <1>7 DEF IdsTyped, Known
<1>10. KnownTaken'
  BY <1>1, <1>2, <1>3, <1>5, <1>6 DEF KnownTaken, At, DemoNumbers
<1>11. ASSUME ~raced' PROVE (NumbersInv /\ OwnersInv /\ SavedInv /\ LatestInv)'
  <2>1. NumbersInv /\ OwnersInv /\ SavedInv /\ LatestInv
    BY <1>6, <1>11 DEF MemoryInv
  <2>2. NumbersInv'
    BY <1>5, <1>6, <2>1 DEF NumbersInv, At, DemoNumbers
  <2>3. scopes[i] = "none" /\ By(i, call[t].who) /\ i \notin DemoNumbers
    BY <1>2, <1>3, <2>1 DEF OwnersInv
  <2>4. \A j \in Numbers : By(j, scopes[j])' <=> By(j, scopes'[j])
    BY <1>6 DEF By
  <2>5. \A u \in Threads \ {t} : At(u, "appended") => call[u].id # i /\ call[u].id \in Numbers
    BY <1>1, <1>2, <1>3, <2>1 DEF OwnersInv, IdsTyped, Known
  <2>6. OwnersInv'
    <3>1. \A j \in Numbers : scopes'[j] # "none" => j \in Known' /\ By(j, scopes[j])'
      BY <1>3, <1>6, <1>7, <2>1, <2>3, <2>4 DEF OwnersInv
    <3>2. \A j \in DemoNumbers : scopes'[j] # "none"
      <4>1. DemoNumbers \subseteq Numbers
        BY <2>1 DEF NumbersInv, Known
      <4> QED
        BY <1>7, <2>1, <4>1 DEF OwnersInv
    <3>3. \A u \in Threads : At(u, "appended")' => u # t /\ At(u, "appended") /\ call'[u] = call[u]
      BY <1>5 DEF At
    <3>4. \A u \in Threads : At(u, "appended")' =>
            scopes'[call'[u].id] = "none" /\ By(call[u].id, call[u].who)'
      BY <1>6, <1>7, <2>1, <2>5, <3>3 DEF OwnersInv, By
    <3>5. \A u, w \in Threads : At(u, "appended")' /\ At(w, "appended")' /\ call'[u].id = call'[w].id => u = w
      BY <2>1, <3>3 DEF OwnersInv
    <3> QED
      BY <3>1, <3>2, <3>4, <3>5 DEF OwnersInv, DemoNumbers
  <2>7. SavedInv'
    <3>1. \A x \in saved : x \in Threads \X Numbers /\ x[2] \in Numbers /\ x[2] # i
      BY <1>1, <2>1, <2>3 DEF SavedInv, MemoryTyped
    <3>2. \A x \in saved' : scopes'[x[2]] # "none" /\ x[2] \notin DemoNumbers
      BY <1>6, <1>7, <2>1, <2>3, <3>1 DEF SavedInv
    <3>3. \A x, y \in saved' : x[2] = y[2] => x = y
      BY <1>6, <2>1, <3>1 DEF SavedInv
    <3> QED
      BY <3>2, <3>3 DEF SavedInv, DemoNumbers
  <2>8. LatestInv'
    BY <1>5, <1>6, <2>1 DEF LatestInv, Latest, At
  <2> QED
    BY <2>2, <2>6, <2>7, <2>8
<1> QED
  BY <1>8, <1>9, <1>10, <1>11 DEF MemoryInv

\* A write to a strategy that has an owner, of specs of that owner, keeps the
\* invariant; it may change what another approval looked at only as a race.
LEMMA RewriteKeeps ==
  ASSUME MemoryInv, NEW t \in Threads, CallStep(t, "done", call[t].id),
         NEW i \in Known, scopes[i] # "none", NEW v \in Seq(Spec), v # <<>>,
         By(i, scopes[i]) => \A k \in DOMAIN v : v[k].by = scopes[i],
         records' = [records EXCEPT ![i] = v],
         raced' \in BOOLEAN, raced => raced',
         ~raced' => \A u \in Threads \ {t} : At(u, "approving") => call[u].id # i,
         UNCHANGED <<scopes, seen, saved>>
  PROVE  MemoryInv'
<1>1. MemoryTyped /\ IdsTyped /\ KnownTaken /\ i \in Numbers
  BY DEF MemoryInv, Known
<1>2. /\ \A u \in Threads \ {t} : call'[u] = call[u]
      /\ call'[t].at = "done" /\ call'[t].id = call[t].id
  BY DEF CallStep
<1>3. /\ records' \in [Numbers -> Seq(Spec)] /\ records'[i] = v
      /\ \A j \in Numbers \ {i} : records'[j] = records[j]
  BY <1>1 DEF MemoryTyped
<1>4. Known' = Known /\ Number' = Number
  <2>1. Known' = Known
    BY <1>1, <1>3 DEF Known
  <2> QED
    BY <2>1 DEF Number
<1>5. MemoryTyped'
  BY <1>1, <1>3 DEF MemoryTyped, CallStep
<1>6. IdsTyped'
  BY <1>1, <1>2, <1>4 DEF IdsTyped, At, Numbers
<1>7. KnownTaken'
  BY <1>1, <1>2, <1>4 DEF KnownTaken, At, DemoNumbers
<1>8. ASSUME ~raced' PROVE (NumbersInv /\ OwnersInv /\ SavedInv /\ LatestInv)'
  <2>1. NumbersInv /\ OwnersInv /\ SavedInv /\ LatestInv
    BY <1>8 DEF MemoryInv
  <2>2. NumbersInv'
    BY <1>2, <1>4, <2>1 DEF NumbersInv, At, DemoNumbers
  <2>3. SavedInv'
    BY <2>1 DEF SavedInv, DemoNumbers
  <2>4. \A j \in Numbers : scopes'[j] # "none" => j \in Known' /\ By(j, scopes[j])'
    <3>1. \A k \in DOMAIN v : v[k].by = scopes[i]
      BY <1>1, <2>1 DEF OwnersInv
    <3> QED
      BY <1>3, <1>4, <2>1, <3>1 DEF OwnersInv, By
  <2>5. \A u \in Threads : At(u, "appended")' =>
          u # t /\ At(u, "appended") /\ call'[u] = call[u] /\ call[u].id \in Numbers \ {i}
    <3>1. \A u \in Threads : At(u, "appended") => scopes[call[u].id] = "none" /\ call[u].id \in Numbers
      BY <1>1, <2>1 DEF OwnersInv, IdsTyped, Known
    <3> QED
      BY <1>2, <3>1 DEF At
  <2>6. OwnersInv'
    <3>1. \A j \in DemoNumbers : scopes'[j] # "none"
      BY <2>1 DEF OwnersInv
    <3>2. \A u \in Threads : At(u, "appended")' =>
            scopes'[call'[u].id] = "none" /\ By(call[u].id, call[u].who)'
      BY <1>3, <2>1, <2>5 DEF OwnersInv, By
    <3>3. \A u, w \in Threads : At(u, "appended")' /\ At(w, "appended")' /\ call'[u].id = call'[w].id => u = w
      BY <2>1, <2>5 DEF OwnersInv
    <3> QED
      BY <2>4, <3>1, <3>2, <3>3 DEF OwnersInv, DemoNumbers
  <2>7. \A u \in Threads : At(u, "approving")' =>
          At(u, "approving") /\ call'[u] = call[u] /\ call[u].id \in Numbers \ {i}
    BY <1>1, <1>2, <1>8 DEF At, IdsTyped, Known
  <2>8. LatestInv'
    BY <1>3, <2>1, <2>7 DEF LatestInv, Latest
  <2> QED
    BY <2>2, <2>3, <2>6, <2>8
<1> QED
  BY <1>5, <1>6, <1>7, <1>8 DEF MemoryInv

\* An approval remembers the status that is stored.
LEMMA ApproveReadKeeps ==
  ASSUME MemoryInv, NEW t \in Threads, ApproveRead(t)
  PROVE  MemoryInv'
<1>1. MemoryTyped /\ IdsTyped /\ KnownTaken
  BY DEF MemoryInv
<1>2. PICK i \in Known :
        IF InScope(t, i) /\ Promoted(Latest(i).status) # "none"
        THEN /\ seen' = [seen EXCEPT ![t] = Latest(i).status]
             /\ call' = [call EXCEPT ![t].at = "approving", ![t].id = i]
        ELSE End(t) /\ UNCHANGED seen
  BY DEF ApproveRead
<1>3. CASE ~(InScope(t, i) /\ Promoted(Latest(i).status) # "none")
  <2>1. CallStep(t, "done", call[t].id) /\ UNCHANGED <<records, scopes, seen, saved, raced>>
    BY <1>1, <1>2, <1>3, CallSteps DEF End, ApproveRead, MemoryTyped, Call
  <2> QED
    BY <2>1, EndKeeps
<1>4. CASE InScope(t, i) /\ Promoted(Latest(i).status) # "none"
  <2>1. i \in Nat /\ i \in Numbers
    BY DEF Known, Numbers
  <2>2. CallStep(t, "approving", i) /\ At(t, "new")
    BY <1>1, <1>2, <1>4, <2>1, CallSteps DEF ApproveRead
  <2>3. /\ \A u \in Threads \ {t} : call'[u] = call[u]
        /\ call'[t].at = "approving" /\ call'[t].id = i
    BY <2>2 DEF CallStep
  <2>4. /\ Latest(i).status \in {"backtested", "approved"}
        /\ scopes[i] # "none"
    BY <1>1, <1>4, <2>1 DEF Promoted, _PROMOTE_MAP, InScope, MemoryTyped, Call, Users
  <2>5. UNCHANGED <<records, scopes, saved, raced>> /\ Known' = Known /\ Number' = Number
    BY DEF ApproveRead, Known, Number
  <2>6. /\ seen' \in [Threads -> StrategyStatus \cup {"none"}]
        /\ seen'[t] = Latest(i).status /\ \A u \in Threads \ {t} : seen'[u] = seen[u]
    BY <1>1, <1>2, <1>4, <2>4 DEF MemoryTyped, StrategyStatus
  <2>7. MemoryTyped'
    BY <1>1, <2>2, <2>5, <2>6 DEF MemoryTyped, CallStep
  <2>8. IdsTyped'
    BY <1>1, <2>3, <2>4, <2>5, <2>6 DEF IdsTyped, At, Numbers
  <2>9. KnownTaken'
    BY <1>1, <2>2, <2>3, <2>5 DEF KnownTaken, At, DemoNumbers
  <2>10. ASSUME ~raced' PROVE (NumbersInv /\ OwnersInv /\ SavedInv /\ LatestInv)'
    <3>1. NumbersInv /\ OwnersInv /\ SavedInv /\ LatestInv
      BY <2>5, <2>10 DEF MemoryInv
    <3>2. NumbersInv'
      BY <2>3, <2>5, <3>1 DEF NumbersInv, At, DemoNumbers
    <3>3. \A u \in Threads : At(u, "appended")' => u # t
      BY <2>3 DEF At
    <3>4. OwnersInv'
      BY <2>3, <2>5, <3>1, <3>3 DEF OwnersInv, By, At, DemoNumbers
    <3>5. SavedInv'
      BY <2>5, <3>1 DEF SavedInv, DemoNumbers
    <3>6. LatestInv'
      BY <2>3, <2>5, <2>6, <3>1 DEF LatestInv, Latest, At
    <3> QED
      BY <3>2, <3>4, <3>5, <3>6
  <2> QED
    BY <2>7, <2>8, <2>9, <2>10 DEF MemoryInv
<1> QED
  BY <1>3, <1>4

\* A draft or a version posted by the owner, and an approval, write specs of
\* the owner into a strategy that has one.
LEMMA PostKeeps ==
  ASSUME MemoryInv, NEW t \in Threads, UpdateDraft(t) \/ CreateVersion(t)
  PROVE  MemoryInv'
<1>1. MemoryTyped /\ call[t].who \in Users /\ call[t].id \in Nat
  BY DEF MemoryInv, MemoryTyped, Call
<1>2. CallStep(t, "done", call[t].id) /\ UNCHANGED <<scopes, seen, saved>> /\ At(t, "new")
  BY <1>1, CallSteps DEF UpdateDraft, CreateVersion, End
<1>3. PICK i \in Known, s \in {"draft", "backtested"} :
        IF InScope(t, i)
        THEN /\ \/ records' = [records EXCEPT ![i] = [@ EXCEPT ![Len(@)] = StrategySpec(call[t].who, s)]]
                \/ records' = [records EXCEPT ![i] = Append(@, StrategySpec(call[t].who, s))]
             /\ raced' = (raced \/ Approving(i))
        ELSE UNCHANGED <<records, raced>>
  BY DEF UpdateDraft, CreateVersion
<1>4. CASE ~InScope(t, i)
  BY <1>2, <1>3, <1>4, EndKeeps
<1>5. CASE InScope(t, i)
  <2>1. PICK spec \in Spec : spec = StrategySpec(call[t].who, s) /\ spec.by = scopes[i]
    <3>1. StrategySpec(call[t].who, s) \in Spec /\ StrategySpec(call[t].who, s).by = call[t].who
      BY <1>1 DEF StrategySpec, Spec, StrategyStatus
    <3> QED
      BY <1>5, <3>1 DEF InScope
  <2>2. scopes[i] # "none" /\ i \in Numbers /\ records[i] \in Seq(Spec) /\ records[i] # <<>>
    BY <1>1, <1>5 DEF InScope, Users, Known, MemoryTyped
  <2>3. PICK v \in Seq(Spec) :
          /\ v # <<>> /\ records' = [records EXCEPT ![i] = v]
          /\ By(i, scopes[i]) => \A k \in DOMAIN v : v[k].by = scopes[i]
    <3>1. CASE records' = [records EXCEPT ![i] = Append(@, StrategySpec(call[t].who, s))]
      <4>1. Append(records[i], spec) \in Seq(Spec) /\ Append(records[i], spec) # <<>>
            /\ records' = [records EXCEPT ![i] = Append(records[i], spec)]
        BY <1>1, <2>1, <2>2, <3>1 DEF MemoryTyped
      <4>2. By(i, scopes[i]) => \A k \in DOMAIN Append(records[i], spec) : Append(records[i], spec)[k].by = scopes[i]
        BY <2>1, <2>2 DEF By
      <4> QED
        BY <4>1, <4>2
    <3>2. CASE records' = [records EXCEPT ![i] = [@ EXCEPT ![Len(@)] = StrategySpec(call[t].who, s)]]
      <4> DEFINE v == [records[i] EXCEPT ![Len(records[i])] = spec]
      <4>1. v \in Seq(Spec) /\ v # <<>> /\ DOMAIN v = DOMAIN records[i]
        BY <2>2
      <4>2. \A k \in DOMAIN v : v[k] = IF k = Len(records[i]) THEN spec ELSE records[i][k]
        BY <2>2
      <4>3. records' = [records EXCEPT ![i] = v]
        BY <1>1, <2>1, <2>2, <3>2 DEF MemoryTyped
      <4>4. By(i, scopes[i]) => \A k \in DOMAIN v : v[k].by = scopes[i]
        BY <2>1, <4>1, <4>2 DEF By
      <4> QED
        BY <4>1, <4>3, <4>4
    <3> QED
      BY <1>3, <1>5, <3>1, <3>2
  <2>4. raced' \in BOOLEAN /\ (raced => raced')
        /\ (~raced' => \A u \in Threads \ {t} : At(u, "approving") => call[u].id # i)
    BY <1>1, <1>3, <1>5 DEF MemoryTyped, Approving
  <2> QED
    BY <1>2, <2>2, <2>3, <2>4, RewriteKeeps
<1> QED
  BY <1>4, <1>5

LEMMA ApproveWriteKeeps ==
  ASSUME MemoryInv, NEW t \in Threads, ApproveWrite(t)
  PROVE  MemoryInv'
<1>1. MemoryTyped /\ call[t].id \in Nat /\ IdsTyped
  BY DEF MemoryInv, MemoryTyped, Call
<1>2. CallStep(t, "done", call[t].id) /\ UNCHANGED <<scopes, seen, saved>>
  BY <1>1, CallSteps DEF ApproveWrite, End
<1>3. PICK i \in Known : i = call[t].id
  BY <1>1 DEF IdsTyped, ApproveWrite
<1>4. /\ scopes[i] # "none" /\ i \in Numbers /\ records[i] \in Seq(Spec) /\ records[i] # <<>>
      /\ Promoted(seen[t]) \in StrategyStatus
  BY <1>1, <1>3 DEF IdsTyped, ApproveWrite, Known, MemoryTyped, Promoted, _PROMOTE_MAP, StrategyStatus
<1>5. PICK spec \in Spec : /\ spec = [records[i][Len(records[i])] EXCEPT !.status = Promoted(seen[t])]
                           /\ spec.by = records[i][Len(records[i])].by
  <2>1. PICK old \in Spec : old = records[i][Len(records[i])]
    BY <1>4
  <2>2. \A x \in StrategyStatus : [old EXCEPT !.status = x] \in Spec /\ [old EXCEPT !.status = x].by = old.by
    BY DEF Spec
  <2> QED
    BY <1>4, <2>1, <2>2
<1> DEFINE v == [records[i] EXCEPT ![Len(records[i])] = spec]
<1>6. v \in Seq(Spec) /\ v # <<>> /\ DOMAIN v = DOMAIN records[i] /\ Len(records[i]) \in DOMAIN records[i]
  BY <1>4
<1>7. \A k \in DOMAIN v : v[k] = IF k = Len(records[i]) THEN spec ELSE records[i][k]
  BY <1>4
<1>8. records' = [records EXCEPT ![i] = v]
  BY <1>1, <1>3, <1>4, <1>5 DEF MemoryTyped, ApproveWrite
<1>9. By(i, scopes[i]) => \A k \in DOMAIN v : v[k].by = scopes[i]
  BY <1>5, <1>6, <1>7 DEF By
<1>10. raced' \in BOOLEAN /\ (raced => raced')
       /\ (~raced' => \A u \in Threads \ {t} : At(u, "approving") => call[u].id # i)
  BY <1>1, <1>3 DEF MemoryTyped, ApproveWrite
<1> HIDE DEF v
<1> QED
  BY <1>2, <1>4, <1>6, <1>8, <1>9, <1>10, RewriteKeeps

\* The invariant of the in-memory repository is inductive.
LEMMA MemoryNextInv == MemoryInv /\ [MemoryNext]_memoryVars => MemoryInv'
<1> SUFFICES ASSUME MemoryInv, [MemoryNext]_memoryVars PROVE MemoryInv'
  OBVIOUS
<1>1. CASE UNCHANGED memoryVars
  <2>1. UNCHANGED <<records, scopes, call, seen, saved, raced>>
    BY <1>1 DEF memoryVars
  <2>2. Known' = Known /\ Number' = Number
    BY <2>1 DEF Known, Number
  <2>3. MemoryTyped' /\ IdsTyped' /\ KnownTaken'
    BY <2>1, <2>2 DEF MemoryInv, MemoryTyped, IdsTyped, KnownTaken, At
  <2>4. NumbersInv => NumbersInv'
    BY <2>1, <2>2 DEF NumbersInv, At
  <2>5. (OwnersInv => OwnersInv') /\ (SavedInv => SavedInv') /\ (LatestInv => LatestInv')
    BY <2>1, <2>2 DEF OwnersInv, SavedInv, LatestInv, At, By, Latest
  <2> QED
    BY <2>1, <2>3, <2>4, <2>5 DEF MemoryInv
<1>2. ASSUME NEW t \in Threads, SaveNumber(t) \/ CloneNumber(t) PROVE MemoryInv'
  <2>1. At(t, "new") /\ UNCHANGED <<records, scopes, seen, saved>> /\ MemoryTyped
    BY <1>2 DEF SaveNumber, CloneNumber, MemoryInv
  <2>2. Number \in Nat
    BY <2>1, NumberFits DEF Number
  <2>3. \/ call' = [call EXCEPT ![t].at = "numbered", ![t].id = Number] /\ raced' = (raced \/ Storing(t))
        \/ End(t) /\ UNCHANGED raced
    BY <1>2 DEF SaveNumber, CloneNumber
  <2>4. call[t].id \in Nat
    BY <2>1 DEF MemoryTyped, Call
  <2>5. CASE End(t) /\ UNCHANGED raced
    BY <2>1, <2>4, <2>5, CallSteps, EndKeeps DEF End
  <2>6. CASE call' = [call EXCEPT ![t].at = "numbered", ![t].id = Number] /\ raced' = (raced \/ Storing(t))
    BY <2>1, <2>2, <2>6, CallSteps, NumberKeeps
  <2> QED
    BY <2>3, <2>5, <2>6
<1> QED
  BY <1>1, <1>2, AppendKeeps, ScopeKeeps, PostKeeps, ApproveReadKeeps, ApproveWriteKeeps DEF MemoryNext

\* A strategy keeps its number, its owner and the versions its owner posted,
\* and an approval is of what was looked at, unless two writers overlapped:
\* for any number of requests and demo strategies (InMemoryStrategyRepository).
THEOREM VersionsAlwaysOwn == MemorySpec => []VersionsStayOwn
<1>1. MemoryInv => VersionsStayOwn
  BY DEF MemoryInv, IdsTyped, OwnersInv, SavedInv, LatestInv, By, VersionsStayOwn, VersionsOfOwner,
         SavedIdsDistinct, ApprovalOfSeen
<1> QED
  BY MemoryInitInv, MemoryNextInv, <1>1, PTL DEF MemorySpec

(***************************************************************************)
(* WorkflowSpine.  The order of the saves and the counter give the         *)
(* invariant: what a request has passed is stored, and before a restart a  *)
(* number belongs to one request.                                          *)
(***************************************************************************)
\* The rank numbers the positions of a finite set without a gap.
LEMMA Ranked ==
  ASSUME NEW K \in SUBSET Nat, IsFiniteSet(K)
  PROVE  /\ Cardinality(K) \in Nat
         /\ \A n \in 1..Cardinality(K) : \E k \in K : Rank(K, k) = n
         /\ \A k \in K : Rank(K, k) \in 1..Cardinality(K)
<1> DEFINE below(k) == {i \in K : i <= k}
           f == [k \in K |-> Rank(K, k)]
<1>1. Cardinality(K) \in Nat
  BY FS_CardinalityType
<1>2. \A k \in K : IsFiniteSet(below(k)) /\ Cardinality(below(k)) \in Nat
                   /\ Cardinality(below(k)) <= Cardinality(K) /\ Cardinality(below(k)) # 0
  <2> TAKE k \in K
  <2>1. below(k) \subseteq K /\ k \in below(k)
    OBVIOUS
  <2> HIDE DEF below
  <2>2. IsFiniteSet(below(k)) /\ Cardinality(below(k)) <= Cardinality(K)
    BY <2>1, FS_Subset
  <2> QED
    BY <2>1, <2>2, FS_CardinalityType, FS_EmptySet
<1>3. \A k \in K : Rank(K, k) \in 1..Cardinality(K)
  BY <1>1, <1>2 DEF Rank
<1>4. \A j, k \in K : j < k => Rank(K, j) # Rank(K, k)
  <2> SUFFICES ASSUME NEW j \in K, NEW k \in K, j < k PROVE Cardinality(below(j)) # Cardinality(below(k))
    BY DEF Rank
  <2>1. below(j) \subseteq below(k) /\ k \in below(k) /\ k \notin below(j)
    <3>1. j \in Nat /\ k \in Nat
      OBVIOUS
    <3>2. ASSUME NEW i \in K, i <= j PROVE i <= k
      <4>1. i \in Nat
        OBVIOUS
      <4> QED
        BY <3>1, <3>2, <4>1
    <3>3. k <= k /\ ~(k <= j)
      BY <3>1
    <3> QED
      BY <3>2, <3>3
  <2>2. IsFiniteSet(below(k))
    BY <1>2
  <2> HIDE DEF below
  <2> QED
    BY <2>1, <2>2, FS_Subset
<1>5. f \in Injection(K, 1..Cardinality(K))
  <2>1. \A j, k \in K : f[j] = f[k] => j = k
    BY <1>4
  <2>2. f \in [K -> 1..Cardinality(K)]
    BY <1>3
  <2> HIDE DEF f
  <2> QED
    BY <2>1, <2>2 DEF Injection, IsInjective
<1>6. IsFiniteSet(1..Cardinality(K)) /\ Cardinality(1..Cardinality(K)) = Cardinality(K)
  BY <1>1, FS_Interval
<1>7. f \in Surjection(K, 1..Cardinality(K))
  <2> HIDE DEF f
  <2> QED
    BY <1>5, <1>6, FS_Injection
<1>8. \A n \in 1..Cardinality(K) : \E k \in K : Rank(K, k) = n
  BY <1>7 DEF Surjection
<1> QED
  BY <1>1, <1>3, <1>8

\* A filter of a sequence is a sequence of its elements.
LEMMA RowsOf ==
  ASSUME NEW S, NEW s \in Seq(S), NEW K \in SUBSET DOMAIN s
  PROVE  /\ Rows(s, K) \in Seq(S)
         /\ \A n \in DOMAIN Rows(s, K) : \E k \in K : Rows(s, K)[n] = s[k]
<1>1. K \subseteq 1..Len(s) /\ Len(s) \in Nat
  OBVIOUS
<1>2. IsFiniteSet(K) /\ K \in SUBSET Nat
  <2>1. IsFiniteSet(1..Len(s))
    BY <1>1, FS_Interval
  <2> QED
    BY <1>1, <2>1, FS_Subset
<1>3. Cardinality(K) \in Nat /\ \A n \in 1..Cardinality(K) : \E k \in K : Rank(K, k) = n
  BY <1>2, Ranked
<1>4. \A n \in 1..Cardinality(K) : (CHOOSE k \in K : Rank(K, k) = n) \in K
  BY <1>3
<1>5. \A n \in 1..Cardinality(K) : s[CHOOSE k \in K : Rank(K, k) = n] \in S
  BY <1>4
<1>6. Rows(s, K) \in [1..Cardinality(K) -> S]
  BY <1>5 DEF Rows
<1>7. Rows(s, K) \in Seq(S)
  BY <1>3, <1>6
<1>8. \A n \in 1..Cardinality(K) : \E k \in K : Rows(s, K)[n] = s[k]
  BY <1>4 DEF Rows
<1> QED
  BY <1>6, <1>7, <1>8

Stages == {"new", "numbered", "strategy", "version", "job", "versioned", "done", "failed"}
\* The requests that took a number, and those past a save or a publish that
\* are still under way.
Numbered(r) == ctl[r].at # "new"
PastStrategy(r) == ctl[r].at \in {"strategy", "version", "job", "versioned"}
PastVersion(r) == ctl[r].at \in {"version", "job", "versioned"}
PastJob(r) == ctl[r].at \in {"job", "versioned"}

SpineTyped ==
  /\ store \in {"memory", "sqlite", "postgres"}
  /\ counter \in Nat
  /\ strategies \in [Ids -> StrategyIdentity \cup {None}]
  /\ versions \in [Ids -> StrategyVersionIdentity \cup {None}]
  /\ jobs \in [Ids -> WorkflowJobRecord \cup {None}]
  /\ suggestions \in [SuggestionIds -> AiSuggestionRecord \cup {None}]
  /\ results \in Seq(WorkflowResultRecord)
  /\ copies \in [ResultIds -> WorkflowResultRecord \cup {None}]
  /\ ctl \in [Requests -> [at : Stages, id : Nat]]
  /\ faults \in 0..MaxFaults /\ restarts \in 0..faults
\* The counter never runs past the requests that took a number.
CounterInv ==
  /\ counter <= Cardinality({r \in Requests : Numbered(r)})
  /\ \A r \in Requests : Busy(r) => ctl[r].id \in Ids
\* What a request under way has passed is in the tables and on the stream.
PassedInv ==
  /\ \A r \in Requests : /\ PastStrategy(r) => strategies[ctl[r].id] # None
                         /\ PastVersion(r) => versions[ctl[r].id] # None
                         /\ PastJob(r) => jobs[ctl[r].id] # None
                         /\ ctl[r].at = "versioned" => <<"strategy.versioned", ctl[r].id>> \in stream
  /\ \A i \in Ids : jobs[i] # None => versions[i] # None /\ strategies[i] # None
\* Before a restart a number is of one request, and so are the rows under it.
OwnNumbers ==
  /\ \A r \in Requests : Numbered(r) => ctl[r].id \in 1..counter
  /\ \A r, q \in Requests : Numbered(r) /\ Numbered(q) /\ ctl[r].id = ctl[q].id => r = q
OwnRows ==
  /\ \A i \in Ids, r \in Requests :
        /\ versions[i] = [by |-> r] => /\ ctl[r].id = i
                                       /\ ctl[r].at \notin {"new", "numbered", "strategy"}
        /\ jobs[i] = [by |-> r] => /\ ctl[r].id = i
                                   /\ ctl[r].at \in {"job", "versioned", "done", "failed"}
  /\ \A r \in Requests : /\ PastStrategy(r) => strategies[ctl[r].id] = [by |-> r]
                         /\ PastVersion(r) => versions[ctl[r].id] = [by |-> r]
                         /\ PastJob(r) => jobs[ctl[r].id] = [by |-> r]
  /\ \A i \in Ids : jobs[i] # None => versions[i] = jobs[i] /\ strategies[i] = jobs[i]
OfJob(x) == jobs[x.job] = [by |-> x.by]
\* Results and suggestions are of the request that made their job.
OwnResults ==
  /\ \A k \in DOMAIN results : OfJob(results[k])
  /\ \A i \in ResultIds : copies[i] # None => OfJob(copies[i])
  /\ \A s \in SuggestionIds : suggestions[s] # None =>
        jobs[suggestions[s].lineage] = [by |-> suggestions[s].by] /\ suggestions[s].thread = suggestions[s].by
\* Without a fault a request that ended announced its job.
FaultFree ==
  \A r \in Requests : /\ ctl[r].at # "failed"
                      /\ ctl[r].at = "done" => <<"test.enqueued", ctl[r].id>> \in stream
SpineInv ==
  /\ SpineTyped /\ CounterInv /\ PassedInv /\ AnnouncedIsSaved
  /\ restarts = 0 => OwnNumbers /\ OwnRows /\ OwnResults
  /\ faults = 0 => FaultFree

\* A stored row is no missing one.
LEMMA RowsAreNotNone ==
  /\ \A r \in Requests : [by |-> r] # None
  /\ \A x \in StrategyIdentity \cup StrategyVersionIdentity \cup WorkflowJobRecord : x = [by |-> x.by] /\ x.by \in Requests
  /\ \A x \in WorkflowResultRecord \cup AiSuggestionRecord : x # None
<1>1. \A r \in Requests : [by |-> r] # None
  BY SpineAssumption DEF None
<1>2. \A x \in StrategyIdentity \cup StrategyVersionIdentity \cup WorkflowJobRecord : x = [by |-> x.by] /\ x.by \in Requests
  BY DEF StrategyIdentity, StrategyVersionIdentity, WorkflowJobRecord
<1>3. \A x \in WorkflowResultRecord : x # None
  BY SpineAssumption DEF WorkflowResultRecord, None
<1>4. \A x \in AiSuggestionRecord : x # None
  BY SpineAssumption DEF AiSuggestionRecord, None
<1> QED
  BY <1>1, <1>2, <1>3, <1>4

\* The rows of a result or a suggestion name a request and a job.
LEMMA RowFields ==
  ASSUME SpineTyped
  PROVE  /\ \A k \in DOMAIN results : results[k].job \in Ids /\ results[k].by \in Requests
         /\ \A x \in ResultIds : copies[x] # None => copies[x].job \in Ids /\ copies[x].by \in Requests
         /\ \A x \in SuggestionIds : suggestions[x] # None =>
               suggestions[x].lineage \in Ids /\ suggestions[x].by \in Requests
<1>1. \A k \in DOMAIN results : results[k] \in WorkflowResultRecord
  BY DEF SpineTyped
<1>2. \A x \in ResultIds : copies[x] # None => copies[x] \in WorkflowResultRecord
  BY DEF SpineTyped
<1>3. \A x \in SuggestionIds : suggestions[x] # None => suggestions[x] \in AiSuggestionRecord
  BY DEF SpineTyped
<1>4. \A y \in WorkflowResultRecord : y.job \in Ids /\ y.by \in Requests
  BY DEF WorkflowResultRecord
<1>5. \A y \in AiSuggestionRecord : y.lineage \in Ids /\ y.by \in Requests
  BY DEF AiSuggestionRecord
<1> QED
  BY <1>1, <1>2, <1>3, <1>4, <1>5

LEMMA SpineInitInv == SpineInit => SpineInv
<1> SUFFICES ASSUME SpineInit PROVE SpineInv
  OBVIOUS
<1>1. ctl = [r \in Requests |-> [at |-> "new", id |-> 0]] /\ \A r \in Requests : ctl[r].at = "new"
  BY DEF SpineInit
<1>2. {r \in Requests : Numbered(r)} = {}
  BY <1>1 DEF Numbered
<1>3. CounterInv
  BY <1>1, <1>2, FS_EmptySet DEF CounterInv, Busy, SpineInit
<1>4. SpineTyped
  <2>1. store \in {"memory", "sqlite", "postgres"} /\ counter \in Nat
    BY DEF SpineInit
  <2>2. /\ strategies \in [Ids -> StrategyIdentity \cup {None}]
        /\ versions \in [Ids -> StrategyVersionIdentity \cup {None}]
        /\ jobs \in [Ids -> WorkflowJobRecord \cup {None}]
        /\ suggestions \in [SuggestionIds -> AiSuggestionRecord \cup {None}]
        /\ copies \in [ResultIds -> WorkflowResultRecord \cup {None}]
    BY DEF SpineInit, Empty
  <2>3. results \in Seq(WorkflowResultRecord)
    BY DEF SpineInit
  <2>4. ctl \in [Requests -> [at : Stages, id : Nat]]
    BY <1>1 DEF Stages
  <2>5. faults \in 0..MaxFaults /\ restarts \in 0..faults
    BY SpineAssumption DEF SpineInit
  <2> QED
    BY <2>1, <2>2, <2>3, <2>4, <2>5 DEF SpineTyped
<1>5. \A i \in Ids : strategies[i] = None /\ versions[i] = None /\ jobs[i] = None
  BY DEF SpineInit, Empty
<1>6. PassedInv /\ AnnouncedIsSaved
  BY <1>1, <1>5 DEF PassedInv, PastStrategy, PastVersion, PastJob, AnnouncedIsSaved, SpineInit
<1>7. OwnNumbers
  BY <1>1 DEF OwnNumbers, Numbered
<1>8. OwnRows
  BY <1>1, <1>5, RowsAreNotNone DEF OwnRows, PastStrategy, PastVersion, PastJob
<1>9. OwnResults
  BY DEF OwnResults, SpineInit, Empty
<1>10. FaultFree
  BY <1>1 DEF FaultFree
<1> QED
  BY <1>3, <1>4, <1>6, <1>7, <1>8, <1>9, <1>10 DEF SpineInv

\* What a step of request r does to the requests.
CtlStep(r, at, i) ==
  /\ ctl' \in [Requests -> [at : Stages, id : Nat]]
  /\ \A q \in Requests \ {r} : ctl'[q] = ctl[q]
  /\ ctl'[r].at = at /\ ctl'[r].id = i
LEMMA ToStep ==
  ASSUME SpineTyped, NEW r \in Requests, NEW at \in Stages, To(r, at)
  PROVE  CtlStep(r, at, ctl[r].id) /\ ctl[r].id \in Nat
<1>1. ctl \in [Requests -> [at : Stages, id : Nat]]
  BY DEF SpineTyped
<1>2. ctl[r] \in [at : Stages, id : Nat]
  BY <1>1
<1>3. /\ [ctl[r] EXCEPT !.at = at] \in [at : Stages, id : Nat]
      /\ [ctl[r] EXCEPT !.at = at].at = at /\ [ctl[r] EXCEPT !.at = at].id = ctl[r].id
  BY <1>2
<1>4. ctl' = [ctl EXCEPT ![r] = [ctl[r] EXCEPT !.at = at]]
  BY <1>1 DEF To
<1> QED
  BY <1>1, <1>2, <1>3, <1>4 DEF CtlStep

\* A request that already has its number does not change the count of those.
LEMMA CounterKept ==
  ASSUME CounterInv, counter' = counter, \A q \in Requests : Numbered(q)' <=> Numbered(q),
         \A q \in Requests : Busy(q)' => ctl'[q].id \in Ids
  PROVE  CounterInv'
<1>1. {q \in Requests : Numbered(q)}' = {q \in Requests : Numbered(q)}
  OBVIOUS
<1> QED
  BY <1>1 DEF CounterInv, Ids

LEMMA TakeNumberKeeps ==
  ASSUME SpineInv, NEW r \in Requests, TakeNumber(r)
  PROVE  SpineInv'
<1> DEFINE N == {q \in Requests : Numbered(q)}
<1>1. SpineTyped /\ CounterInv /\ PassedInv /\ AnnouncedIsSaved /\ ctl[r].at = "new" /\ counter \in Nat
  BY DEF SpineInv, TakeNumber, SpineTyped
<1>2. /\ CtlStep(r, "numbered", counter + 1) /\ counter' = counter + 1
      /\ UNCHANGED <<store, strategies, versions, jobs, suggestions, results, copies, stream, faults, restarts>>
  <2>1. ctl \in [Requests -> [at : Stages, id : Nat]]
    BY <1>1 DEF SpineTyped
  <2>2. [at |-> "numbered", id |-> counter + 1] \in [at : Stages, id : Nat]
    BY <1>1 DEF Stages
  <2> QED
    BY <2>1, <2>2 DEF TakeNumber, CtlStep
<1>3. /\ \A q \in Requests \ {r} : ctl'[q] = ctl[q]
      /\ ctl'[r].at = "numbered" /\ ctl'[r].id = counter + 1
  BY <1>2 DEF CtlStep
<1>4. IsFiniteSet(N) /\ r \notin N /\ Cardinality(N) \in Nat /\ IsFiniteSet(Requests)
  <2>1. N \subseteq Requests /\ r \notin N
    BY <1>1 DEF Numbered
  <2> HIDE DEF N
  <2> QED
    BY <2>1, SpineAssumption, FS_Subset, FS_CardinalityType
<1>5. {q \in Requests : Numbered(q)}' = N \cup {r}
  BY <1>3 DEF Numbered
<1>6. Cardinality(N \cup {r}) = Cardinality(N) + 1 /\ Cardinality(N \cup {r}) <= Cardinality(Requests)
      /\ Cardinality(Requests) \in Nat
  <2>1. N \cup {r} \subseteq Requests
    OBVIOUS
  <2> HIDE DEF N
  <2> QED
    BY <1>4, <2>1, FS_AddElement, FS_Subset, FS_CardinalityType
<1>7. counter + 1 <= Cardinality(N \cup {r}) /\ counter + 1 \in Ids
  BY <1>1, <1>4, <1>6 DEF CounterInv, Ids
<1>8. CounterInv'
  <2>1. \A q \in Requests : Busy(q)' => ctl'[q].id \in Ids
    BY <1>1, <1>3, <1>7 DEF CounterInv, Busy
  <2> QED
    BY <1>2, <1>5, <1>7, <2>1 DEF CounterInv, Ids
<1>9. SpineTyped'
  BY <1>1, <1>2 DEF SpineTyped, CtlStep, Ids
<1>10. PassedInv'
  BY <1>1, <1>2, <1>3 DEF PassedInv, PastStrategy, PastVersion, PastJob, Ids
<1>11. AnnouncedIsSaved'
  BY <1>1, <1>2 DEF AnnouncedIsSaved, Ids
<1>12. ASSUME restarts' = 0 PROVE (OwnNumbers /\ OwnRows /\ OwnResults)'
  <2>1. OwnNumbers /\ OwnRows /\ OwnResults
    BY <1>2, <1>12 DEF SpineInv
  <2>2. OwnNumbers'
    <3>1. \A q \in Requests \ {r} : Numbered(q)' => ctl'[q].id \in 1..counter
      BY <1>3, <2>1 DEF OwnNumbers, Numbered
    <3>2. \A q \in Requests : Numbered(q)' => ctl'[q].id \in 1..(counter + 1)
      BY <1>1, <1>3, <3>1
    <3>3. \A p, q \in Requests : Numbered(p)' /\ Numbered(q)' /\ ctl'[p].id = ctl'[q].id => p = q
      BY <1>1, <1>3, <2>1, <3>1 DEF OwnNumbers, Numbered
    <3> QED
      BY <1>2, <3>2, <3>3 DEF OwnNumbers
  <2>3. OwnRows'
    <3>1. \A i \in Ids : versions[i] # [by |-> r] /\ jobs[i] # [by |-> r]
      BY <1>1, <2>1 DEF OwnRows
    <3>2. ASSUME NEW i \in Ids, NEW q \in Requests
          PROVE  /\ versions'[i] = [by |-> q] => /\ ctl'[q].id = i
                                                 /\ ctl'[q].at \notin {"new", "numbered", "strategy"}
                 /\ jobs'[i] = [by |-> q] => /\ ctl'[q].id = i
                                             /\ ctl'[q].at \in {"job", "versioned", "done", "failed"}
      <4>1. CASE q = r
        BY <1>2, <3>1, <4>1
      <4>2. CASE q # r
        <5>1. ctl'[q] = ctl[q] /\ versions' = versions /\ jobs' = jobs
          BY <1>2, <1>3, <4>2
        <5> QED
          BY <2>1, <5>1 DEF OwnRows
      <4> QED
        BY <4>1, <4>2
    <3>3. ASSUME NEW q \in Requests
          PROVE  /\ PastStrategy(q)' => strategies'[ctl'[q].id] = [by |-> q]
                 /\ PastVersion(q)' => versions'[ctl'[q].id] = [by |-> q]
                 /\ PastJob(q)' => jobs'[ctl'[q].id] = [by |-> q]
      <4>1. CASE q = r
        BY <1>3, <4>1 DEF PastStrategy, PastVersion, PastJob
      <4>2. CASE q # r
        <5>1. ctl'[q] = ctl[q] /\ strategies' = strategies /\ versions' = versions /\ jobs' = jobs
          BY <1>2, <1>3, <4>2
        <5> QED
          BY <2>1, <5>1 DEF OwnRows, PastStrategy, PastVersion, PastJob
      <4> QED
        BY <4>1, <4>2
    <3>4. \A i \in Ids : jobs'[i] # None => versions'[i] = jobs'[i] /\ strategies'[i] = jobs'[i]
      BY <1>2, <2>1 DEF OwnRows
    <3> QED
      BY <3>2, <3>3, <3>4 DEF OwnRows, Ids
  <2>4. OwnResults'
    BY <1>2, <2>1 DEF OwnResults, OfJob
  <2> QED
    BY <2>2, <2>3, <2>4
<1>13. ASSUME faults' = 0 PROVE FaultFree'
  BY <1>2, <1>3, <1>13 DEF SpineInv, FaultFree
<1> QED
  BY <1>8, <1>9, <1>10, <1>11, <1>12, <1>13 DEF SpineInv

\* A request under way that goes on or fails keeps its number.
LEMMA NumbersKept ==
  ASSUME SpineInv, NEW r \in Requests, Busy(r), NEW at \in Stages \ {"new"},
         CtlStep(r, at, ctl[r].id), counter' = counter
  PROVE  CounterInv' /\ (OwnNumbers => OwnNumbers')
<1>1. /\ \A q \in Requests : Numbered(q)' <=> Numbered(q)
      /\ \A q \in Requests : ctl'[q].id = ctl[q].id
      /\ \A q \in Requests : Busy(q)' => Busy(q)
  BY DEF CtlStep, Numbered, Busy
<1>2. CounterInv
  BY DEF SpineInv
<1>3. \A q \in Requests : Busy(q)' => ctl'[q].id \in Ids
  BY <1>1, <1>2 DEF CounterInv
<1>4. CounterInv'
  BY <1>1, <1>2, <1>3, CounterKept
<1> QED
  BY <1>1, <1>4 DEF OwnNumbers

\* The five steps of create_version_and_enqueue_test, each of them by the
\* stage that it leaves.
After == [numbered |-> "strategy", strategy |-> "version", version |-> "job",
          job |-> "versioned", versioned |-> "done"]
LEMMA CreateSteps ==
  ASSUME SpineInv, NEW r \in Requests, CreateStep(r)
  PROVE  \E i \in Ids, at \in {"numbered", "strategy", "version", "job", "versioned"} :
           /\ ctl[r].at = at /\ ctl[r].id = i /\ CtlStep(r, After[at], i)
           /\ strategies' = IF at = "numbered" THEN [strategies EXCEPT ![i] = [by |-> r]] ELSE strategies
           /\ versions' = IF at = "strategy" THEN [versions EXCEPT ![i] = [by |-> r]] ELSE versions
           /\ jobs' = IF at = "version" THEN [jobs EXCEPT ![i] = [by |-> r]] ELSE jobs
           /\ stream' = stream \cup (IF at = "job" THEN {<<"strategy.versioned", i>>} ELSE {})
                               \cup (IF at = "versioned" THEN {<<"test.enqueued", i>>} ELSE {})
<1>1. SpineTyped
  BY DEF SpineInv
<1>2. PICK at : at = ctl[r].at
  OBVIOUS
<1>3. at \in {"numbered", "strategy", "version", "job", "versioned"} /\ To(r, After[at])
  BY <1>2 DEF CreateStep, SaveStrategy, SaveVersion, SaveJob, PublishVersioned, PublishEnqueued, After
<1>4. PICK i : i = ctl[r].id
  OBVIOUS
<1>5. i \in Ids
  BY <1>2, <1>3, <1>4 DEF SpineInv, CounterInv, Busy
<1>6. CtlStep(r, After[at], i)
  BY <1>1, <1>3, <1>4, ToStep DEF After, Stages
<1>7. /\ strategies' = IF at = "numbered" THEN [strategies EXCEPT ![i] = [by |-> r]] ELSE strategies
      /\ versions' = IF at = "strategy" THEN [versions EXCEPT ![i] = [by |-> r]] ELSE versions
      /\ jobs' = IF at = "version" THEN [jobs EXCEPT ![i] = [by |-> r]] ELSE jobs
  BY <1>2, <1>4 DEF CreateStep, SaveStrategy, SaveVersion, SaveJob, PublishVersioned, PublishEnqueued, Tables
<1>8. stream' = stream \cup (IF at = "job" THEN {<<"strategy.versioned", i>>} ELSE {})
                       \cup (IF at = "versioned" THEN {<<"test.enqueued", i>>} ELSE {})
  BY <1>2, <1>4 DEF CreateStep, SaveStrategy, SaveVersion, SaveJob, PublishVersioned, PublishEnqueued, Tables
<1> QED
  BY <1>2, <1>3, <1>4, <1>5, <1>6, <1>7, <1>8

LEMMA CreateStepKeeps ==
  ASSUME SpineInv, NEW r \in Requests, CreateStep(r)
  PROVE  SpineInv'
<1>1. SpineTyped /\ CounterInv /\ PassedInv /\ AnnouncedIsSaved
  BY DEF SpineInv
<1>2. PICK i \in Ids, at \in {"numbered", "strategy", "version", "job", "versioned"} :
           /\ ctl[r].at = at /\ ctl[r].id = i /\ CtlStep(r, After[at], i)
           /\ strategies' = IF at = "numbered" THEN [strategies EXCEPT ![i] = [by |-> r]] ELSE strategies
           /\ versions' = IF at = "strategy" THEN [versions EXCEPT ![i] = [by |-> r]] ELSE versions
           /\ jobs' = IF at = "version" THEN [jobs EXCEPT ![i] = [by |-> r]] ELSE jobs
           /\ stream' = stream \cup (IF at = "job" THEN {<<"strategy.versioned", i>>} ELSE {})
                               \cup (IF at = "versioned" THEN {<<"test.enqueued", i>>} ELSE {})
  BY CreateSteps
<1>3. UNCHANGED <<store, counter, suggestions, results, copies, faults, restarts>>
  BY DEF CreateStep
<1>4. /\ \A q \in Requests \ {r} : ctl'[q] = ctl[q]
      /\ ctl'[r].at = After[at] /\ ctl'[r].id = i
  BY <1>2 DEF CtlStep
<1>5. /\ strategies \in [Ids -> StrategyIdentity \cup {None}] /\ versions \in [Ids -> StrategyVersionIdentity \cup {None}]
      /\ jobs \in [Ids -> WorkflowJobRecord \cup {None}]
      /\ [by |-> r] \in StrategyIdentity /\ [by |-> r] \in StrategyVersionIdentity /\ [by |-> r] \in WorkflowJobRecord
      /\ [by |-> r] # None
  BY <1>1, RowsAreNotNone DEF SpineTyped, StrategyIdentity, StrategyVersionIdentity, WorkflowJobRecord
<1>6. /\ strategies' \in [Ids -> StrategyIdentity \cup {None}] /\ versions' \in [Ids -> StrategyVersionIdentity \cup {None}]
      /\ jobs' \in [Ids -> WorkflowJobRecord \cup {None}]
  BY <1>2, <1>5
<1>7. \A j \in Ids :
        /\ strategies'[j] = IF at = "numbered" /\ j = i THEN [by |-> r] ELSE strategies[j]
        /\ versions'[j] = IF at = "strategy" /\ j = i THEN [by |-> r] ELSE versions[j]
        /\ jobs'[j] = IF at = "version" /\ j = i THEN [by |-> r] ELSE jobs[j]
  BY <1>2, <1>5
<1>8. \A x \in stream : x \in stream'
  BY <1>2
<1>9. Busy(r) /\ After[at] \in Stages \ {"new"} /\ After[at] # "failed"
  BY <1>2 DEF Busy, After, Stages
<1>10. CounterInv' /\ (OwnNumbers => OwnNumbers')
  BY <1>2, <1>3, <1>9, NumbersKept
<1>11. SpineTyped'
  BY <1>1, <1>2, <1>3, <1>6 DEF SpineTyped, CtlStep, Ids
<1>12. PassedInv'
  <2>1. ASSUME NEW q \in Requests
        PROVE  /\ PastStrategy(q)' => strategies'[ctl'[q].id] # None
               /\ PastVersion(q)' => versions'[ctl'[q].id] # None
               /\ PastJob(q)' => jobs'[ctl'[q].id] # None
               /\ ctl'[q].at = "versioned" => <<"strategy.versioned", ctl'[q].id>> \in stream'
    <3>1. CASE q = r
      <4>1. PastStrategy(q)' => strategies'[i] # None
        BY <1>1, <1>2, <1>4, <1>5, <1>7, <3>1 DEF PassedInv, PastStrategy, After
      <4>2. PastVersion(q)' => versions'[i] # None
        <5>1. at \in {"version", "job"} => versions[i] # None
          BY <1>1, <1>2 DEF PassedInv, PastVersion
        <5>2. PastVersion(q)' => at \in {"strategy", "version", "job"}
          BY <1>2, <1>4, <3>1 DEF PastVersion, After
        <5> QED
          BY <1>5, <1>7, <5>1, <5>2
      <4>3. PastJob(q)' => jobs'[i] # None
        <5>1. at = "job" => jobs[i] # None
          BY <1>1, <1>2 DEF PassedInv, PastJob
        <5>2. PastJob(q)' => at \in {"version", "job"}
          BY <1>2, <1>4, <3>1 DEF PastJob, After
        <5> QED
          BY <1>5, <1>7, <5>1, <5>2
      <4>4. After[at] = "versioned" => <<"strategy.versioned", i>> \in stream'
        BY <1>2 DEF After
      <4> QED
        BY <1>4, <3>1, <4>1, <4>2, <4>3, <4>4
    <3>2. CASE q # r
      <4>1. ctl'[q] = ctl[q] /\ (PastStrategy(q) => ctl[q].id \in Ids)
        BY <1>1, <1>4, <3>2 DEF CounterInv, Busy, PastStrategy
      <4>2. PastVersion(q) \/ PastJob(q) => PastStrategy(q)
        BY DEF PastStrategy, PastVersion, PastJob
      <4>3. /\ PastStrategy(q)' <=> PastStrategy(q)
            /\ PastVersion(q)' <=> PastVersion(q)
            /\ PastJob(q)' <=> PastJob(q)
        BY <4>1 DEF PastStrategy, PastVersion, PastJob
      <4> QED
        BY <1>1, <1>5, <1>7, <1>8, <4>1, <4>2, <4>3 DEF PassedInv
    <3> QED
      BY <3>1, <3>2
  <2>2. \A j \in Ids : jobs'[j] # None => versions'[j] # None /\ strategies'[j] # None
    <3>1. at = "version" => versions[i] # None /\ strategies[i] # None
      BY <1>1, <1>2 DEF PassedInv, PastStrategy, PastVersion
    <3> QED
      BY <1>1, <1>5, <1>7, <3>1 DEF PassedInv
  <2> QED
    BY <2>1, <2>2 DEF PassedInv, Ids
<1>13. AnnouncedIsSaved'
  <2>1. ASSUME NEW j \in Ids, <<"test.enqueued", j>> \in stream'
        PROVE  jobs'[j] # None /\ <<"strategy.versioned", j>> \in stream'
    <3>1. CASE <<"test.enqueued", j>> \in stream
      BY <1>1, <1>5, <1>7, <1>8, <3>1 DEF AnnouncedIsSaved
    <3>2. CASE <<"test.enqueued", j>> \notin stream
      <4>1. at = "versioned" /\ j = i
        BY <1>2, <2>1, <3>2
      <4> QED
        BY <1>1, <1>2, <1>5, <1>7, <1>8, <4>1 DEF PassedInv, PastJob
    <3> QED
      BY <3>1, <3>2
  <2> QED
    BY <2>1 DEF AnnouncedIsSaved, Ids
<1>14. ASSUME faults' = 0 PROVE FaultFree'
  <2>1. FaultFree
    BY <1>3, <1>14 DEF SpineInv
  <2>2. After[at] = "done" => <<"test.enqueued", i>> \in stream'
    BY <1>2 DEF After
  <2> QED
    BY <1>4, <1>8, <1>9, <2>1, <2>2 DEF FaultFree
<1>15. ASSUME restarts' = 0 PROVE (OwnRows /\ OwnResults)'
  <2>1. OwnNumbers /\ OwnRows /\ OwnResults
    BY <1>3, <1>15 DEF SpineInv
  <2>2. \A q \in Requests \ {r} : Numbered(q) => ctl[q].id # i
    BY <1>2, <2>1 DEF OwnNumbers, Numbered
  <2>3. at \in {"numbered", "strategy", "version"} => jobs[i] = None
    <3>1. jobs[i] # None => jobs[i] = [by |-> jobs[i].by] /\ jobs[i].by \in Requests
      BY <1>5, RowsAreNotNone
    <3>2. \A q \in Requests : jobs[i] = [by |-> q] =>
            ctl[q].id = i /\ ctl[q].at \in {"job", "versioned", "done", "failed"}
      BY <2>1 DEF OwnRows
    <3> QED
      BY <1>2, <2>2, <3>1, <3>2 DEF Numbered
  <2>4. \A q \in Requests : [by |-> q] = [by |-> r] => q = r
    <3>1. \A q \in Requests : [by |-> q].by = q
      OBVIOUS
    <3> QED
      BY <3>1
  <2>5. ASSUME NEW j \in Ids, NEW q \in Requests, versions'[j] = [by |-> q]
        PROVE  ctl'[q].id = j /\ ctl'[q].at \notin {"new", "numbered", "strategy"}
    <3>1. CASE at = "strategy" /\ j = i
      <4>1. q = r
        BY <1>7, <2>4, <2>5, <3>1
      <4> QED
        BY <1>4, <3>1, <4>1 DEF After
    <3>2. CASE ~(at = "strategy" /\ j = i)
      <4>1. ctl[q].id = j /\ ctl[q].at \notin {"new", "numbered", "strategy"}
        BY <1>7, <2>1, <2>5, <3>2 DEF OwnRows
      <4> QED
        BY <1>2, <1>4, <4>1 DEF After
    <3> QED
      BY <3>1, <3>2
  <2>6. ASSUME NEW j \in Ids, NEW q \in Requests, jobs'[j] = [by |-> q]
        PROVE  ctl'[q].id = j /\ ctl'[q].at \in {"job", "versioned", "done", "failed"}
    <3>1. CASE at = "version" /\ j = i
      <4>1. q = r
        BY <1>7, <2>4, <2>6, <3>1
      <4> QED
        BY <1>4, <3>1, <4>1 DEF After
    <3>2. CASE ~(at = "version" /\ j = i)
      <4>1. ctl[q].id = j /\ ctl[q].at \in {"job", "versioned", "done", "failed"}
        BY <1>7, <2>1, <2>6, <3>2 DEF OwnRows
      <4> QED
        BY <1>2, <1>4, <4>1 DEF After
    <3> QED
      BY <3>1, <3>2
  <2>7. ASSUME NEW q \in Requests
        PROVE  /\ PastStrategy(q)' => strategies'[ctl'[q].id] = [by |-> q]
               /\ PastVersion(q)' => versions'[ctl'[q].id] = [by |-> q]
               /\ PastJob(q)' => jobs'[ctl'[q].id] = [by |-> q]
    <3>1. CASE q = r
      <4>1. PastStrategy(q)' => strategies'[i] = [by |-> r]
        <5>1. at \in {"strategy", "version", "job"} => strategies[i] = [by |-> r]
          BY <1>2, <2>1 DEF OwnRows, PastStrategy
        <5>2. PastStrategy(q)' => at \in {"numbered", "strategy", "version", "job"}
          BY <1>2, <1>4, <3>1 DEF PastStrategy, After
        <5> QED
          BY <1>7, <5>1, <5>2
      <4>2. PastVersion(q)' => versions'[i] = [by |-> r]
        <5>1. at \in {"version", "job"} => versions[i] = [by |-> r]
          BY <1>2, <2>1 DEF OwnRows, PastVersion
        <5>2. PastVersion(q)' => at \in {"strategy", "version", "job"}
          BY <1>2, <1>4, <3>1 DEF PastVersion, After
        <5> QED
          BY <1>7, <5>1, <5>2
      <4>3. PastJob(q)' => jobs'[i] = [by |-> r]
        <5>1. at = "job" => jobs[i] = [by |-> r]
          BY <1>2, <2>1 DEF OwnRows, PastJob
        <5>2. PastJob(q)' => at \in {"version", "job"}
          BY <1>2, <1>4, <3>1 DEF PastJob, After
        <5> QED
          BY <1>7, <5>1, <5>2
      <4> QED
        BY <1>4, <3>1, <4>1, <4>2, <4>3
    <3>2. CASE q # r
      <4>1. ctl'[q] = ctl[q] /\ (PastStrategy(q) => ctl[q].id \in Ids /\ ctl[q].id # i)
        BY <1>1, <1>4, <2>2, <3>2 DEF CounterInv, Busy, PastStrategy, Numbered
      <4>2. PastVersion(q) \/ PastJob(q) => PastStrategy(q)
        BY DEF PastStrategy, PastVersion, PastJob
      <4>3. /\ PastStrategy(q)' <=> PastStrategy(q)
            /\ PastVersion(q)' <=> PastVersion(q)
            /\ PastJob(q)' <=> PastJob(q)
        BY <4>1 DEF PastStrategy, PastVersion, PastJob
      <4> QED
        BY <1>7, <2>1, <4>1, <4>2, <4>3 DEF OwnRows
    <3> QED
      BY <3>1, <3>2
  <2>8. \A j \in Ids : jobs'[j] # None => versions'[j] = jobs'[j] /\ strategies'[j] = jobs'[j]
    <3>1. at = "version" => versions[i] = [by |-> r] /\ strategies[i] = [by |-> r]
      BY <1>2, <2>1 DEF OwnRows, PastStrategy, PastVersion
    <3> QED
      BY <1>7, <2>1, <2>3, <3>1 DEF OwnRows
  <2>9. OwnRows'
    BY <2>5, <2>6, <2>7, <2>8 DEF OwnRows, Ids
  <2>10. \A j \in Ids, q \in Requests : jobs[j] = [by |-> q] => jobs'[j] = [by |-> q]
    BY <1>5, <1>7, <2>3, RowsAreNotNone
  <2>11. OwnResults'
    <3>1. /\ \A k \in DOMAIN results : results[k].job \in Ids /\ results[k].by \in Requests
          /\ \A x \in ResultIds : copies[x] # None => copies[x].job \in Ids /\ copies[x].by \in Requests
          /\ \A x \in SuggestionIds : suggestions[x] # None =>
                suggestions[x].lineage \in Ids /\ suggestions[x].by \in Requests
      BY <1>1, RowFields
    <3> QED
      BY <1>3, <2>1, <2>10, <3>1 DEF OwnResults, OfJob
  <2> QED
    BY <2>9, <2>11
<1> QED
  BY <1>3, <1>10, <1>11, <1>12, <1>13, <1>14, <1>15 DEF SpineInv

\* A failed request leaves its rows behind, and is a fault.
LEMMA CreateFailsKeeps ==
  ASSUME SpineInv, NEW r \in Requests, CreateFails(r)
  PROVE  SpineInv'
<1>1. SpineTyped /\ CounterInv /\ PassedInv /\ AnnouncedIsSaved /\ Busy(r)
  BY DEF SpineInv, CreateFails
<1>2. CtlStep(r, "failed", ctl[r].id)
  BY <1>1, ToStep DEF CreateFails, Stages
<1>3. UNCHANGED <<store, counter, strategies, versions, jobs, suggestions, results, copies, stream, restarts>>
      /\ faults' = faults + 1 /\ faults < MaxFaults
  BY DEF CreateFails
<1>4. /\ \A q \in Requests \ {r} : ctl'[q] = ctl[q]
      /\ ctl'[r].at = "failed" /\ ctl'[r].id = ctl[r].id
  BY <1>2 DEF CtlStep
<1>5. CounterInv' /\ (OwnNumbers => OwnNumbers')
  BY <1>1, <1>2, <1>3, NumbersKept DEF Stages
<1>6. faults' \in 0..MaxFaults /\ faults' # 0 /\ restarts' \in 0..faults'
  <2>1. faults \in Nat /\ restarts \in 0..faults /\ MaxFaults \in Nat
    BY <1>1, SpineAssumption DEF SpineTyped
  <2> QED
    BY <1>3, <2>1
<1>7. SpineTyped'
  BY <1>1, <1>2, <1>3, <1>6 DEF SpineTyped, CtlStep, Ids
<1>8. \A q \in Requests :
        /\ PastStrategy(q)' => PastStrategy(q)
        /\ PastVersion(q)' => PastVersion(q)
        /\ PastJob(q)' => PastJob(q)
        /\ ctl'[q].at = "versioned" => ctl[q].at = "versioned"
        /\ ctl'[q].id = ctl[q].id
  BY <1>4 DEF PastStrategy, PastVersion, PastJob
<1>9. PassedInv'
  BY <1>1, <1>3, <1>8 DEF PassedInv, Ids
<1>10. AnnouncedIsSaved'
  BY <1>1, <1>3 DEF AnnouncedIsSaved, Ids
<1>11. ASSUME restarts' = 0 PROVE (OwnRows /\ OwnResults)'
  <2>1. OwnNumbers /\ OwnRows /\ OwnResults
    BY <1>3, <1>11 DEF SpineInv
  <2>2. OwnResults'
    BY <1>3, <2>1 DEF OwnResults, OfJob
  <2>3. \A j \in Ids, q \in Requests : versions'[j] = [by |-> q] =>
          ctl'[q].id = j /\ ctl'[q].at \notin {"new", "numbered", "strategy"}
    BY <1>3, <1>4, <2>1 DEF OwnRows
  <2>4. \A j \in Ids, q \in Requests : jobs'[j] = [by |-> q] =>
          ctl'[q].id = j /\ ctl'[q].at \in {"job", "versioned", "done", "failed"}
    BY <1>3, <1>4, <2>1 DEF OwnRows
  <2>5. OwnRows'
    BY <1>3, <1>8, <2>1, <2>3, <2>4 DEF OwnRows, Ids
  <2> QED
    BY <2>2, <2>5
<1> QED
  BY <1>3, <1>5, <1>6, <1>7, <1>9, <1>10, <1>11 DEF SpineInv

\* A save puts the result, and no other, into the listing.
LEMMA SavedRows ==
  ASSUME SpineTyped, NEW x \in WorkflowResultRecord
  PROVE  /\ Saved(x) \in Seq(WorkflowResultRecord)
         /\ \A n \in DOMAIN Saved(x) : Saved(x)[n] = x \/ \E k \in DOMAIN results : Saved(x)[n] = results[k]
<1>1. results \in Seq(WorkflowResultRecord)
  BY DEF SpineTyped
<1>2. CASE store = "postgres" /\ \E k \in DOMAIN results : results[k].id = x.id
  <2>1. Saved(x) = [k \in DOMAIN results |-> IF results[k].id = x.id THEN x ELSE results[k]]
    BY <1>2 DEF Saved
  <2>2. DOMAIN results = 1..Len(results) /\ Len(results) \in Nat /\ \A k \in DOMAIN results : results[k] \in WorkflowResultRecord
    BY <1>1
  <2>3. Saved(x) \in [1..Len(results) -> WorkflowResultRecord]
    BY <2>1, <2>2
  <2>4. Saved(x) \in Seq(WorkflowResultRecord)
    BY <2>2, <2>3
  <2> QED
    BY <2>1, <2>4
<1>3. CASE ~(store = "postgres" /\ \E k \in DOMAIN results : results[k].id = x.id)
  <2>1. Saved(x) = Append(Others(x.id), x)
    BY <1>3 DEF Saved
  <2>2. /\ Others(x.id) \in Seq(WorkflowResultRecord)
        /\ \A n \in DOMAIN Others(x.id) : \E k \in DOMAIN results : Others(x.id)[n] = results[k]
    <3>1. PICK K \in SUBSET DOMAIN results : K = {k \in DOMAIN results : results[k].id # x.id}
      OBVIOUS
    <3>2. /\ Rows(results, K) \in Seq(WorkflowResultRecord)
          /\ \A n \in DOMAIN Rows(results, K) : \E k \in K : Rows(results, K)[n] = results[k]
      BY <1>1, RowsOf
    <3>3. Others(x.id) = Rows(results, K)
      BY <3>1 DEF Others
    <3> QED
      BY <3>2, <3>3
  <2>3. PICK o \in Seq(WorkflowResultRecord) :
          o = Others(x.id) /\ \A n \in DOMAIN o : \E k \in DOMAIN results : o[n] = results[k]
    BY <2>2
  <2>4. Append(o, x) \in Seq(WorkflowResultRecord)
        /\ \A n \in DOMAIN Append(o, x) : Append(o, x)[n] = x \/ (n \in DOMAIN o /\ Append(o, x)[n] = o[n])
    OBVIOUS
  <2> QED
    BY <2>1, <2>3, <2>4
<1> QED
  BY <1>2, <1>3

LEMMA RecordResultKeeps ==
  ASSUME SpineInv, NEW i \in ResultIds, NEW j \in Ids, RecordResult(i, j)
  PROVE  SpineInv'
<1>1. SpineTyped /\ CounterInv /\ PassedInv /\ AnnouncedIsSaved
  BY DEF SpineInv
<1>2. /\ UNCHANGED <<store, counter, strategies, versions, jobs, suggestions, ctl, restarts>>
      /\ jobs[j] # None /\ jobs[j].by \in Requests /\ jobs[j] = [by |-> jobs[j].by]
  <2>1. jobs[j] \in WorkflowJobRecord \cup {None} /\ jobs[j] # None
    BY <1>1 DEF SpineTyped, RecordResult
  <2> QED
    BY <2>1, RowsAreNotNone DEF RecordResult
<1>3. PICK x \in WorkflowResultRecord : x = [by |-> jobs[j].by, id |-> i, job |-> j] /\ x.job = j /\ x.by = jobs[j].by
  <2>1. [by |-> jobs[j].by, id |-> i, job |-> j] \in WorkflowResultRecord
    BY <1>2 DEF WorkflowResultRecord
  <2> QED
    BY <2>1
<1>4. /\ copies' \in [ResultIds -> WorkflowResultRecord \cup {None}]
      /\ \A k \in ResultIds : copies'[k] = x \/ copies'[k] = copies[k]
  <2>1. copies \in [ResultIds -> WorkflowResultRecord \cup {None}]
    BY <1>1 DEF SpineTyped
  <2>2. copies' = IF store = "postgres" THEN [copies EXCEPT ![i] = x] ELSE copies
    BY <1>3 DEF RecordResult
  <2> QED
    BY <2>1, <2>2
<1>5. /\ results' = Saved(x) \/ results' = results
      /\ \A y \in stream : y \in stream'
      /\ \A k \in Ids : <<"test.enqueued", k>> \in stream' => <<"test.enqueued", k>> \in stream
      /\ faults' = faults \/ (faults < MaxFaults /\ faults' = faults + 1)
  BY <1>3 DEF RecordResult
<1>6. /\ results' \in Seq(WorkflowResultRecord)
      /\ \A n \in DOMAIN results' : results'[n] = x \/ \E k \in DOMAIN results : results'[n] = results[k]
  BY <1>1, <1>5, SavedRows DEF SpineTyped
<1>7. faults' \in 0..MaxFaults /\ restarts' \in 0..faults' /\ (faults' = 0 => faults = 0)
  <2>1. faults \in 0..MaxFaults /\ restarts \in 0..faults /\ MaxFaults \in Nat
    BY <1>1, SpineAssumption DEF SpineTyped
  <2> QED
    BY <1>2, <1>5, <2>1
<1>8. SpineTyped'
  BY <1>1, <1>2, <1>4, <1>6, <1>7 DEF SpineTyped, Ids
<1>9. CounterInv'
  BY <1>1, <1>2, CounterKept DEF Numbered, Busy, CounterInv
<1>10. PassedInv'
  BY <1>1, <1>2, <1>5 DEF PassedInv, PastStrategy, PastVersion, PastJob, Ids
<1>11. AnnouncedIsSaved'
  BY <1>1, <1>2, <1>5 DEF AnnouncedIsSaved, Ids
<1>12. ASSUME restarts' = 0 PROVE (OwnNumbers /\ OwnRows /\ OwnResults)'
  <2>1. OwnNumbers /\ OwnRows /\ OwnResults
    BY <1>2, <1>12 DEF SpineInv
  <2>2. OwnNumbers'
    BY <1>2, <2>1 DEF OwnNumbers, Numbered
  <2>3. OwnRows'
    BY <1>2, <2>1 DEF OwnRows, PastStrategy, PastVersion, PastJob, Ids
  <2>4. OfJob(x)
    BY <1>2, <1>3 DEF OfJob
  <2>5. \A y : OfJob(y)' <=> OfJob(y)
    BY <1>2 DEF OfJob
  <2>6. /\ \A n \in DOMAIN results' : OfJob(results'[n])
        /\ \A k \in ResultIds : copies'[k] # None => OfJob(copies'[k])
    BY <1>4, <1>6, <2>1, <2>4 DEF OwnResults
  <2>7. OwnResults'
    BY <1>2, <2>1, <2>5, <2>6 DEF OwnResults, OfJob
  <2> QED
    BY <2>2, <2>3, <2>7
<1>13. ASSUME faults' = 0 PROVE FaultFree'
  BY <1>2, <1>5, <1>7, <1>13 DEF SpineInv, FaultFree
<1> QED
  BY <1>8, <1>9, <1>10, <1>11, <1>12, <1>13 DEF SpineInv

\* The result that is looked up is none, or one of a table.
LEMMA ResultFound ==
  ASSUME SpineTyped, NEW i \in ResultIds
  PROVE  /\ Result(i) \in WorkflowResultRecord \cup {None}
         /\ restarts = 0 /\ OwnResults /\ Result(i) # None => OfJob(Result(i))
<1> DEFINE hits == {k \in DOMAIN results : results[k].id = i}
<1>1. CASE hits = {}
  BY <1>1 DEF Result, SpineTyped, OwnResults
<1>2. CASE hits # {}
  <2>1. PICK k \in DOMAIN results : Result(i) = results[k]
    BY <1>2 DEF Result
  <2> QED
    BY <2>1 DEF SpineTyped, OwnResults
<1> QED
  BY <1>1, <1>2

LEMMA RecordSuggestionKeeps ==
  ASSUME SpineInv, NEW s \in SuggestionIds, NEW i \in ResultIds, RecordSuggestion(s, i)
  PROVE  SpineInv'
<1>1. SpineTyped /\ CounterInv /\ PassedInv /\ AnnouncedIsSaved
  BY DEF SpineInv
<1>2. /\ UNCHANGED <<store, counter, strategies, versions, jobs, results, copies, ctl, faults, restarts>>
      /\ stream' = stream \cup {<<"suggestion.created", s>>}
  BY DEF RecordSuggestion
<1>3. PICK x \in WorkflowResultRecord : x = Result(i) /\ Result(i) # None
  BY <1>1, ResultFound DEF RecordSuggestion
<1>4. PICK v \in StrategyVersionIdentity : v = versions[x.job] /\ suggestions' = [suggestions EXCEPT ![s] = SuggestionOf(x, v)]
  <2>1. x.job \in Ids
    BY DEF WorkflowResultRecord
  <2>2. versions[x.job] \in StrategyVersionIdentity \cup {None} /\ versions[x.job] # None
    BY <1>1, <1>3, <2>1 DEF SpineTyped, RecordSuggestion
  <2> QED
    BY <1>3, <2>2 DEF RecordSuggestion
<1>5. PICK y \in AiSuggestionRecord :
        /\ y = SuggestionOf(x, v) /\ y.by = x.by /\ y.lineage = x.job /\ y.thread = v.by
  <2>1. x.by \in Requests /\ x.id \in ResultIds /\ x.job \in Ids /\ v.by \in Requests
    BY DEF WorkflowResultRecord, StrategyVersionIdentity
  <2>2. SuggestionOf(x, v) \in AiSuggestionRecord
    BY <2>1 DEF SuggestionOf, AiSuggestionRecord
  <2> QED
    BY <2>2 DEF SuggestionOf
<1>6. /\ suggestions' \in [SuggestionIds -> AiSuggestionRecord \cup {None}]
      /\ \A t \in SuggestionIds : suggestions'[t] = y \/ suggestions'[t] = suggestions[t]
  <2>1. suggestions \in [SuggestionIds -> AiSuggestionRecord \cup {None}]
    BY <1>1 DEF SpineTyped
  <2> QED
    BY <1>4, <1>5, <2>1
<1>7. SpineTyped'
  BY <1>1, <1>2, <1>6 DEF SpineTyped, Ids
<1>8. CounterInv'
  BY <1>1, <1>2, CounterKept DEF Numbered, Busy, CounterInv
<1>9. PassedInv'
  BY <1>1, <1>2 DEF PassedInv, PastStrategy, PastVersion, PastJob, Ids
<1>10. AnnouncedIsSaved'
  BY <1>1, <1>2 DEF AnnouncedIsSaved, Ids
<1>11. ASSUME restarts' = 0 PROVE (OwnNumbers /\ OwnRows /\ OwnResults)'
  <2>1. OwnNumbers /\ OwnRows /\ OwnResults /\ restarts = 0
    BY <1>2, <1>11 DEF SpineInv
  <2>2. OwnNumbers'
    BY <1>2, <2>1 DEF OwnNumbers, Numbered
  <2>3. OwnRows'
    BY <1>2, <2>1 DEF OwnRows, PastStrategy, PastVersion, PastJob, Ids
  <2>4. jobs[x.job] = [by |-> x.by] /\ jobs[x.job] # None /\ x.job \in Ids
    <3>1. OfJob(x)
      BY <1>1, <1>3, <2>1, ResultFound
    <3>2. x.by \in Requests /\ x.job \in Ids
      BY DEF WorkflowResultRecord
    <3> QED
      BY <3>1, <3>2, RowsAreNotNone DEF OfJob
  <2>5. v.by = x.by
    <3>1. v = [by |-> x.by]
      BY <1>4, <2>1, <2>4 DEF OwnRows
    <3> QED
      BY <3>1
  <2>6. \A t \in SuggestionIds : suggestions'[t] # None =>
          jobs'[suggestions'[t].lineage] = [by |-> suggestions'[t].by] /\ suggestions'[t].thread = suggestions'[t].by
    BY <1>2, <1>5, <1>6, <2>1, <2>4, <2>5 DEF OwnResults
  <2>7. OwnResults'
    BY <1>2, <2>1, <2>6 DEF OwnResults, OfJob
  <2> QED
    BY <2>2, <2>3, <2>7
<1>12. ASSUME faults' = 0 PROVE FaultFree'
  BY <1>2, <1>12 DEF SpineInv, FaultFree
<1> QED
  BY <1>7, <1>8, <1>9, <1>10, <1>11, <1>12 DEF SpineInv

\* A restart ends every request under way and empties what is not durable.
LEMMA RestartKeeps ==
  ASSUME SpineInv, Restart
  PROVE  SpineInv'
<1>1. SpineTyped /\ CounterInv /\ PassedInv
  BY DEF SpineInv
<1>2. /\ ctl' \in [Requests -> [at : Stages, id : Nat]]
      /\ \A r \in Requests : /\ ctl'[r].at = IF Busy(r) THEN "failed" ELSE ctl[r].at
                             /\ ctl'[r].id = ctl[r].id
  <2>1. \A r \in Requests : ctl[r] \in [at : Stages, id : Nat]
    BY <1>1 DEF SpineTyped
  <2>2. \A r \in Requests : [ctl[r] EXCEPT !.at = "failed"] \in [at : Stages, id : Nat]
    BY <2>1 DEF Stages
  <2> QED
    BY <2>1, <2>2 DEF Restart
<1>3. faults \in 0..MaxFaults /\ restarts \in 0..faults /\ MaxFaults \in Nat
  BY <1>1, SpineAssumption DEF SpineTyped
<1>4. /\ faults' \in 0..MaxFaults /\ restarts' \in 0..faults' /\ faults' # 0 /\ restarts' # 0
      /\ counter' = 0 /\ stream' = {} /\ store' = store
  BY <1>3 DEF Restart
<1>5. \A r \in Requests : ~Busy(r)'
  BY <1>2 DEF Busy
<1>6. CounterInv'
  <2>1. {r \in Requests : Numbered(r)}' \subseteq Requests
    OBVIOUS
  <2>2. Cardinality({r \in Requests : Numbered(r)}') \in Nat
    BY <2>1, SpineAssumption, FS_Subset, FS_CardinalityType
  <2> QED
    BY <1>4, <1>5, <2>2 DEF CounterInv
<1>7. /\ strategies' \in [Ids -> StrategyIdentity \cup {None}]
      /\ versions' \in [Ids -> StrategyVersionIdentity \cup {None}]
      /\ jobs' \in [Ids -> WorkflowJobRecord \cup {None}]
      /\ suggestions' \in [SuggestionIds -> AiSuggestionRecord \cup {None}]
      /\ \A i \in Ids : jobs'[i] # None => versions'[i] # None /\ strategies'[i] # None
  <2>1. CASE store = "sqlite"
    BY <1>1, <2>1 DEF Restart, SpineTyped, PassedInv
  <2>2. CASE store # "sqlite"
    BY <2>2 DEF Restart, Empty
  <2> QED
    BY <2>1, <2>2
<1>8. copies' \in [ResultIds -> WorkflowResultRecord \cup {None}]
  BY DEF Restart, Empty
<1>9. results' \in Seq(WorkflowResultRecord)
  BY <1>1 DEF Restart, SpineTyped
<1>10. SpineTyped'
  BY <1>1, <1>2, <1>4, <1>7, <1>8, <1>9 DEF SpineTyped, Ids
<1>11. PassedInv'
  BY <1>5, <1>7 DEF PassedInv, PastStrategy, PastVersion, PastJob, Busy, Ids
<1>12. AnnouncedIsSaved'
  BY <1>4 DEF AnnouncedIsSaved
<1> QED
  BY <1>4, <1>6, <1>10, <1>11, <1>12 DEF SpineInv

\* The invariant of the spine is inductive.
LEMMA SpineNextInv == SpineInv /\ [SpineNext]_spineVars => SpineInv'
<1> SUFFICES ASSUME SpineInv, [SpineNext]_spineVars PROVE SpineInv'
  OBVIOUS
<1>1. CASE UNCHANGED spineVars
  <2>1. UNCHANGED <<store, counter, strategies, versions, jobs, suggestions, results, copies, stream,
                    ctl, faults, restarts>>
    BY <1>1 DEF spineVars
  <2>2. SpineTyped' /\ PassedInv' /\ AnnouncedIsSaved'
    BY <2>1 DEF SpineInv, SpineTyped, PassedInv, AnnouncedIsSaved, PastStrategy, PastVersion, PastJob
  <2>3. CounterInv'
    BY <2>1, CounterKept DEF SpineInv, Numbered, Busy, CounterInv
  <2>4. (OwnNumbers => OwnNumbers') /\ (OwnResults => OwnResults') /\ (FaultFree => FaultFree')
    BY <2>1 DEF OwnNumbers, Numbered, OwnResults, OfJob, FaultFree
  <2>5. OwnRows => OwnRows'
    BY <2>1 DEF OwnRows, PastStrategy, PastVersion, PastJob
  <2> QED
    BY <2>1, <2>2, <2>3, <2>4, <2>5 DEF SpineInv
<1> QED
  BY <1>1, TakeNumberKeeps, CreateStepKeeps, CreateFailsKeeps, RecordResultKeeps,
     RecordSuggestionKeeps, RestartKeeps DEF SpineNext

LEMMA OneRow ==
  ASSUME NEW S, NEW s \in Seq(S), NEW n \in 1..Len(s)
  PROVE  SubSeq(s, n, n)[1] = s[n] /\ Len(SubSeq(s, n, n)) = 1 /\ SubSeq(s, n, n) \in Seq(S)
<1>1. SubSeq(s, n, n)[1] = s[n]
  OBVIOUS
<1>2. Len(SubSeq(s, n, n)) = 1
  OBVIOUS
<1>3. SubSeq(s, n, n) \in Seq(S)
  OBVIOUS
<1> QED
  BY <1>1, <1>2, <1>3

\* Pages of one row, read until one is empty, show every row.
LEMMA PagesShowAll ==
  ASSUME NEW S, NEW s \in Seq(S), NEW o \in Nat, Page(s, 1, o) = <<>>
  PROVE  \A x \in Range(s) : \E k \in 0..o : o > k /\ x \in Range(Page(s, 1, k))
<1>1. \A k \in Nat : k < Len(s) => Page(s, 1, k) = SubSeq(s, k + 1, k + 1)
  BY DEF Page
<1>2. ASSUME NEW k \in Nat, k < Len(s)
      PROVE  /\ 1 \in DOMAIN SubSeq(s, k + 1, k + 1) /\ SubSeq(s, k + 1, k + 1)[1] = s[k + 1]
             /\ SubSeq(s, k + 1, k + 1) # <<>>
  <2>1. k + 1 \in 1..Len(s)
    BY <1>2
  <2>2. Len(SubSeq(s, k + 1, k + 1)) = 1 /\ SubSeq(s, k + 1, k + 1) \in Seq(S)
    BY <2>1, OneRow
  <2>3. SubSeq(s, k + 1, k + 1)[1] = s[k + 1]
    BY <2>1, OneRow
  <2>4. ASSUME NEW u \in Seq(S), Len(u) = 1 PROVE u # <<>> /\ 1 \in DOMAIN u
    <3>1. Len(<<>>) = 0 /\ 0 # 1
      OBVIOUS
    <3>2. u # <<>>
      <4> SUFFICES ASSUME u = <<>> PROVE FALSE
        OBVIOUS
      <4> QED
        BY <2>4, <3>1, Zenon
    <3>3. DOMAIN u = 1..1
      BY <2>4
    <3>4. 1 \in 1..1
      OBVIOUS
    <3> QED
      BY <3>2, <3>3, <3>4, Zenon
  <2> QED
    BY <2>2, <2>3, <2>4
<1>3. o >= Len(s)
  BY <1>1, <1>2
<1> TAKE x \in Range(s)
<1>4. PICK n \in 1..Len(s) : x = s[n]
  BY DEF Range
<1>5. n - 1 \in 0..o /\ o > n - 1 /\ n - 1 \in Nat /\ n - 1 < Len(s) /\ (n - 1) + 1 = n
  BY <1>3
<1>6. 1 \in DOMAIN Page(s, 1, n - 1) /\ Page(s, 1, n - 1)[1] = s[n]
  BY <1>1, <1>2, <1>5
<1>7. x \in Range(Page(s, 1, n - 1))
  BY <1>4, <1>6 DEF Range
<1> QED
  BY <1>5, <1>7

LEMMA PagingShowsAll == SpineTyped => PagingFindsAll
<1> SUFFICES ASSUME SpineTyped, store # "sqlite", NEW p \in {"p", "q"}, NEW o \in 0..Len(results),
                    ListResults(1, o, p) = <<>>, NEW x \in Range(Mine(p))
             PROVE  \E k \in 0..o : o > k /\ x \in Range(ListResults(1, k, p))
  BY DEF PagingFindsAll
<1>1. results \in Seq(WorkflowResultRecord) /\ o \in Nat /\ store \in {"memory", "postgres"}
  BY DEF SpineTyped
<1>2. PICK m \in Seq(WorkflowResultRecord) : m = Mine(p)
  <2>1. PICK K \in SUBSET DOMAIN results : K = {k \in DOMAIN results : Project(results[k].by) = p}
    OBVIOUS
  <2>2. Rows(results, K) \in Seq(WorkflowResultRecord)
    BY <1>1, RowsOf
  <2> QED
    BY <2>1, <2>2 DEF Mine, OfProject
<1>3. CASE store = "memory"
  <2>1. \A k : ListResults(1, k, p) = Page(m, 1, k)
    BY <1>2, <1>3 DEF ListResults
  <2> QED
    BY <1>1, <1>2, <2>1, PagesShowAll
<1>4. CASE store = "postgres"
  <2>1. \A k : ListResults(1, k, p) = Page(Reverse(m), 1, k)
    BY <1>2, <1>4 DEF ListResults
  <2>2. Reverse(m) \in Seq(WorkflowResultRecord) /\ x \in Range(Reverse(m))
    <3>1. Reverse(m) = [k \in 1..Len(m) |-> m[(Len(m) - k) + 1]]
      BY DEF Reverse
    <3>2. \A k \in 1..Len(m) : (Len(m) - k) + 1 \in 1..Len(m) /\ (Len(m) - ((Len(m) - k) + 1)) + 1 = k
      OBVIOUS
    <3>3. Reverse(m) \in [1..Len(m) -> WorkflowResultRecord]
      BY <3>1, <3>2
    <3>4. PICK n \in 1..Len(m) : x = m[n]
      BY <1>2 DEF Range
    <3>5. (Len(m) - n) + 1 \in DOMAIN Reverse(m) /\ Reverse(m)[(Len(m) - n) + 1] = x
      BY <3>1, <3>2, <3>4
    <3> QED
      BY <3>3, <3>5 DEF Range
  <2> QED
    BY <1>1, <2>1, <2>2, PagesShowAll
<1> QED
  BY <1>1, <1>3, <1>4

LEMMA OwnStatusKept == SpineInv => OwnStatusNotRefused
<1> SUFFICES ASSUME SpineInv, restarts = 0, NEW l \in Ids, jobs[l] # None,
                    LineageStatus(l, Project(jobs[l].by)) = "forbidden"
             PROVE  \E s \in SuggestionIds : /\ suggestions[s] # None /\ suggestions[s].lineage = l
                                             /\ Result(suggestions[s].result).job # l
  BY DEF OwnStatusNotRefused
<1>1. SpineTyped /\ OwnResults
  BY DEF SpineInv
<1>2. PICK p : p = Project(jobs[l].by)
  OBVIOUS
<1>3. \A r : jobs[l] = [by |-> r] => Project(r) = p
  <2> SUFFICES ASSUME NEW r, jobs[l] = [by |-> r] PROVE jobs[l].by = r
    BY <1>2
  <2> QED
    OBVIOUS
<1>4. \A s \in SuggestionIds : suggestions[s] # None /\ suggestions[s].lineage = l => s \in Suggested(l, p)
  BY <1>1, <1>3 DEF OwnResults, Suggested
<1>5. \E x \in {Result(suggestions[s].result) : s \in Suggested(l, p)} : x # None /\ Project(x.by) # p
  BY <1>2, <1>4 DEF LineageStatus
<1>6. PICK s \in Suggested(l, p) : Result(suggestions[s].result) # None
                                   /\ Project(Result(suggestions[s].result).by) # p
  BY <1>5
<1>7. s \in SuggestionIds /\ suggestions[s] # None /\ suggestions[s].lineage = l
      /\ suggestions[s].result \in ResultIds
  <2>1. s \in SuggestionIds /\ suggestions[s] # None /\ suggestions[s].lineage = l
    BY DEF Suggested
  <2>2. suggestions[s] \in AiSuggestionRecord
    BY <1>1, <2>1 DEF SpineTyped
  <2> QED
    BY <2>1, <2>2 DEF AiSuggestionRecord
<1>8. OfJob(Result(suggestions[s].result))
  BY <1>1, <1>6, <1>7, ResultFound
<1>9. Result(suggestions[s].result).job # l
  BY <1>3, <1>6, <1>8 DEF OfJob
<1> QED
  BY <1>7, <1>9

\* The rows, events, pages and answers of the spine belong together, for any
\* number of requests, results, suggestions and faults and with each of the
\* three stores (StrategyTestWorkflowService).
THEOREM SpineAlwaysConsistent == SpineSpec => []SpineIsConsistent
<1>1. SpineInv => JobHasParents /\ AnnouncedIsSaved
  BY DEF SpineInv, PassedInv, OwnRows, JobHasParents
<1>2. SpineInv => StrandedOnlyAfterFault
  <2> SUFFICES ASSUME SpineInv, faults = 0, ~ \E r \in Requests : Busy(r), NEW i \in Ids, jobs[i] # None
               PROVE  <<"test.enqueued", i>> \in stream
    BY DEF StrandedOnlyAfterFault
  <2>1. restarts = 0
    BY DEF SpineInv, SpineTyped
  <2>2. PICK r \in Requests : jobs[i] = [by |-> r]
    <3>1. jobs[i] \in WorkflowJobRecord
      BY DEF SpineInv, SpineTyped
    <3> QED
      BY <3>1, RowsAreNotNone
  <2>3. ctl[r].id = i /\ ctl[r].at \in {"job", "versioned", "done", "failed"}
    BY <2>1, <2>2 DEF SpineInv, OwnRows
  <2>4. ctl[r].at = "done"
    BY <2>3 DEF SpineInv, FaultFree, Busy
  <2> QED
    BY <2>3, <2>4 DEF SpineInv, FaultFree
<1>3. SpineInv => SuggestionInOwnThread
  BY DEF SpineInv, OwnResults, SuggestionInOwnThread
<1>4. SpineInv => PagingFindsAll
  BY PagingShowsAll DEF SpineInv
<1>5. SpineInv => SpineIsConsistent
  BY <1>1, <1>2, <1>3, <1>4, OwnStatusKept DEF SpineIsConsistent
<1> QED
  BY SpineInitInv, SpineNextInv, <1>5, PTL DEF SpineSpec

(***************************************************************************)
(* The parts together.                                                     *)
(***************************************************************************)
\* A behaviour of the composition is one of every part: the part that was
\* chosen takes its own steps, the others stutter.
LEMMA PartsRun ==
  MCSpec => /\ EvidenceSpec /\ PromotionSpec /\ SpineSpec
            /\ MemorySpec /\ FilesSpec /\ ReplaySpec
<1>1. MCInit => EvidenceInit /\ PromotionInit /\ SpineInit /\ MemoryInit /\ FilesInit /\ ReplayInit
  BY DEF MCInit
<1> USE DEF mcVars
<1>2. [MCNext]_mcVars => [EvidenceNext]_evidenceVars
  BY DEF MCNext
<1>3. [MCNext]_mcVars => [PromotionNext]_promotionVars
  BY DEF MCNext, PromotionNext, promotionVars, requestVars, ledgerVars, lifecycleVars
<1>4. [MCNext]_mcVars => [SpineNext]_spineVars
  BY DEF MCNext
<1>5. [MCNext]_mcVars => [MemoryNext]_memoryVars
  BY DEF MCNext
<1>6. [MCNext]_mcVars => [FilesNext]_fileVars
  BY DEF MCNext
<1>7. [MCNext]_mcVars => [ReplayNext]_replayVars
  BY DEF MCNext
<1> QED
  BY <1>1, <1>2, <1>3, <1>4, <1>5, <1>6, <1>7, PTL
     DEF MCSpec, EvidenceSpec, PromotionSpec, SpineSpec, MemorySpec, FilesSpec, ReplaySpec

\* Rows, requests, transactions, records, files and jobs keep their types.
THEOREM RecordsTypeCorrect == MCSpec => []TypeOK
<1>1. PromotionInv => PromotionTypeOK
  BY DEF PromotionInv
<1>2. SpineInv => SpineTypeOK
  <2> SUFFICES ASSUME SpineInv PROVE counter \in 0..Cardinality(Requests)
    BY DEF SpineInv, SpineTyped, SpineTypeOK
  <2>1. {r \in Requests : Numbered(r)} \subseteq Requests
    OBVIOUS
  <2>2. /\ Cardinality({r \in Requests : Numbered(r)}) <= Cardinality(Requests)
        /\ Cardinality({r \in Requests : Numbered(r)}) \in Nat /\ Cardinality(Requests) \in Nat
    BY <2>1, SpineAssumption, FS_Subset, FS_CardinalityType
  <2> QED
    BY <2>2 DEF SpineInv, SpineTyped, CounterInv
<1>3. MemoryInv => MemoryTypeOK
  <2> SUFFICES ASSUME MemoryInv PROVE MemoryTypeOK
    OBVIOUS
  <2>1. records \in [Numbers -> Seq(Spec)] /\ scopes \in [Numbers -> Users \cup {"none"}]
    BY DEF MemoryInv, MemoryTyped
  <2>2. \A i \in Numbers : \A k \in DOMAIN records[i] : records[i][k] \in Spec
    BY <2>1
  <2> QED
    BY <2>1, <2>2 DEF MemoryTypeOK, Spec
<1>4. FilesInv => FilesTypeOK
  BY DEF FilesInv, FilesTyped
<1>5. ReplayInv => ReplayTypeOK
  <2> SUFFICES ASSUME ReplayInv PROVE ReplayTypeOK
    OBVIOUS
  <2>1. \A j \in ReplayJobs : replay[j] = NotCreated \/ replay[j] \in ReplayJob
    BY DEF ReplayInv, Pursuing
  <2>2. NotCreated.pc = "none" /\ \A r \in ReplayJob : r.pc \in ReplayPcs
    BY DEF NotCreated, ReplayJob
  <2> QED
    BY <2>1, <2>2 DEF ReplayInv, ReplayTypeOK, ReplayPcs
<1>6. PromotionSpec => []PromotionTypeOK
  BY PromotionInitInv, PromotionNextInv, <1>1, PTL DEF PromotionSpec
<1>7. SpineSpec => []SpineTypeOK
  BY SpineInitInv, SpineNextInv, <1>2, PTL DEF SpineSpec
<1>8. MemorySpec => []MemoryTypeOK
  BY MemoryInitInv, MemoryNextInv, <1>3, PTL DEF MemorySpec
<1>9. FilesSpec => []FilesTypeOK
  BY FilesInitInv, FilesNextInv, <1>4, PTL DEF FilesSpec
<1>10. ReplaySpec => []ReplayTypeOK
  BY ReplayInitInv, ReplayNextInv, <1>5, PTL DEF ReplaySpec
<1>11. EvidenceTypeOK /\ PromotionTypeOK /\ SpineTypeOK /\ MemoryTypeOK /\ FilesTypeOK /\ ReplayTypeOK
       => TypeOK
  BY DEF TypeOK
<1> QED
  BY PartsRun, EvidenceTypeCorrect, <1>6, <1>7, <1>8, <1>9, <1>10, <1>11, PTL
=============================================================================
