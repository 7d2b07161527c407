---------------------------- MODULE EvidenceLedger ----------------------------
(***************************************************************************)
(* The evidence ledger (packages/evidence_ledger) behind the routes of     *)
(* services/api/routes/evidence.py: create stores a reference as posted,   *)
(* verify reads it, checks it and stores the result.  Routes run in        *)
(* threads without a lock; one evidence id is modelled, since no operation *)
(* touches two.                                                            *)
(*                                                                         *)
(* A reference is its project, what the verifier looks at and its status:  *)
(* source is the source_system, expired the expiry, hashed whether the     *)
(* artifact type needs a hash, sha the shape of sha256.  The routes pass   *)
(* no artifact store, so the stored content is never read.                 *)
(***************************************************************************)
EXTENDS Naturals, FiniteSets

CONSTANTS Verifiers,   \* threads of verify requests
          Projects,    \* projects of the bearer tokens and of the payloads
          MaxSaves     \* bound: posted references
ASSUME SavesAssumption == MaxSaves \in Nat

VARIABLES backend,     \* "memory" or "postgres"
          row,         \* the stored reference
          saves,       \* posted so far
          step, copy, verdict, \* a verify request: position, reference read, result
          reposted     \* a reference was posted while a verification was on its way
evidenceVars == <<backend, row, saves, step, copy, verdict, reposted>>

-----------------------------------------------------------------------------
Shas == {"empty", "short", "nonhex", "hex"}
Contents == [source : {"known", "unknown"}, expired : BOOLEAN, hashed : BOOLEAN, sha : Shas]
\* the ones posted in the model: at most one check of the verifier fails
Posted == {c \in Contents : /\ c.hashed /\ c.sha \in {"empty", "hex"}
                            /\ \/ c.source = "known" /\ (~c.expired \/ c.sha = "hex")
                               \/ ~c.expired /\ c.sha = "hex"}
VerificationStatus == {"unverified", "verified", "failed", "expired", "missing",
                       "scope_mismatch", "schema_mismatch", "hash_mismatch"}
Refs == [project : Projects, content : Contents, status : VerificationStatus,
         posted : BOOLEAN]     \* posted: the status came with the payload
NoRef == [project |-> "none"]

\* Faulty: the result is taken from the status of the reference
VerifyOtherField(content, project, context) == "active"
\* verify_evidence_ref without an artifact store
Verify(content, project, context) ==
  IF content.source = "unknown" THEN "failed"
  ELSE IF project # context THEN "scope_mismatch"
  ELSE IF content.expired THEN "expired"
  ELSE IF ~content.hashed \/ content.sha = "hex" THEN "verified"
  ELSE IF content.sha = "empty" THEN "failed" ELSE "hash_mismatch"

EvidenceInit ==
  /\ backend \in {"memory", "postgres"}
  /\ row = NoRef /\ saves = 0
  /\ step = [v \in Verifiers |-> "new"]
  /\ copy = [v \in Verifiers |-> NoRef]
  /\ verdict = [v \in Verifiers |-> "unverified"]
  /\ reposted = FALSE

\* save of the in-memory repository replaces the reference, ON CONFLICT of
\* Postgres replaces status, uri and sha256 and keeps the other columns
SavedRow(p, c, s) ==
  IF backend = "memory" \/ row = NoRef
  THEN [project |-> p, content |-> c, status |-> s, posted |-> TRUE]
  ELSE [project |-> row.project, status |-> s, posted |-> TRUE,
        content |-> [source |-> row.content.source, expired |-> row.content.expired, hashed |-> row.content.hashed, sha |-> c.sha]]

CreateEvidence ==
  /\ saves < MaxSaves /\ saves' = saves + 1
  /\ \E p \in Projects, c \in Posted, s \in {"unverified", "verified"} : row' = SavedRow(p, c, s)
  /\ reposted' = (reposted \/ \E v \in Verifiers : step[v] \in {"read", "reread"})
  /\ UNCHANGED <<backend, step, copy, verdict>>

\* repo.get and verify_evidence_ref; another project's reference is not found
VerifyRead(v) ==
  /\ step[v] = "new"
  /\ \E context \in Projects :
       IF row # NoRef /\ row.project = context
       THEN /\ copy' = [copy EXCEPT ![v] = row]
            /\ verdict' = [verdict EXCEPT ![v] = Verify(row.content, row.project, context)]
            /\ step' = [step EXCEPT ![v] = IF backend = "memory" THEN "read" ELSE "reread"]
       ELSE /\ step' = [step EXCEPT ![v] = "done"]
            /\ UNCHANGED <<copy, verdict>>
  /\ UNCHANGED <<backend, row, saves, reposted>>

\* update_verification in memory first reads the reference again
VerifyReread(v) ==
  /\ step[v] = "read"
  /\ IF row.project = copy[v].project
     THEN copy' = [copy EXCEPT ![v] = row] /\ step' = [step EXCEPT ![v] = "reread"]
     ELSE step' = [step EXCEPT ![v] = "done"] /\ UNCHANGED copy
  /\ UNCHANGED <<backend, row, saves, verdict, reposted>>

\* Faulty: whatever was found is stored as verified
UpdatedVerified(v) ==
  LET base == IF backend = "memory" THEN copy[v] ELSE row
  IN  [project |-> base.project, content |-> base.content, status |-> "verified", posted |-> FALSE]
\* and stores that copy with the status; Postgres updates the row in place
Updated(v) ==
  LET base == IF backend = "memory" THEN copy[v] ELSE row
  IN  [project |-> base.project, content |-> base.content, status |-> verdict[v], posted |-> FALSE]
VerifyWrite(v) ==
  /\ step[v] = "reread"
  /\ step' = [step EXCEPT ![v] = "done"]
  /\ row' = IF backend = "postgres" /\ row.project # copy[v].project THEN row ELSE Updated(v)
  /\ UNCHANGED <<backend, saves, copy, verdict, reposted>>

EvidenceNext == CreateEvidence \/ \E v \in Verifiers : VerifyRead(v) \/ VerifyReread(v) \/ VerifyWrite(v)
EvidenceSpec == EvidenceInit /\ [][EvidenceNext]_evidenceVars

-----------------------------------------------------------------------------
EvidenceTypeOK ==
  /\ backend \in {"memory", "postgres"} /\ row \in Refs \cup {NoRef} /\ saves \in 0..MaxSaves
  /\ step \in [Verifiers -> {"new", "read", "reread", "done"}] /\ copy \in [Verifiers -> Refs \cup {NoRef}]
  /\ verdict \in [Verifiers -> VerificationStatus] /\ reposted \in BOOLEAN

\* A status the ledger did not receive with the reference is the verifier's
\* answer for exactly the content stored, unless a reference was posted while
\* a verification was between its read and its write
\* (in_memory_repository.py:64): then content and status may belong to
\* different references.
StatusMatchesContent ==
  (row # NoRef /\ ~row.posted /\ ~reposted) =>
     row.status = Verify(row.content, row.project, row.project)

===============================================================================
