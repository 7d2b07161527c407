-------------------------------- MODULE AiDrafts --------------------------------
(***************************************************************************)
(* packages/ai_builder: the drafts an operator asks a language model for.  *)
(* One service with one provider and one audit store answers every         *)
(* request, each in a thread of its own.                                   *)
(*                                                                         *)
(* What the model drafts is one of the classes of validate_strategy_spec:  *)
(* "valid", "invalid", or "raising" (its two dates cannot be compared).    *)
(* A call that left by an exception other than the ones its handler        *)
(* catches has status 500.                                                 *)
(***************************************************************************)
EXTENDS Naturals, FiniteSets, Sequences
CONSTANTS Calls,        \* the requests
          MaxRetries    \* InstructorProviderConfig.max_retries
VARIABLES provider,     \* the provider chosen at the start
          auditStore,   \* where the drafts are recorded
          client,       \* has the instructor client been built?
          metadata,     \* whose response the provider's _last_metadata describes
          draft,        \* the requests
          audit         \* the records, in order
draftVars == <<provider, auditStore, client, metadata, draft, audit>>

ASSUME RetriesAssumption == MaxRetries \in Nat \ {0}

Idle == [pc |-> "idle", op |-> "draft", attempts |-> 0, spec |-> "none", responded |-> FALSE, before |-> {}, accepted |-> FALSE, status |-> 0]
\* build_default_draft_provider and _default_ai_audit_store
DraftInit ==
  /\ provider \in {"fixture", "openai", "instructor"}
  /\ auditStore \in {"memory", "sqlite"}
  /\ client = FALSE /\ metadata = "config"
  /\ draft = [c \in Calls |-> Idle]
  /\ audit = <<>>

Update(c, v) == draft' = [draft EXCEPT ![c] = v]
Goes(c, pc) == Update(c, [draft[c] EXCEPT !.pc = pc])
\* ValueError of the provider: an empty specification and its message.
ProviderFails(c) == Update(c, [draft[c] EXCEPT !.pc = "judge", !.spec = "none"])
Drafts(c, spec) == Update(c, [draft[c] EXCEPT !.pc = "judge", !.spec = spec])
Ends(c, status) == Update(c, [draft[c] EXCEPT !.pc = "done", !.status = status])
Specs == {"valid", "invalid", "raising"}

\* The route, the required ids of apply_draft_to_strategy and
\* _reject_forbidden_prompt.  A refusal is a ValueError, which only the apply
\* route catches; a specification that the client sent is applied whatever the
\* prompt says.
Ask(c) ==
  /\ draft[c].pc = "idle"
  /\ \E op \in {"draft", "apply", "apply spec"}, refused \in BOOLEAN, spec \in Specs :
       LET asked == [draft[c] EXCEPT !.op = op, !.before = {b \in Calls : draft[b].pc = "done"}] IN
       Update(c, CASE refused -> [asked EXCEPT !.pc = "done", !.status = IF op = "draft" THEN 500 ELSE 422]
                   [] ~refused /\ op = "apply spec" -> [asked EXCEPT !.pc = "judge spec", !.spec = spec]
                   [] OTHER -> [asked EXCEPT !.pc = provider])
  /\ UNCHANGED <<provider, auditStore, client, metadata, audit>>
\* AdvisoryDraftProvider
DraftFixture(c) ==
  /\ draft[c].pc = "fixture"
  /\ Drafts(c, "valid")
  /\ UNCHANGED <<provider, auditStore, client, metadata, audit>>

\* OpenAICompatibleDraftProvider.draft_spec: the request ...
Post(c) ==
  /\ draft[c].pc = "openai"
  /\ \/ ProviderFails(c)                     \* timeout, transport, HTTP status, no JSON object
     \/ Update(c, [draft[c] EXCEPT !.pc = "received", !.responded = TRUE])
  /\ UNCHANGED <<provider, auditStore, client, metadata, audit>>
\* ... the metadata of its response ...
KeepMetadata(c) ==
  /\ draft[c].pc = "received"
  /\ metadata' = c /\ Goes(c, "parse")
  /\ UNCHANGED <<provider, auditStore, client, audit>>
\* ... and its content.
ParseContent(c) ==
  /\ draft[c].pc = "parse"
  /\ ProviderFails(c) \/ \E spec \in Specs : Drafts(c, spec)
  /\ UNCHANGED <<provider, auditStore, client, metadata, audit>>

\* InstructorDraftProvider: _ensure_client, then up to max_retries attempts;
\* only a draft that fails its model is tried again.
EnsureClient(c) ==
  /\ draft[c].pc = "instructor"
  /\ \/ ~client /\ ProviderFails(c) /\ UNCHANGED client      \* package, key or backend missing
     \/ client' = TRUE /\ Goes(c, "attempt")
  /\ UNCHANGED <<provider, auditStore, metadata, audit>>
Attempt(c) ==
  /\ draft[c].pc = "attempt"
  /\ \/ ProviderFails(c)                     \* request failed, or a draft that is not advisory
     \/ IF draft[c].attempts + 1 = MaxRetries THEN ProviderFails(c) ELSE Update(c, [draft[c] EXCEPT !.attempts = @ + 1])
     \/ \E spec \in Specs : Drafts(c, spec)
  /\ UNCHANGED <<provider, auditStore, client, metadata, audit>>

\* generate_draft: validation; a TypeError it raises is nobody's to catch.
Judge(c) ==
  /\ draft[c].pc = "judge"
  /\ IF draft[c].spec = "raising" THEN Ends(c, 500)
     ELSE Update(c, [draft[c] EXCEPT !.pc = "record", !.accepted = draft[c].spec = "valid"])
  /\ UNCHANGED <<provider, auditStore, client, metadata, audit>>
\* The connection of the sqlite store belongs to the thread that opened it,
\* and a request has another: save raises ProgrammingError.
Saves(record) == auditStore = "memory" /\ audit' = Append(audit, record)
SaveRaises(c) == auditStore = "sqlite" /\ Ends(c, 500) /\ UNCHANGED audit
DraftRecord(c) ==
  [call |-> c, kind |-> "draft", accepted |-> draft[c].accepted, spec |-> draft[c].spec,
   metadata |-> IF provider = "openai" THEN metadata ELSE "config"]
AppliedRecord(c) == [call |-> c, kind |-> "applied", accepted |-> TRUE, spec |-> draft[c].spec, metadata |-> "none"]
\* Faulty: a rejected draft is not worth a record.
RecordDraft_accepted(c) ==
  /\ draft[c].pc = "record"
  /\ \/ ~draft[c].accepted /\ UNCHANGED audit /\ (IF draft[c].op = "draft" THEN Ends(c, 200) ELSE Goes(c, "check"))
     \/ draft[c].accepted /\ Saves(DraftRecord(c)) /\ (IF draft[c].op = "draft" THEN Ends(c, 200) ELSE Goes(c, "check"))
     \/ draft[c].accepted /\ SaveRaises(c)
  /\ UNCHANGED <<provider, auditStore, client, metadata>>
RecordDraft(c) ==
  /\ draft[c].pc = "record"
  /\ \/ Saves(DraftRecord(c)) /\ (IF draft[c].op = "draft" THEN Ends(c, 200) ELSE Goes(c, "check"))
     \/ SaveRaises(c)
  /\ UNCHANGED <<provider, auditStore, client, metadata>>

\* apply_draft_to_strategy: the draft it generated must have been accepted ...
CheckDraft(c) ==
  /\ draft[c].pc = "check"
  /\ IF draft[c].accepted THEN Goes(c, "apply") ELSE Ends(c, 422)
  /\ UNCHANGED <<provider, auditStore, client, metadata, audit>>
\* ... and the one the client sent must be valid.
JudgeSpec(c) ==
  /\ draft[c].pc = "judge spec"
  /\ CASE draft[c].spec = "raising" -> Ends(c, 500)
       [] draft[c].spec = "invalid" -> Ends(c, 422)
       [] OTHER -> Goes(c, "apply")
  /\ UNCHANGED <<provider, auditStore, client, metadata, audit>>
RecordApplied(c) ==
  /\ draft[c].pc = "apply"
  /\ (Saves(AppliedRecord(c)) /\ Ends(c, 200)) \/ SaveRaises(c)
  /\ UNCHANGED <<provider, auditStore, client, metadata>>

DraftNext ==
  \E c \in Calls : \/ Ask(c) \/ DraftFixture(c) \/ Post(c) \/ KeepMetadata(c) \/ ParseContent(c) \/ EnsureClient(c) \/ Attempt(c)
                   \/ Judge(c) \/ RecordDraft(c) \/ CheckDraft(c) \/ JudgeSpec(c) \/ RecordApplied(c)
DraftSpec == DraftInit /\ [][DraftNext]_draftVars
-------------------------------------------------------------------------------
Records(c, kind) == {i \in DOMAIN audit : audit[i].call = c /\ audit[i].kind = kind}
DraftTypeOK == /\ \A c \in Calls : draft[c].attempts \in 0..MaxRetries - 1 /\ draft[c].status \in {0, 200, 422, 500}
               /\ \A c \in Calls : Cardinality(Records(c, "draft")) <= 1 /\ Cardinality(Records(c, "applied")) <= 1
               /\ metadata \in Calls \cup {"config"}

\* A request that was answered, with a rejected draft or with an accepted one,
\* left the record of its draft: nothing the model proposed is shown without a
\* trace (generate_draft saves whatever it returns).
AnsweredIsRecorded ==
  \A c \in Calls : (draft[c].status = 200 \/ (draft[c].status = 422 /\ draft[c].spec # "none")) /\ draft[c].op # "apply spec"
                     => Records(c, "draft") # {}

\* What is recorded as applied passed validation, and when the service drafted
\* it itself, the record of the accepted draft comes first
\* (apply_draft_to_strategy).
AppliedWasAccepted ==
  \A i \in DOMAIN audit : audit[i].kind = "applied" =>
    /\ audit[i].spec = "valid"
    /\ draft[audit[i].call].op = "apply" => \E j \in 1..i - 1 : audit[j].call = audit[i].call /\ audit[j].accepted

\* The provider's metadata is one slot for all requests, so a record may
\* describe the response of a request that ran at the same time; but when the
\* model answered a request, its record never describes the response of one
\* that was over before it began (draft_spec sets _last_metadata before it
\* looks at the content).
MetadataNotStale ==
  \A i \in DOMAIN audit :
    LET c == audit[i].call IN
    audit[i].kind = "draft" /\ draft[c].responded => audit[i].metadata \in Calls \ draft[c].before

\* "AI audit records must persist": a request whose draft was judged left a
\* record when it is over.  Under the sqlite store, the only durable one, none
\* ever does (frontend-ready-operator-mvp-design.md).
JudgedIsRecorded ==
  \A c \in Calls : draft[c].pc = "done" /\ draft[c].accepted => Records(c, "draft") # {}

\* What the operator was given, applied and told about a model's answer is on
\* record (AiBuilderService).
DraftsAreRecorded == AnsweredIsRecorded /\ AppliedWasAccepted /\ MetadataNotStale
===============================================================================
