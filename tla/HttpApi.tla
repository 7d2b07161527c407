-------------------------------- MODULE HttpApi --------------------------------
(***************************************************************************)
(* The HTTP API: bearer tokens (packages/auth/service.py), the middleware  *)
(* around a route (packages/auth/audit_middleware.py) and the routes with  *)
(* their scope checks (services/api/fastapi_app.py).  Routes run in worker *)
(* threads, the middleware in the event loop; none of them holds a lock,   *)
(* so every request is a thread of its own.  The limiter is the one that   *)
(* Quota specifies.  The profile of the execution lane and its queued      *)
(* command stand for the records that routes look up by a global id.       *)
(***************************************************************************)
EXTENDS Naturals, Sequences, FiniteSets, SequencesExt
CONSTANTS Requests, Tokens,
          Users,           \* user and project of a context
          Nobody,          \* no user, no owner, no token
          MaxTokens, Ttl,  \* bounds of AuthTokenService
          Allowance,       \* requests a window grants a user
          Now, MaxChanges  \* bounds: last tick; registrations and revocations
ASSUME HttpApiAssumption ==
  /\ Nobody \notin Users \cup Tokens
  /\ MaxTokens \in Nat /\ Ttl \in Nat /\ Allowance \in Nat /\ Now \in Nat /\ MaxChanges \in Nat

VARIABLES tokens,    \* _tokens, an OrderedDict: [tok, at, user] in order of use
          uses,      \* history: the tokens in order of registration and use
          req,       \* the requests
          granted,   \* of each user in the current window
          profile, command,  \* owners of the lane's profile and queued command
          handover,  \* history: a profile was re-registered by another project
          changes, now
apiVars == <<tokens, uses, req, granted, profile, command, handover, changes, now>>
laneVars == <<profile, command, handover>>
tokenVars == <<tokens, uses>>

-------------------------------------------------------------------------------
(* The routes.  scope: open - no token; any - the context is not used; own -
   the handler compares owner and context; the others look a record up.      *)
Get(name, scope) == [name |-> name, write |-> FALSE, scope |-> scope]
Post(name, scope) == [name |-> name, write |-> TRUE, scope |-> scope]
GetAll(names, scope) == {Get(n, scope) : n \in names}
PostAll(names, scope) == {Post(n, scope) : n \in names}

HealthRoutes == GetAll({"health", "live", "ready", "build", "readiness"}, "open")
TradeHudRoutes == GetAll({"snapshot", "hud_health", "hud_replay", "stream"}, "any")
EvidenceRoutes == {Post("create_evidence", "any"), Get("get_evidence", "own"),
                   Post("verify_evidence", "own"), Get("list_evidence", "own")}
CatalogRoutes == GetAll({"adapters", "instruments", "instruments_query", "availability"}, "any")
                 \cup PostAll({"validate_profile", "run_pipeline", "promote_pipeline"}, "any")
JobRoutes == PostAll({"create_job", "run_job", "cancel_job"}, "own") \cup GetAll({"job", "job_events"}, "own")
LlmRoutes == {Get("llm_config", "any"), Post("save_llm_config", "any")}
PlanRoutes == {Get("lane_status", "own"), Get("runtime_plan", "command")}
LaneRoutes == {Post("credential_slot", "own"), Post("register_profile", "register"),
               Post("enqueue", "enqueue"), Post("run_once", "run")}
SessionRoutes == {Post("session_start", "command"), Get("session", "command"),
                  Post("session_stop", "command")}
StrategyRoutes == GetAll({"replay_events", "external"}, "any")
                  \cup GetAll({"strategies", "evidence_summary", "strategy"}, "own")
                  \cup PostAll({"create", "draft", "version", "approve", "clone"}, "own")
AssistantRoutes == PostAll({"ai_draft", "ai_apply", "promotion_request"}, "any")
                   \cup {Post("promotion_shadow", "own")}
ResultRoutes == GetAll({"workflow_result", "results", "result", "suggestions", "lineage_status"}, "own")
Routes == UNION {HealthRoutes, TradeHudRoutes, EvidenceRoutes, CatalogRoutes, JobRoutes, PlanRoutes,
                 LlmRoutes, LaneRoutes, SessionRoutes, StrategyRoutes,
                 AssistantRoutes, ResultRoutes}
\* Routes of one kind behave alike: a request keeps the kind of its route.
Kinds == {[write |-> r.write, scope |-> r.scope] : r \in Routes}

-------------------------------------------------------------------------------
(* Bearer tokens *)
Position(tok) == {i \in DOMAIN tokens : tokens[i].tok = tok}
\* A key is in the OrderedDict once, so taking it out removes one entry.
Dropped(seq, at) == IF at = {} THEN seq ELSE RemoveAt(seq, CHOOSE i \in at : TRUE)
Without(tok) == Dropped(tokens, Position(tok))
Unused(tok) == Dropped(uses, {i \in DOMAIN uses : uses[i] = tok})
Entry(tok) == tokens[CHOOSE i \in Position(tok) : TRUE]
Latest(seq, n) == SubSeq(seq, IF Len(seq) > n THEN Len(seq) - n + 1 ELSE 1, Len(seq))

\* while len > max_tokens: popitem(last=False)
Evict(seq) == Latest(seq, MaxTokens)

\* register_token: stored as the most recent, then the oldest are evicted.
Register(tok, u) ==
  /\ changes < MaxChanges /\ changes' = changes + 1
  /\ tokens' = Evict(Append(Without(tok), [tok |-> tok, at |-> now, user |-> u]))
  /\ uses' = Append(Unused(tok), tok)
  /\ req' = [r \in Requests |->
              [req[r] EXCEPT !.came = @ \/ req[r].tok = tok,
                             !.gone = @ \/ ~\E i \in DOMAIN tokens' : tokens'[i].tok = req[r].tok]]
  /\ UNCHANGED <<granted, laneVars, now>>

\* revoke_token: pop(token, None)
Revoke(tok) ==
  /\ changes < MaxChanges /\ changes' = changes + 1 /\ Position(tok) # {}
  /\ tokens' = Without(tok) /\ uses' = Unused(tok)
  /\ req' = [r \in Requests |-> [req[r] EXCEPT !.gone = @ \/ req[r].tok = tok]]
  /\ UNCHANGED <<granted, laneVars, now>>

-------------------------------------------------------------------------------
(* A request: the context middleware, the route, the audit middleware *)
NewRequest == [pc |-> "new", tok |-> Nobody, kind |-> [write |-> FALSE, scope |-> "open"],
               seen |-> Nobody, old |-> FALSE, actor |-> Nobody, user |-> Nobody,
               status |-> "none", touched |-> Nobody, audited |-> Nobody, written |-> FALSE,
               absent |-> FALSE, dead |-> FALSE, gone |-> FALSE, came |-> FALSE]

ApiInit(start, owner, queued) ==
  /\ tokens = start /\ uses = [i \in DOMAIN start |-> start[i].tok]
  /\ req = [r \in Requests |-> NewRequest]
  /\ granted = [u \in Users |-> 0]
  /\ profile = owner /\ command = queued /\ handover = FALSE /\ changes = 0 /\ now = 0

\* Tokens that were registered, and a command queued for its profile's project.
ApiStart ==
  \E start \in Seq([tok : Tokens, at : {0}, user : Users]), owner, queued \in Users \cup {Nobody} :
     /\ Len(start) <= MaxTokens /\ \A i, j \in DOMAIN start : start[i].tok = start[j].tok => i = j
     /\ queued \in {Nobody, owner}
     /\ ApiInit(start, owner, queued)

Set(r, rec) == req' = [req EXCEPT ![r] = rec]
Answer(r, status) == Set(r, [req[r] EXCEPT !.pc = "audit", !.status = status])
\* An exception leaves the application past the audit middleware.
Raise(r) == Set(r, [req[r] EXCEPT !.pc = "done", !.status = "raised"])

Arrive(r) ==
  /\ req[r].pc = "new"
  /\ \E kind \in Kinds, tok \in Tokens \cup {Nobody} :
        Set(r, [req[r] EXCEPT !.pc = IF tok = Nobody THEN "route" ELSE "context",
                              !.kind = kind, !.tok = tok,
                              !.dead = tok # Nobody /\ (Position(tok) = {} \/ now - Entry(tok).at > Ttl)])
  /\ UNCHANGED <<tokenVars, granted, laneVars, changes, now>>

Passed(r) == IF req[r].pc \in {"context", "touch_context"} THEN "route" ELSE "limit"

\* verify_token, first half: the entry and its age.  An unknown token leaves
\* the audit context unauthenticated, and is refused by require_context.
Lookup(r) ==
  /\ req[r].pc \in {"context", "verify"}
  /\ IF Position(req[r].tok) = {}
     THEN IF req[r].pc = "context" THEN Set(r, [req[r] EXCEPT !.pc = "route"]) ELSE Answer(r, "401")
     ELSE Set(r, [req[r] EXCEPT !.pc = IF @ = "context" THEN "touch_context" ELSE "touch",
                                !.seen = Entry(req[r].tok).user,
                                !.old = now - Entry(req[r].tok).at > Ttl])
  /\ UNCHANGED <<tokenVars, granted, laneVars, changes, now>>

\* verify_token, second half, of a token that is still fresh.
Use(r) ==
  /\ req[r].pc \in {"touch_context", "touch"} /\ Position(req[r].tok) # {} /\ ~req[r].old
  /\ tokens' = Append(Without(req[r].tok), Entry(req[r].tok))
  /\ uses' = Append(Unused(req[r].tok), req[r].tok)
  /\ Set(r, [req[r] EXCEPT !.pc = Passed(r), !.seen = Nobody,
                           !.actor = IF Passed(r) = "route" THEN req[r].seen ELSE @,
                           !.user = IF Passed(r) = "route" THEN @ ELSE req[r].seen])
  /\ UNCHANGED <<granted, laneVars, changes, now>>

\* An expired token is deleted and refused.
Expired(r) ==
  /\ req[r].pc \in {"touch_context", "touch"} /\ Position(req[r].tok) # {} /\ req[r].old
  /\ tokens' = Without(req[r].tok) /\ uses' = Unused(req[r].tok)
  /\ req' = [q \in Requests |->
              LET rec == [req[q] EXCEPT !.gone = @ \/ req[q].tok = req[r].tok]
              IN IF q # r THEN rec
                 ELSE IF Passed(r) = "route" THEN [rec EXCEPT !.pc = "route"]
                 ELSE [rec EXCEPT !.pc = "audit", !.status = "401"]]
  /\ UNCHANGED <<granted, laneVars, changes, now>>

\* del or move_to_end meets a token that is gone by now: KeyError.
Vanished(r) ==
  /\ req[r].pc \in {"touch_context", "touch"} /\ Position(req[r].tok) = {}
  /\ Raise(r)
  /\ UNCHANGED <<tokenVars, granted, laneVars, changes, now>>

\* The route: an open one is handled, another one needs a bearer token.
Dispatch(r) ==
  /\ req[r].pc = "route"
  /\ IF req[r].kind.scope = "open" THEN Set(r, [req[r] EXCEPT !.pc = "act"])
     ELSE IF req[r].tok = Nobody THEN Answer(r, "401")
     ELSE Set(r, [req[r] EXCEPT !.pc = "verify"])
  /\ UNCHANGED <<tokenVars, granted, laneVars, changes, now>>

\* _rate_limiter.is_allowed
Limit(r) ==
  /\ req[r].pc = "limit"
  /\ LET u == req[r].user
     IN IF granted[u] < Allowance
        THEN Set(r, [req[r] EXCEPT !.pc = "check"]) /\ granted' = [granted EXCEPT ![u] = @ + 1]
        ELSE Answer(r, "429") /\ UNCHANGED granted
  /\ UNCHANGED <<tokenVars, laneVars, changes, now>>

NewWindow == /\ granted' = [u \in Users |-> 0] /\ granted # granted'
             /\ UNCHANGED <<tokenVars, req, laneVars, changes, now>>

\* The record a lane route looks up before it calls the service.
Checked(r) == CASE req[r].kind.scope \in {"enqueue", "run"} -> profile
                [] req[r].kind.scope = "command" -> command
                [] OTHER -> req[r].user

\* Faulty: the owner of the record is not compared.
CheckNothing(r) ==
  /\ req[r].pc = "check"
  /\ Set(r, [req[r] EXCEPT !.pc = "act", !.absent = Checked(r) = Nobody])
  /\ UNCHANGED <<tokenVars, granted, laneVars, changes, now>>

\* _execution_lane_profile_scope_error, _execution_lane_command_scope_error:
\* a record that is missing is left to the service to report.
CheckScope(r) ==
  /\ req[r].pc = "check"
  /\ IF Checked(r) \in {Nobody, req[r].user}
     THEN Set(r, [req[r] EXCEPT !.pc = "act", !.absent = Checked(r) = Nobody])
     ELSE Answer(r, "403")
  /\ UNCHANGED <<tokenVars, granted, laneVars, changes, now>>

\* _payload_project_scope_error: the payload names another project.
PayloadMismatch(r) ==
  /\ req[r].pc = "check" /\ req[r].kind.scope \in {"register", "enqueue"}
  /\ Answer(r, "403")
  /\ UNCHANGED <<tokenVars, granted, laneVars, changes, now>>

\* The answer of a handler that touched p's data, or the exception after it.
Touches(r, p) == \E end \in {"200", "raised"} :
  Set(r, [req[r] EXCEPT !.pc = IF end = "200" THEN "audit" ELSE "done", !.status = end,
                        !.touched = IF req[r].kind.write THEN p ELSE Nobody])

\* The handlers whose service compares owner and context, and those that
\* take the project from the payload or keep no project.
Handle(r) ==
  /\ req[r].pc = "act" /\ req[r].kind.scope \in {"open", "any", "own"}
  /\ \E p \in Users :
        IF req[r].kind.scope = "own" /\ p # req[r].user THEN Answer(r, "403") ELSE Touches(r, p)
  /\ UNCHANGED <<tokenVars, granted, laneVars, changes, now>>

\* register_profile overwrites whatever profile has the id.
RegisterProfile(r) ==
  /\ req[r].pc = "act" /\ req[r].kind.scope = "register"
  /\ profile' = req[r].user /\ handover' = (handover \/ profile \notin {Nobody, req[r].user})
  /\ Touches(r, req[r].user)
  /\ UNCHANGED <<tokenVars, granted, command, changes, now>>

\* enqueue_command refuses a command of another project than its profile.
EnqueueCommand(r) ==
  /\ req[r].pc = "act" /\ req[r].kind.scope = "enqueue"
  /\ IF profile = req[r].user THEN command' = req[r].user /\ Touches(r, req[r].user)
     ELSE Answer(r, "422") /\ UNCHANGED command
  /\ UNCHANGED <<tokenVars, granted, profile, handover, changes, now>>

\* The worker claims the queued command of the profile, whoever queued it; a
\* session is started or stopped for the command that was named.
RunCommand(r) ==
  /\ req[r].pc = "act" /\ req[r].kind.scope \in {"run", "command"}
  /\ IF command = Nobody THEN Answer(r, "404") /\ UNCHANGED command
     ELSE /\ Touches(r, command)
          /\ command' = IF req[r].kind.scope = "run" THEN Nobody ELSE command
  /\ UNCHANGED <<tokenVars, granted, profile, handover, changes, now>>

\* _should_audit: only mutations are recorded.
ShouldAudit(r) == req[r].kind.write

\* _build_event: the actor is the one the context middleware left behind.
EventActor(r) == req[r].actor
\* _build_audit_writer: the Postgres writer stores the event or raises.
WriterStores == BOOLEAN

\* Faulty: the answer stands although the event was not written.
AuditQuietly(r) ==
  /\ req[r].pc = "audit"
  /\ \E stored \in WriterStores :
        Set(r, [req[r] EXCEPT !.pc = "done", !.written = stored /\ ShouldAudit(r),
                              !.audited = IF stored THEN EventActor(r) ELSE Nobody])
  /\ UNCHANGED <<tokenVars, granted, laneVars, changes, now>>

\* AuditMiddleware.dispatch, with the Postgres writer, which may fail.
Audit(r) ==
  /\ req[r].pc = "audit"
  /\ \E stored \in WriterStores :
        Set(r, [req[r] EXCEPT !.pc = "done", !.written = stored /\ ShouldAudit(r),
                              !.audited = IF stored THEN EventActor(r) ELSE Nobody,
                              !.status = IF ~stored /\ ShouldAudit(r) /\ @ = "200" THEN "500" ELSE @])
  /\ UNCHANGED <<tokenVars, granted, laneVars, changes, now>>

Later == now < Now /\ now' = now + 1
         /\ UNCHANGED <<tokenVars, req, granted, laneVars, changes>>

ApiNext ==
  \/ Later \/ NewWindow
  \/ \E tok \in Tokens : Revoke(tok) \/ \E u \in Users : Register(tok, u)
  \/ \E r \in Requests :
        \/ Arrive(r) \/ Lookup(r) \/ Use(r) \/ Expired(r) \/ Vanished(r) \/ Dispatch(r) \/ Limit(r)
        \/ CheckScope(r) \/ PayloadMismatch(r) \/ Handle(r) \/ RegisterProfile(r) \/ EnqueueCommand(r)
        \/ RunCommand(r) \/ Audit(r)
ApiSpec == ApiStart /\ [][ApiNext]_apiVars

-------------------------------------------------------------------------------
ApiTypeOK ==
  /\ \A i \in DOMAIN tokens : tokens[i] \in [tok : Tokens, at : 0..Now, user : Users]
  /\ granted \in [Users -> 0..Allowance]
  /\ profile \in Users \cup {Nobody} /\ command \in Users \cup {Nobody}
  /\ \A r \in Requests :
        /\ req[r].pc \in {"new", "context", "touch_context", "route", "verify", "touch", "limit",
                          "check", "act", "audit", "done"}
        /\ req[r].status \in {"none", "200", "401", "403", "404", "422", "429", "500", "raised"}
        /\ req[r].user \in Users \cup {Nobody} /\ req[r].touched \in Users \cup {Nobody}

\* A mutation that left no audit event is never answered with success: the
\* client of a request whose event could not be stored, or whose handler
\* raised past AuditMiddleware, is told that it failed.
SuccessIsAudited ==
  \A r \in Requests : req[r].pc = "done" /\ req[r].kind.write /\ req[r].status = "200" => req[r].written

\* The audit event names the user whose context the route acted under, unless
\* the token was registered anew while the request ran (the middleware and the
\* route verify it separately).
AuditNamesActor ==
  \A r \in Requests :
     req[r].written /\ req[r].user # Nobody /\ ~req[r].came => req[r].audited = req[r].user

\* A request that came with a revoked, evicted or expired token touches
\* nothing and is not served, unless the token is registered again meanwhile.
DeadTokenIsRefused ==
  \A r \in Requests :
     req[r].dead /\ ~req[r].came /\ req[r].kind.scope # "open"
       => req[r].touched = Nobody /\ req[r].status \in {"none", "401", "raised"}

\* Data of another project is touched only by routes that do not use their
\* context, after a profile has been registered over another project's, or
\* when the record did not exist at the time of the check.
TouchesOwnProject ==
  \A r \in Requests :
     req[r].touched \notin {Nobody, req[r].user}
       => req[r].kind.scope \in {"open", "any"} \/ handover \/ req[r].absent

\* verify_token fails with a KeyError only for a token that was removed while
\* the request ran.
VanishedWasRemoved ==
  \A r \in Requests : req[r].pc = "done" /\ req[r].status = "raised" /\ req[r].user = Nobody
                      /\ req[r].kind.scope # "open" => req[r].gone

\* The store holds the MaxTokens tokens used last, so the one that the
\* service evicts is the one unused for longest.
KeepsRecentTokens ==
  /\ Len(tokens) <= MaxTokens
  /\ [i \in DOMAIN tokens |-> tokens[i].tok] = Latest(uses, Len(tokens))

\* Every mutation that succeeded has an audit event, and the event names who
\* did it (AuditMiddleware around the routes).
AuditIsComplete == SuccessIsAudited /\ AuditNamesActor

\* A request is served for a token that is valid while it runs and touches its
\* own project's records only (AuthTokenService and the scope checks of
\* fastapi_app.py).
AccessIsCurrent == TouchesOwnProject /\ DeadTokenIsRefused /\ VanishedWasRemoved /\ KeepsRecentTokens
===============================================================================
