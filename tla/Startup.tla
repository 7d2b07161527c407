-------------------------------- MODULE Startup --------------------------------
(***************************************************************************)
(* The start of the API: create_fastapi_app of services/api/fastapi_app.py *)
(* with the checks of _app_env.py, packages/auth/policy.py and the factory *)
(* of the artifact store.  One action per step, in the order of the code;  *)
(* an exception ends the start.  The environment is what the operator set; *)
(* a start that fails is tried again with the same settings.               *)
(***************************************************************************)
EXTENDS Naturals
CONSTANT MaxBoots    \* bound on the attempts to start
VARIABLES settings,  \* the environment variables
          boot,      \* the step and what it has built
          database   \* what the starts have done to Postgres
startVars == <<settings, boot, database>>

Strictness == [local |-> 0, staging |-> 1, production |-> 2]
\* BUILDER_ENV and APP_ENV: unset, valid, or a word that is no environment.
EnvWords == {"", "local", "staging", "production", "qa"}
Tokens32 == {"none", "dev-token", "short", "blank", "strong"}   \* blank: 32 spaces
Settings ==
  [builder_env : EnvWords, app_env : {"", "production", "staging"}, token : Tokens32, dev : BOOLEAN, public : BOOLEAN,
   cors : {"none", "list", "wildcard"}, limiter : {"none", "memory", "redis"}, redis_url : BOOLEAN,
   database : {"none", "down", "up"}, audit_file : BOOLEAN, demo : BOOLEAN]

\* validate_builder_env
EnvOf(word) == IF word = "" THEN "local" ELSE word
\* _strictest_configured_env, once both words are valid
StrictestEnv ==
  LET a == EnvOf(settings.builder_env)  b == EnvOf(settings.app_env)
  IN IF Strictness[a] >= Strictness[b] THEN a ELSE b
Guarded == StrictestEnv # "local"

\* validate_production_token, validate_cors_config, validate_rate_limit_config
TokenRefused == Guarded /\ (settings.token \notin {"blank", "strong"} \/ settings.public)
CorsRefused == Guarded /\ settings.cors # "list"
LimiterRefused == StrictestEnv = "production" /\ ~(settings.limiter = "redis" /\ settings.redis_url)
PolicyRefuses == settings.builder_env = "qa" \/ TokenRefused \/ CorsRefused \/ LimiterRefused

Fresh == [step |-> "policy", tokens |-> {}, evidence |-> "none", limiter |-> "none", audit |-> "none", artifacts |-> "none"]
StartInit == /\ settings \in Settings
             /\ boot = Fresh
             /\ database = [boots |-> 1, migrated |-> FALSE, demos |-> 0, refusedAt |-> {}]

Refuse == /\ boot' = [boot EXCEPT !.step = "refused"]
          /\ database' = [database EXCEPT !.refusedAt = @ \cup {boot.step}]
Go(step) == boot' = [boot EXCEPT !.step = step]

\* Faulty: the policy is checked only after the repositories are built.
CheckPolicy_late == boot.step = "policy" /\ Go("repositories") /\ UNCHANGED database
CheckPolicy ==
  /\ boot.step = "policy"
  /\ IF PolicyRefuses THEN Refuse ELSE Go("repositories") /\ UNCHANGED database
\* connect_pool, apply_migrations and the demo strategies; each start of an
\* instance with a database and the demo switch saves the demos again.
BuildRepositories ==
  /\ boot.step = "repositories"
  /\ IF settings.database = "down" THEN Refuse
     ELSE /\ Go("token")
          /\ database' = IF settings.database = "none" THEN database
                         ELSE [database EXCEPT !.migrated = TRUE, !.demos = @ + IF settings.demo THEN 1 ELSE 0]
\* _register_env_dev_token: the token is stripped, so a blank one registers
\* nothing.
RegisterToken ==
  LET token == IF settings.dev THEN "dev-token" ELSE settings.token IN
  /\ boot.step = "token"
  /\ IF token \in {"none", "blank"} THEN Go("artifacts") /\ UNCHANGED database
     ELSE IF Guarded /\ (settings.dev \/ token = "dev-token") THEN Refuse
     ELSE /\ boot' = [boot EXCEPT !.step = "artifacts", !.tokens = {token}]
          /\ UNCHANGED database
\* A store that cannot be made is noted and the start goes on.
CreateArtifactStore ==
  /\ boot.step = "artifacts"
  /\ \E status \in {"ok", "error"} : boot' = [boot EXCEPT !.step = "evidence", !.artifacts = status]
  /\ UNCHANGED database
\* Faulty: without a database the evidence stays in memory everywhere.
ChooseEvidence_any ==
  /\ boot.step = "evidence"
  /\ boot' = [boot EXCEPT !.step = "audit", !.evidence = IF settings.database = "up" THEN "postgres" ELSE "memory"]
  /\ UNCHANGED database
ChooseEvidence ==
  /\ boot.step = "evidence"
  /\ IF settings.database # "up" /\ Guarded THEN Refuse
     ELSE /\ boot' = [boot EXCEPT !.step = "audit", !.evidence = IF settings.database = "up" THEN "postgres" ELSE "memory"]
          /\ UNCHANGED database
\* _default_ai_audit_store
ChooseAuditStore ==
  /\ boot.step = "audit"
  /\ IF ~settings.audit_file /\ StrictestEnv = "production" THEN Refuse
     ELSE /\ boot' = [boot EXCEPT !.step = "limiter", !.audit = IF settings.audit_file THEN "sqlite" ELSE "memory"]
          /\ UNCHANGED database
\* The limiter; with Redis it fails closed in production only.
ChooseLimiter ==
  /\ boot.step = "limiter"
  /\ boot' = [boot EXCEPT !.step = "serving",
                !.limiter = CASE settings.limiter # "redis" -> "memory"
                              [] settings.limiter = "redis" /\ StrictestEnv = "production" -> "redis, closed"
                              [] OTHER -> "redis, open"]
  /\ UNCHANGED database
\* The supervisor starts the process again.
Restart == /\ boot.step = "refused" /\ database.boots < MaxBoots
           /\ boot' = Fresh
           /\ database' = [database EXCEPT !.boots = @ + 1]

StartNext == /\ UNCHANGED settings
             /\ \/ CheckPolicy \/ BuildRepositories \/ RegisterToken \/ CreateArtifactStore
                \/ ChooseEvidence \/ ChooseAuditStore \/ ChooseLimiter \/ Restart
StartSpec == StartInit /\ [][StartNext]_startVars
-------------------------------------------------------------------------------
\* What either variable calls staging or production.
Meant(env) == env \in {settings.builder_env, settings.app_env}
\* An API that serves in staging or production, by either variable, keeps its
\* evidence in Postgres and has no development token; in production its rate
\* limits fail closed and the record of AI drafts survives a restart (the
\* checks of create_fastapi_app, each at its own step).
ServesGuarded ==
  boot.step = "serving" /\ (Meant("staging") \/ Meant("production")) =>
    /\ boot.evidence = "postgres" /\ boot.tokens \subseteq {"strong"}
    /\ Meant("production") => boot.limiter = "redis, closed" /\ boot.audit = "sqlite"
\* Settings the policy refuses never reach the database, however often the
\* process is started: no migration, no demo strategy (_validate_startup_policy
\* comes first).  A refusal by a later check comes after both.
PolicyBeforeDatabase ==
  PolicyRefuses => database.demos = 0 /\ ~database.migrated /\ boot.step \in {"policy", "refused"}

\* An API that serves has every guard its environment asks for, and one that
\* the policy refuses has changed nothing (create_fastapi_app).
StartIsGuarded == ServesGuarded /\ PolicyBeforeDatabase
===============================================================================
