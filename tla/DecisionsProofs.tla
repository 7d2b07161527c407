--------------------------- MODULE DecisionsProofs ---------------------------
(***************************************************************************)
(* The decisions of the Builder and an event stream of TradeHUD: first the *)
(* state machines, the migrations, the start of the API, the drafts of the *)
(* language model and an event stream, for any number of processes,        *)
(* requests and entries; then what MCDecisions asks, how a stream entry is *)
(* shown, what becomes of a specification, what evidence and reports say,  *)
(* and the rule graph tick by tick.  A section each.                       *)
(*                                                                         *)
(* The library's induction theorems take a predicate as a parameter, which *)
(* no backend instantiates.  An induction over numbers is written with the *)
(* least element of the set of counterexamples instead (NatMin).           *)
(***************************************************************************)
EXTENDS MCDecisions, TradeHud,
        FiniteSetTheorems, SequenceTheorems, WellFoundedInduction, TLAPS

(***************************************************************************)
(* Migrations.  For any number of processes that apply migrations at once, *)
(* and any number of deaths between two commits, schema and                *)
(* schema_migrations agree until something is rolled back.                 *)
(***************************************************************************)

Adds(v) == MIGRATIONS[v].adds
RunnerStates == [pc : {"idle", "up", "record", "down"}, next : 0..8, left : Nat]
RunnersTyped ==
  /\ runner \in [Runners -> RunnerStates]
  /\ history \in [rollbacks : Nat, deaths : Nat]
  /\ recorded \subseteq 1..7
  /\ \A r \in Runners : /\ runner[r].pc = "record" => runner[r].next \in 1..7
                        /\ runner[r].pc = "down" => runner[r].next \in 0..7
\* What a process that applies knows: all versions below its own are recorded,
\* and its own is in the schema once it is about to be recorded.
Climbing(r) ==
  /\ runner[r].pc # "down"
  /\ runner[r].pc \in {"up", "record"} => 1..(runner[r].next - 1) \subseteq recorded /\ runner[r].next > 0
  /\ runner[r].pc = "record" => Adds(runner[r].next) \subseteq schema
OnlyUp == history.rollbacks = 0 => RecordedIsApplied /\ \A r \in Runners : Climbing(r)
MigrationInv == RunnersTyped /\ OnlyUp

\* There are seven migrations.
LEMMA SevenVersions == Len(MIGRATIONS) = 7 /\ Versions = 1..7
BY DEF MIGRATIONS, Versions

\* current_version is a recorded version that none exceeds, or 0.
LEMMA MaxRecorded ==
  ASSUME NEW S, S \subseteq 1..7
  PROVE  Max(S \cup {0}) \in 0..7 /\ Max(S \cup {0}) \in S \cup {0} /\ \A y \in S : y <= Max(S \cup {0})
<1>1. \E x \in S \cup {0} : \A y \in S \cup {0} : x >= y
  <2>1. CASE 7 \in S BY <2>1
  <2>2. CASE 7 \notin S /\ 6 \in S BY <2>2
  <2>3. CASE 7 \notin S /\ 6 \notin S /\ 5 \in S BY <2>3
  <2>4. CASE 7 \notin S /\ 6 \notin S /\ 5 \notin S /\ 4 \in S BY <2>4
  <2>5. CASE 7 \notin S /\ 6 \notin S /\ 5 \notin S /\ 4 \notin S /\ 3 \in S BY <2>5
  <2>6. CASE S \subseteq 1..2 /\ 2 \in S BY <2>6
  <2>7. CASE S \subseteq 1..1 BY <2>7
  <2> QED BY <2>1, <2>2, <2>3, <2>4, <2>5, <2>6, <2>7
<1> DEFINE m == Max(S \cup {0})
<1>2. m \in S \cup {0} /\ \A y \in S \cup {0} : m >= y
  BY <1>1 DEF Max
<1> HIDE DEF m
<1>3. m \in 0..7 /\ \A y \in S : y <= m
  BY <1>2
<1> QED BY <1>2, <1>3 DEF m

\* The types of a process, whatever it does next.
LEMMA TypedStep ==
  ASSUME RunnersTyped, NEW r \in Runners, NEW s \in RunnerStates, Set(r, s),
         s.pc = "record" => s.next \in 1..7, s.pc = "down" => s.next \in 0..7,
         history' \in [rollbacks : Nat, deaths : Nat], recorded' \subseteq 1..7
  PROVE  RunnersTyped' /\ runner'[r] = s /\ \A q \in Runners \ {r} : runner'[q] = runner[q]
BY DEF RunnersTyped, Set

\* A process that applies loses nothing to the steps of the others, as long as
\* schema and rows only grow.
LEMMA OthersClimb ==
  ASSUME RunnersTyped, OnlyUp, history.rollbacks = 0, NEW r \in Runners,
         \A q \in Runners \ {r} : runner'[q] = runner[q],
         schema \subseteq schema', recorded \subseteq recorded',
         Climbing(r)', RecordedIsApplied'
  PROVE  OnlyUp'
<1>1. ASSUME NEW q \in Runners \ {r} PROVE Climbing(q)'
  BY <1>1 DEF OnlyUp, Climbing
<1> QED BY <1>1 DEF OnlyUp

\* What is recorded stays applied while the schema grows.
LEMMA AppliedGrows ==
  ASSUME RecordedIsApplied, history.rollbacks = 0, schema \subseteq schema', UNCHANGED recorded
  PROVE  RecordedIsApplied'
BY DEF RecordedIsApplied

\* A process that ends knows nothing and claims nothing.
LEMMA DoneKeeps ==
  ASSUME MigrationInv, NEW r \in Runners, Done(r), UNCHANGED <<schema, recorded>>,
         history' \in [rollbacks : Nat, deaths : Nat], history'.rollbacks = history.rollbacks
  PROVE  MigrationInv'
<1> DEFINE s == [pc |-> "idle", next |-> 0, left |-> 0]
<1>1. s \in RunnerStates /\ s.pc = "idle"
  BY DEF RunnerStates
<1>2. Set(r, s)
  BY DEF Done
<1>3. recorded' \subseteq 1..7
  BY DEF MigrationInv, RunnersTyped
<1> HIDE DEF s
<1>4. RunnersTyped' /\ runner'[r] = s /\ \A q \in Runners \ {r} : runner'[q] = runner[q]
  BY <1>1, <1>2, <1>3, TypedStep DEF MigrationInv
<1>5. ASSUME history.rollbacks = 0 PROVE OnlyUp'
  <2>1. Climbing(r)'
    BY <1>1, <1>4 DEF Climbing
  <2>2. RecordedIsApplied'
    BY <1>5, AppliedGrows DEF MigrationInv, OnlyUp
  <2> QED BY <1>4, <1>5, <2>1, <2>2, OthersClimb DEF MigrationInv
<1>6. ASSUME history.rollbacks # 0 PROVE OnlyUp'
  BY <1>6 DEF OnlyUp
<1> QED BY <1>4, <1>5, <1>6 DEF MigrationInv

\* The current version is recorded with everything below it.
LEMMA CurrentRecorded ==
  ASSUME MigrationInv
  PROVE  Current \in 0..7 /\ (history.rollbacks = 0 => 1..Current \subseteq recorded)
<1> DEFINE m == Max(recorded \cup {0})
<1>1. m \in 0..7 /\ m \in recorded \cup {0}
  BY MaxRecorded DEF MigrationInv, RunnersTyped
<1> HIDE DEF m
<1>2. history.rollbacks = 0 => 1..m \subseteq recorded
  BY <1>1 DEF MigrationInv, OnlyUp, RecordedIsApplied
<1>3. Current \in {m, 0}
  BY DEF Current, m
<1> QED BY <1>1, <1>2, <1>3

\* A run starts above what is recorded.
LEMMA StartApplyKeeps == ASSUME MigrationInv, NEW r \in Runners, StartApply(r) PROVE MigrationInv'
<1> DEFINE s == [pc |-> "up", next |-> Current + 1, left |-> 0]
<1>1. s \in RunnerStates /\ s.pc = "up" /\ s.next > 0 /\ s.next - 1 = Current
  BY CurrentRecorded DEF RunnerStates
<1>2. Set(r, s) /\ schema \subseteq schema' /\ UNCHANGED <<recorded, history>>
  BY DEF StartApply
<1> HIDE DEF s
<1>3. RunnersTyped' /\ runner'[r] = s /\ \A q \in Runners \ {r} : runner'[q] = runner[q]
  BY <1>1, <1>2, TypedStep DEF MigrationInv, RunnersTyped
<1>4. ASSUME history.rollbacks = 0 PROVE OnlyUp'
  <2>1. Climbing(r)'
    BY <1>1, <1>2, <1>3, <1>4, CurrentRecorded DEF Climbing
  <2>2. RecordedIsApplied'
    BY <1>2, <1>4, AppliedGrows DEF MigrationInv, OnlyUp
  <2> QED BY <1>2, <1>3, <1>4, <2>1, <2>2, OthersClimb DEF MigrationInv
<1> QED BY <1>2, <1>3, <1>4 DEF MigrationInv, OnlyUp

\* The statements of a migration are committed before its row.
LEMMA ApplyUpKeeps == ASSUME MigrationInv, NEW r \in Runners, ApplyUp(r) PROVE MigrationInv'
<1>0. runner[r] \in RunnerStates /\ runner[r].pc = "up" /\ runner[r].next \in 1..7
  BY SevenVersions DEF ApplyUp, MigrationInv, RunnersTyped
<1>1. CASE Fails(r)
  BY <1>1, DoneKeeps DEF Fails, MigrationInv, RunnersTyped
<1>2. CASE ~Fails(r)
  <2> DEFINE s == [runner[r] EXCEPT !.pc = "record"]
  <2>1. s \in RunnerStates /\ s.pc = "record" /\ s.next = runner[r].next
    BY <1>0 DEF RunnerStates
  <2>2. /\ Set(r, s) /\ schema \subseteq schema' /\ UNCHANGED <<recorded, history>>
        /\ Adds(runner[r].next) \subseteq schema'
    BY <1>2 DEF ApplyUp, Adds
  <2> HIDE DEF s
  <2>3. RunnersTyped' /\ runner'[r] = s /\ \A q \in Runners \ {r} : runner'[q] = runner[q]
    BY <1>0, <2>1, <2>2, TypedStep DEF MigrationInv, RunnersTyped
  <2>4. ASSUME history.rollbacks = 0 PROVE OnlyUp'
    <3>1. Climbing(r)'
      BY <1>0, <2>1, <2>2, <2>3, <2>4 DEF Climbing, MigrationInv, OnlyUp, Adds
    <3>2. RecordedIsApplied'
      BY <2>2, <2>4, AppliedGrows DEF MigrationInv, OnlyUp
    <3> QED BY <2>2, <2>3, <2>4, <3>1, <3>2, OthersClimb DEF MigrationInv
  <2> QED BY <2>2, <2>3, <2>4 DEF MigrationInv, OnlyUp
<1> QED BY <1>1, <1>2

\* A recorded version extends the recorded prefix.
LEMMA RecordUpKeeps == ASSUME MigrationInv, NEW r \in Runners, RecordUp(r) PROVE MigrationInv'
<1>0. runner[r] \in RunnerStates /\ runner[r].pc = "record" /\ runner[r].next \in 1..7
  BY DEF RecordUp, MigrationInv, RunnersTyped
<1>1. CASE Fails(r)
  BY <1>1, DoneKeeps DEF Fails, MigrationInv, RunnersTyped
<1>2. CASE ~Fails(r)
  <2> DEFINE s == [pc |-> "up", next |-> runner[r].next + 1, left |-> 0]
             n == runner[r].next
  <2>1. s \in RunnerStates /\ s.pc = "up" /\ s.next = n + 1 /\ n \in 1..7
    BY <1>0 DEF RunnerStates
  <2>2. /\ Set(r, s) /\ UNCHANGED <<schema, history>> /\ recorded' = recorded \cup {n}
    BY <1>2 DEF RecordUp
  <2> HIDE DEF s
  <2>3. RunnersTyped' /\ runner'[r] = s /\ \A q \in Runners \ {r} : runner'[q] = runner[q]
    BY <2>1, <2>2, TypedStep DEF MigrationInv, RunnersTyped
  <2>4. ASSUME history.rollbacks = 0 PROVE OnlyUp'
    <3>1. 1..(n - 1) \subseteq recorded /\ Adds(n) \subseteq schema
      BY <1>0, <2>4 DEF Climbing, MigrationInv, OnlyUp
    <3>2. 1..n \subseteq recorded'
      BY <2>1, <2>2, <3>1
    <3>3. Climbing(r)'
      BY <2>1, <2>3, <3>2 DEF Climbing
    <3>4. RecordedIsApplied'
      BY <2>2, <2>4, <3>1, <3>2 DEF RecordedIsApplied, MigrationInv, OnlyUp, Adds
    <3> QED BY <2>2, <2>3, <2>4, <3>3, <3>4, OthersClimb DEF MigrationInv
  <2> QED BY <2>2, <2>3, <2>4 DEF MigrationInv, OnlyUp
<1> QED BY <1>1, <1>2

\* A rollback is counted for good, so nothing is claimed from then on.
LEMMA StartRollbackKeeps == ASSUME MigrationInv, NEW r \in Runners, StartRollback(r) PROVE MigrationInv'
<1>1. PICK k \in {1, 3, Len(MIGRATIONS)} :
        Set(r, [pc |-> "down", next |-> Current, left |-> k])
  BY DEF StartRollback
<1> DEFINE s == [pc |-> "down", next |-> Current, left |-> k]
<1>2. s \in RunnerStates /\ s.pc = "down" /\ s.next \in 0..7
  BY CurrentRecorded, SevenVersions DEF RunnerStates
<1> HIDE DEF s
<1>3. /\ history' \in [rollbacks : Nat, deaths : Nat] /\ history'.rollbacks # 0 /\ UNCHANGED recorded
  BY DEF StartRollback, MigrationInv, RunnersTyped
<1>4. RunnersTyped'
  BY <1>1, <1>2, <1>3, TypedStep DEF MigrationInv, RunnersTyped, s
<1> QED BY <1>3, <1>4 DEF MigrationInv, OnlyUp

\* Only after a rollback does anything run a `down`.
LEMMA RunDownKeeps == ASSUME MigrationInv, NEW r \in Runners, RunDown(r) PROVE MigrationInv'
<1>0. /\ runner[r] \in RunnerStates /\ runner[r].pc = "down" /\ runner[r].next \in 0..7
      /\ history.rollbacks # 0
  BY DEF RunDown, MigrationInv, RunnersTyped, OnlyUp, Climbing
<1>1. CASE Fails(r)
  BY <1>1, DoneKeeps DEF Fails, MigrationInv, RunnersTyped
<1>2. CASE ~Fails(r)
  <2> DEFINE s == [pc |-> "down", next |-> runner[r].next - 1, left |-> runner[r].left - 1]
  <2>1. /\ runner[r].next # 0 /\ runner[r].left # 0
        /\ Set(r, s) /\ UNCHANGED history /\ recorded' \subseteq recorded
    BY <1>2 DEF RunDown, Fails
  <2>2. s \in RunnerStates /\ s.pc = "down" /\ s.next \in 0..7
    BY <1>0, <2>1 DEF RunnerStates
  <2> HIDE DEF s
  <2>3. RunnersTyped'
    BY <2>1, <2>2, TypedStep DEF MigrationInv, RunnersTyped
  <2> QED BY <1>0, <2>1, <2>3 DEF MigrationInv, OnlyUp
<1> QED BY <1>1, <1>2

\* A process that finishes or dies leaves schema and rows as they are.
LEMMA EndKeeps == ASSUME MigrationInv, NEW r \in Runners, FinishApply(r) \/ Die(r) PROVE MigrationInv'
<1>1. /\ Done(r) /\ UNCHANGED <<schema, recorded>>
      /\ history' \in [rollbacks : Nat, deaths : Nat] /\ history'.rollbacks = history.rollbacks
  BY DEF FinishApply, Die, MigrationInv, RunnersTyped
<1> QED BY <1>1, DoneKeeps

\* The invariant is inductive.
LEMMA MigrationInductive == MigrationSpec => []MigrationInv
<1>1. MigrationInit => MigrationInv
  BY DEF MigrationInit, MigrationInv, RunnersTyped, RunnerStates, OnlyUp, RecordedIsApplied, Climbing
<1>2. MigrationInv /\ [MigrationNext]_migrationVars => MigrationInv'
  <2>1. ASSUME MigrationInv, UNCHANGED migrationVars PROVE MigrationInv'
    BY <2>1 DEF migrationVars, MigrationInv, RunnersTyped, OnlyUp, RecordedIsApplied, Climbing
  <2> QED BY <2>1, StartApplyKeeps, ApplyUpKeeps, RecordUpKeeps, StartRollbackKeeps, RunDownKeeps, EndKeeps DEF MigrationNext
<1> QED BY <1>1, <1>2, PTL DEF MigrationSpec

\* However many processes apply the migrations at once, and wherever they
\* die: until something is rolled back, a recorded version is in the schema with
\* everything below it, and a run that finishes leaves every migration applied
\* and recorded (apply_migrations).
THEOREM MigrationsAlwaysWhole == MigrationSpec => MigrationsAreWhole
<1>1. MigrationInv' => RecordedIsApplied'
  BY DEF MigrationInv, OnlyUp, RecordedIsApplied
<1>2. MigrationInv => AppliedIsComplete
  <2> SUFFICES ASSUME MigrationInv, NEW r \in Runners, FinishApply(r), history.rollbacks = 0,
                      NEW v \in Versions
               PROVE  v \in recorded /\ MIGRATIONS[v].adds \subseteq schema
    BY DEF AppliedIsComplete
  <2>1. runner[r] \in RunnerStates /\ Climbing(r) /\ RecordedIsApplied
    BY DEF MigrationInv, RunnersTyped, OnlyUp
  <2>2. runner[r].next = 8
    BY <2>1, SevenVersions DEF FinishApply, Climbing, RunnerStates
  <2>3. v \in recorded
    BY <2>1, <2>2, SevenVersions DEF FinishApply, Climbing
  <2> QED BY <2>1, <2>3 DEF RecordedIsApplied
<1>3. MigrationInv /\ MigrationInv' => RecordedIsApplied' /\ AppliedIsComplete
  BY <1>1, <1>2
<1> QED BY <1>3, MigrationInductive, PTL DEF MigrationsAreWhole

(***************************************************************************)
(* Startup.  Each step of the start has made sure of what the later ones   *)
(* rely on.                                                                *)
(***************************************************************************)
BootSteps == {"policy", "repositories", "token", "artifacts", "evidence", "audit", "limiter",
              "serving", "refused"}
BootTyped ==
  /\ settings \in Settings
  /\ boot \in [step : BootSteps, tokens : SUBSET Tokens32, evidence : {"none", "postgres", "memory"},
               limiter : {"none", "memory", "redis, closed", "redis, open"},
               audit : {"none", "sqlite", "memory"}, artifacts : {"none", "ok", "error"}]
  /\ database \in [boots : Nat, migrated : BOOLEAN, demos : Nat, refusedAt : SUBSET BootSteps]
Past(steps) == boot.step \in steps
StepsPassed ==
  /\ Past({"policy", "repositories", "token"}) => boot.tokens = {}
  /\ Guarded /\ Past({"artifacts", "evidence", "audit", "limiter", "serving"}) => boot.tokens \subseteq {"strong"}
  /\ Guarded /\ Past({"audit", "limiter", "serving"}) => boot.evidence = "postgres"
  /\ StrictestEnv = "production" /\ Past({"limiter", "serving"}) => boot.audit = "sqlite"
  /\ StrictestEnv = "production" /\ Past({"serving"}) => boot.limiter = "redis, closed"
StartInv == BootTyped /\ StepsPassed /\ PolicyBeforeDatabase

\* What either variable calls staging or production, the strictest is at least.
LEMMA MeantIsGuarded ==
  ASSUME settings \in Settings, settings.builder_env # "qa"
  PROVE  /\ Meant("staging") \/ Meant("production") => Guarded
         /\ Meant("production") => StrictestEnv = "production"
<1>1. settings.builder_env \in {"", "local", "staging", "production"}
      /\ settings.app_env \in {"", "production", "staging"}
  BY DEF Settings, EnvWords
<1>2. Strictness["local"] = 0 /\ Strictness["staging"] = 1 /\ Strictness["production"] = 2
  BY DEF Strictness
<1>3. PICK a \in {"local", "staging", "production"}, b \in {"local", "staging", "production"} :
        /\ a = EnvOf(settings.builder_env) /\ b = EnvOf(settings.app_env)
        /\ \A w \in {"staging", "production"} : (settings.builder_env = w => a = w) /\ (settings.app_env = w => b = w)
  BY <1>1 DEF EnvOf
<1>4. StrictestEnv = IF Strictness[a] >= Strictness[b] THEN a ELSE b
  BY <1>3 DEF StrictestEnv
<1>5. CASE a = "production" \/ b = "production"
  <2>1. StrictestEnv = "production"
    BY <1>2, <1>4, <1>5
  <2> QED
    BY <2>1 DEF Guarded
<1>6. CASE a # "production" /\ b # "production"
  <2>1. ~Meant("production")
    BY <1>3, <1>6 DEF Meant
  <2>2. a = "staging" \/ b = "staging" => StrictestEnv = "staging"
    BY <1>2, <1>4, <1>6
  <2>3. Meant("staging") => a = "staging" \/ b = "staging"
    BY <1>3 DEF Meant
  <2> QED
    BY <2>1, <2>2, <2>3 DEF Guarded
<1> QED
  BY <1>5, <1>6

LEMMA StartInitInv == StartInit => StartInv
<1> SUFFICES ASSUME StartInit PROVE StartInv
  OBVIOUS
<1>1. settings \in Settings /\ boot.step = "policy"
  BY DEF StartInit, Fresh
<1>2. BootTyped
  BY <1>1 DEF StartInit, Fresh, BootTyped, BootSteps
<1>3. StepsPassed
  BY <1>1 DEF StepsPassed, Past, StartInit, Fresh
<1>4. PolicyBeforeDatabase
  BY <1>1 DEF PolicyBeforeDatabase, StartInit
<1> QED
  BY <1>2, <1>3, <1>4 DEF StartInv

\* A refusal forgets the step and reaches the database with nothing.
LEMMA RefuseKeeps ==
  ASSUME StartInv, Refuse, settings' = settings
  PROVE  StartInv'
<1>1. boot'.step = "refused" /\ database'.demos = database.demos /\ database'.migrated = database.migrated
  BY DEF Refuse, StartInv, BootTyped
<1>2. BootTyped'
  BY DEF Refuse, StartInv, BootTyped, BootSteps
<1>3. StepsPassed'
  BY <1>1 DEF StepsPassed, Past
<1>4. PolicyBeforeDatabase'
  BY <1>1 DEF StartInv, PolicyBeforeDatabase, PolicyRefuses, TokenRefused, CorsRefused, LimiterRefused,
              Guarded, StrictestEnv, EnvOf
<1> QED
  BY <1>2, <1>3, <1>4 DEF StartInv

\* A step that goes on leaves the settings alone, so what the policy says of
\* them does not change.
LEMMA SettingsKept ==
  ASSUME settings' = settings
  PROVE  /\ Guarded' = Guarded /\ StrictestEnv' = StrictestEnv
         /\ PolicyRefuses' = PolicyRefuses
BY DEF PolicyRefuses, TokenRefused, CorsRefused, LimiterRefused, Guarded, StrictestEnv, EnvOf

LEMMA StartNextInv == StartInv /\ [StartNext]_startVars => StartInv'
<1> SUFFICES ASSUME StartInv, [StartNext]_startVars PROVE StartInv'
  OBVIOUS
<1>1. BootTyped /\ StepsPassed /\ PolicyBeforeDatabase /\ settings' = settings
  BY DEF StartInv, StartNext, startVars
<1>2. Guarded' = Guarded /\ StrictestEnv' = StrictestEnv /\ PolicyRefuses' = PolicyRefuses
  BY <1>1, SettingsKept
<1>3. CASE UNCHANGED startVars
  BY <1>1, <1>2, <1>3 DEF startVars, StartInv, BootTyped, StepsPassed, Past, PolicyBeforeDatabase
<1>4. CASE Refuse
  BY <1>1, <1>4, RefuseKeeps
<1>5. ~PolicyRefuses => settings.builder_env # "qa" /\ ~TokenRefused /\ ~LimiterRefused
  BY DEF PolicyRefuses
<1>6. boot.step \notin {"policy", "refused"} => ~PolicyRefuses
  BY <1>1 DEF PolicyBeforeDatabase
<1>7. CASE CheckPolicy /\ ~Refuse
  <2>1. ~PolicyRefuses /\ database' = database /\ boot' = [boot EXCEPT !.step = "repositories"]
    BY <1>7 DEF CheckPolicy, Go
  <2>2. boot'.step = "repositories" /\ boot'.tokens = {} /\ BootTyped'
    BY <1>1, <1>7, <2>1 DEF BootTyped, BootSteps, CheckPolicy, StepsPassed, Past
  <2> QED
    BY <1>2, <2>1, <2>2 DEF StartInv, StepsPassed, Past, PolicyBeforeDatabase
<1>8. CASE BuildRepositories /\ ~Refuse
  <2>1. boot' = [boot EXCEPT !.step = "token"] /\ ~PolicyRefuses
    BY <1>6, <1>8 DEF BuildRepositories, Go
  <2>2. database' \in [boots : Nat, migrated : BOOLEAN, demos : Nat, refusedAt : SUBSET BootSteps]
    <3>1. \A n \in Nat : [database EXCEPT !.migrated = TRUE, !.demos = n]
                           \in [boots : Nat, migrated : BOOLEAN, demos : Nat, refusedAt : SUBSET BootSteps]
      BY <1>1 DEF BootTyped
    <3>2. \A n \in Nat : n + 1 \in Nat /\ n + 0 \in Nat
      OBVIOUS
    <3>3. database.demos \in Nat
      BY <1>1 DEF BootTyped
    <3> QED
      BY <1>1, <1>8, <3>1, <3>2, <3>3 DEF BuildRepositories, BootTyped
  <2>3. boot'.step = "token" /\ boot'.tokens = {} /\ BootTyped'
    BY <1>1, <1>8, <2>1, <2>2 DEF BootTyped, BootSteps, BuildRepositories, StepsPassed, Past
  <2> QED
    BY <1>2, <2>1, <2>3 DEF StartInv, StepsPassed, Past, PolicyBeforeDatabase
<1>9. CASE RegisterToken /\ ~Refuse
  <2>1. ~PolicyRefuses /\ boot.step = "token" /\ database' = database
    BY <1>6, <1>9 DEF RegisterToken
  <2>2. PICK token \in Tokens32 : token = IF settings.dev THEN "dev-token" ELSE settings.token
    BY <1>1 DEF BootTyped, Settings, Tokens32
  <2>3. boot.tokens = {}
    BY <1>1, <2>1 DEF StepsPassed, Past
  <2>4. CASE token \in {"none", "blank"}
    <3>1. boot' = [boot EXCEPT !.step = "artifacts"]
      BY <1>9, <2>2, <2>4 DEF RegisterToken, Go
    <3>2. boot'.step = "artifacts" /\ boot'.tokens = {} /\ BootTyped'
      BY <1>1, <2>1, <2>3, <3>1 DEF BootTyped, BootSteps
    <3> QED
      BY <1>2, <2>1, <3>2 DEF StartInv, StepsPassed, Past, PolicyBeforeDatabase
  <2>5. CASE token \notin {"none", "blank"}
    <3>1. ~(Guarded /\ (settings.dev \/ token = "dev-token"))
          /\ boot' = [boot EXCEPT !.step = "artifacts", !.tokens = {token}]
      BY <1>9, <2>2, <2>5 DEF RegisterToken
    <3>2. {token} \in SUBSET Tokens32
      OBVIOUS
    <3>3. boot'.step = "artifacts" /\ boot'.tokens = {token} /\ BootTyped'
      BY <1>1, <2>1, <3>1, <3>2 DEF BootTyped, BootSteps
    <3>4. Guarded => token = "strong"
      BY <1>5, <2>1, <2>2, <2>5, <3>1 DEF TokenRefused
    <3> QED
      BY <1>2, <2>1, <3>3, <3>4 DEF StartInv, StepsPassed, Past, PolicyBeforeDatabase
  <2> QED
    BY <2>4, <2>5
<1>10. CASE CreateArtifactStore
  <2>1. PICK status \in {"ok", "error"} : boot' = [boot EXCEPT !.step = "evidence", !.artifacts = status]
    BY <1>10 DEF CreateArtifactStore
  <2>2. boot'.step = "evidence" /\ boot'.tokens = boot.tokens /\ BootTyped'
    BY <1>1, <1>10, <2>1 DEF BootTyped, BootSteps, CreateArtifactStore
  <2> QED
    BY <1>1, <1>2, <1>6, <1>10, <2>2 DEF StartInv, StepsPassed, Past, PolicyBeforeDatabase, CreateArtifactStore
<1>11. CASE ChooseEvidence /\ ~Refuse
  <2>1. PICK kind \in {"postgres", "memory"} :
          boot' = [boot EXCEPT !.step = "audit", !.evidence = kind] /\ (Guarded => kind = "postgres")
    BY <1>11 DEF ChooseEvidence
  <2>2. boot'.step = "audit" /\ boot'.tokens = boot.tokens /\ boot'.evidence = kind /\ BootTyped'
    BY <1>1, <1>11, <2>1 DEF BootTyped, BootSteps, ChooseEvidence
  <2> QED
    BY <1>1, <1>2, <1>6, <1>11, <2>1, <2>2 DEF StartInv, StepsPassed, Past, PolicyBeforeDatabase, ChooseEvidence
<1>12. CASE ChooseAuditStore /\ ~Refuse
  <2>1. PICK kind \in {"sqlite", "memory"} :
          /\ boot' = [boot EXCEPT !.step = "limiter", !.audit = kind]
          /\ StrictestEnv = "production" => kind = "sqlite"
    BY <1>12 DEF ChooseAuditStore
  <2>2. /\ boot'.step = "limiter" /\ boot'.tokens = boot.tokens /\ boot'.evidence = boot.evidence
        /\ boot'.audit = kind /\ BootTyped'
    BY <1>1, <1>12, <2>1 DEF BootTyped, BootSteps, ChooseAuditStore
  <2> QED
    BY <1>1, <1>2, <1>6, <1>12, <2>1, <2>2 DEF StartInv, StepsPassed, Past, PolicyBeforeDatabase, ChooseAuditStore
<1>13. CASE ChooseLimiter
  <2>1. ~PolicyRefuses /\ boot.step = "limiter"
    BY <1>6, <1>13 DEF ChooseLimiter
  <2>2. StrictestEnv = "production" => settings.limiter = "redis"
    BY <1>5, <2>1 DEF LimiterRefused
  <2>3. PICK kind \in {"memory", "redis, closed", "redis, open"} :
          /\ boot' = [boot EXCEPT !.step = "serving", !.limiter = kind]
          /\ StrictestEnv = "production" => kind = "redis, closed"
    <3>1. CASE settings.limiter # "redis"
      BY <1>13, <2>2, <3>1 DEF ChooseLimiter
    <3>2. CASE settings.limiter = "redis" /\ StrictestEnv = "production"
      BY <1>13, <3>2 DEF ChooseLimiter
    <3>3. CASE settings.limiter = "redis" /\ StrictestEnv # "production"
      BY <1>13, <3>3 DEF ChooseLimiter
    <3> QED
      BY <3>1, <3>2, <3>3
  <2>4. /\ boot'.step = "serving" /\ boot'.tokens = boot.tokens /\ boot'.evidence = boot.evidence
        /\ boot'.audit = boot.audit /\ boot'.limiter = kind /\ BootTyped'
    BY <1>1, <1>13, <2>3 DEF BootTyped, BootSteps, ChooseLimiter
  <2> QED
    BY <1>1, <1>2, <2>1, <2>3, <2>4 DEF StartInv, StepsPassed, Past, PolicyBeforeDatabase
<1>14. CASE Restart
  <2>1. boot' = Fresh /\ database' = [database EXCEPT !.boots = @ + 1]
    BY <1>14 DEF Restart
  <2>2. boot'.step = "policy" /\ boot'.tokens = {} /\ BootTyped'
    <3>1. \A n \in Nat : [database EXCEPT !.boots = n]
                           \in [boots : Nat, migrated : BOOLEAN, demos : Nat, refusedAt : SUBSET BootSteps]
      BY <1>1 DEF BootTyped
    <3>2. database.boots \in Nat /\ \A n \in Nat : n + 1 \in Nat
      <4>1. database.boots \in Nat
        BY <1>1 DEF BootTyped
      <4> QED
        BY <4>1
    <3>3. database' \in [boots : Nat, migrated : BOOLEAN, demos : Nat, refusedAt : SUBSET BootSteps]
      BY <2>1, <3>1, <3>2, Zenon
    <3>4. {} \in SUBSET Tokens32
      OBVIOUS
    <3>5. boot' \in [step : BootSteps, tokens : SUBSET Tokens32, evidence : {"none", "postgres", "memory"},
                     limiter : {"none", "memory", "redis, closed", "redis, open"},
                     audit : {"none", "sqlite", "memory"}, artifacts : {"none", "ok", "error"}]
      BY <2>1, <3>4 DEF Fresh, BootSteps
    <3> QED
      BY <1>1, <2>1, <3>3, <3>5 DEF BootTyped, Fresh
  <2>3. database'.demos = database.demos /\ database'.migrated = database.migrated
    BY <1>1, <2>1 DEF BootTyped
  <2> QED
    BY <1>1, <1>2, <2>2, <2>3 DEF StartInv, StepsPassed, Past, PolicyBeforeDatabase
<1> QED
  BY <1>3, <1>4, <1>7, <1>8, <1>9, <1>10, <1>11, <1>12, <1>13, <1>14 DEF StartNext

\* An API that serves has every guard its environment asks for, and settings
\* that the policy refuses never reached the database, for any number of
\* attempts to start (create_fastapi_app).
THEOREM StartAlwaysGuarded == StartSpec => []StartIsGuarded
<1>1. StartInv => StartIsGuarded
  <2> SUFFICES ASSUME StartInv PROVE ServesGuarded
    BY DEF StartInv, StartIsGuarded
  <2>1. boot.step = "serving" => ~PolicyRefuses
    BY DEF StartInv, PolicyBeforeDatabase
  <2>2. boot.step = "serving" => /\ Meant("staging") \/ Meant("production") => Guarded
                                 /\ Meant("production") => StrictestEnv = "production"
    BY <2>1, MeantIsGuarded DEF PolicyRefuses, StartInv, BootTyped
  <2> QED
    BY <2>2 DEF ServesGuarded, StartInv, StepsPassed, Past
<1> QED
  BY StartInitInv, StartNextInv, <1>1, PTL DEF StartSpec

(***************************************************************************)
(* AiDrafts.  For any number of requests at once: what a request knows at  *)
(* each point of its way, and what the audit store holds of it by then.    *)
(***************************************************************************)
DraftPcs == {"idle", "fixture", "openai", "instructor", "received", "parse", "attempt", "judge", "judge spec",
             "record", "check", "apply", "done"}
DraftOps == {"draft", "apply", "apply spec"}
DraftSpecs == Specs \cup {"none"}
CallSets == SUBSET Calls
Codes == {0, 200, 422, 500}
CallStates ==
  [pc : DraftPcs, op : DraftOps, attempts : Nat, spec : DraftSpecs, responded : BOOLEAN,
   before : CallSets, accepted : BOOLEAN, status : Codes]
AuditRecords ==
  [call : Calls, kind : {"draft", "applied"}, accepted : BOOLEAN, spec : DraftSpecs,
   metadata : Calls \cup {"config", "none"}]
DraftsTyped ==
  /\ provider \in {"fixture", "openai", "instructor"}
  /\ draft \in [Calls -> CallStates]
  /\ audit \in Seq(AuditRecords)
  /\ metadata \in Calls \cup {"config"}
\* What the state of one request says of its own fields.
CallOK(v) ==
  /\ v.pc # "done" => v.status = 0
  /\ v.pc \in {"idle", "fixture", "openai", "instructor", "received", "parse", "attempt"} => v.spec = "none"
  /\ v.pc \in {"fixture", "openai", "instructor"} => v.pc = provider
  /\ v.pc \in {"received", "parse"} => provider = "openai"
  /\ v.responded => provider = "openai" /\ v.pc \notin {"idle", "openai"}
  /\ v.pc = "judge spec" => v.op = "apply spec" /\ v.spec # "none"
  /\ v.pc \in {"fixture", "openai", "instructor", "received", "parse", "attempt", "judge", "record"} => v.op # "apply spec"
  /\ v.pc = "check" => v.op = "apply"
  /\ v.pc = "apply" => v.op # "draft" /\ v.spec = "valid"
  /\ v.pc \in {"record", "check"} => (v.accepted <=> v.spec = "valid")
CallsOK == \A c \in Calls : CallOK(draft[c])
\* A request that goes on to apply has left the record of its draft.
Recorded(c, accepted) ==
  \E i \in DOMAIN audit : audit[i].call = c /\ audit[i].kind = "draft" /\ audit[i].accepted = accepted
DraftOnRecord ==
  \A c \in Calls : /\ draft[c].pc = "check" => Recorded(c, draft[c].accepted)
                   /\ draft[c].pc = "apply" /\ draft[c].op = "apply" => Recorded(c, TRUE)
RecordedIsPast == \A i \in DOMAIN audit : draft[audit[i].call].pc \in {"check", "apply", "done"}
\* What was over when a request began is over still, so no later response is
\* one of those.
BeforeIsOver == \A c \in Calls : \A b \in draft[c].before : draft[b].pc = "done" /\ b # c
SlotIsFresh ==
  \A c \in Calls : draft[c].responded /\ draft[c].pc # "received" => metadata \in Calls \ draft[c].before
DraftInv ==
  /\ DraftsTyped /\ CallsOK /\ DraftOnRecord /\ RecordedIsPast /\ BeforeIsOver /\ SlotIsFresh
  /\ AnsweredIsRecorded /\ AppliedWasAccepted /\ MetadataNotStale

\* The answers that AnsweredIsRecorded is about.
WasAnswered(v) == (v.status = 200 \/ (v.status = 422 /\ v.spec # "none")) /\ v.op # "apply spec"
HasDraft(c) == Records(c, "draft") # {}
LEMMA AnsweredAgain == AnsweredIsRecorded <=> \A c \in Calls : WasAnswered(draft[c]) => HasDraft(c)
BY DEF AnsweredIsRecorded, WasAnswered, HasDraft
LEMMA AnsweredNext == AnsweredIsRecorded' <=> \A c \in Calls : WasAnswered(draft'[c]) => HasDraft(c)'
BY DEF AnsweredIsRecorded, WasAnswered, HasDraft

LEMMA DraftInitInv == DraftInit => DraftInv
<1> SUFFICES ASSUME DraftInit PROVE DraftInv
  OBVIOUS
<1>1. Idle \in CallStates
  <2>1. {} \in SUBSET Calls
    OBVIOUS
  <2> QED
    BY <2>1 DEF Idle, CallStates, DraftPcs, DraftOps, DraftSpecs, CallSets, Codes, Specs
<1>2. DraftsTyped
  BY <1>1 DEF DraftInit, DraftsTyped
<1>3. \A c \in Calls : /\ draft[c].pc = "idle" /\ draft[c].spec = "none" /\ draft[c].responded = FALSE
                       /\ draft[c].before = {} /\ draft[c].status = 0
  <2>1. \A c \in Calls : draft[c] = Idle
    BY DEF DraftInit
  <2>2. Idle.pc = "idle" /\ Idle.spec = "none" /\ Idle.responded = FALSE /\ Idle.before = {} /\ Idle.status = 0
    BY DEF Idle
  <2> QED
    BY <2>1, <2>2
<1>4. CallsOK
  BY <1>3 DEF CallsOK, CallOK
<1>5. DOMAIN audit = {}
  BY DEF DraftInit
<1>6. DraftOnRecord /\ BeforeIsOver /\ SlotIsFresh
  BY <1>3 DEF DraftOnRecord, BeforeIsOver, SlotIsFresh
<1>7. AnsweredIsRecorded
  <2>1. \A v : v.status = 0 => ~WasAnswered(v)
    BY DEF WasAnswered
  <2> QED
    BY <1>3, <2>1, AnsweredAgain
<1>8. RecordedIsPast /\ AppliedWasAccepted /\ MetadataNotStale
  BY <1>5 DEF RecordedIsPast, AppliedWasAccepted, MetadataNotStale
<1> QED
  BY <1>2, <1>4, <1>6, <1>7, <1>8 DEF DraftInv

\* A step of request c to state v that saves no record.
QuietStep(c, v) ==
  /\ v \in CallStates /\ CallOK(v) /\ draft' = [draft EXCEPT ![c] = v]
  /\ audit' = audit /\ provider' = provider
  /\ metadata' = metadata \/ (metadata' = c /\ draft[c].pc = "received")
  /\ draft[c].pc # "done"
  /\ \/ draft[c].pc = "idle" /\ ~v.responded /\ v.before = {b \in Calls : draft[b].pc = "done"}
     \/ draft[c].pc # "idle" /\ v.op = draft[c].op /\ v.before = draft[c].before
  /\ v.responded /\ v.pc # "received" =>
       (draft[c].responded /\ draft[c].pc # "received") \/ metadata' = c
  /\ draft[c].pc \in {"check", "apply"} => v.pc \in {"apply", "done"} /\ v.responded = draft[c].responded
  /\ v.pc # "check" /\ v.status # 200
  /\ v.pc = "apply" /\ v.op = "apply" => draft[c].pc = "check" /\ draft[c].accepted
  /\ v.status = 422 /\ v.spec # "none" /\ v.op # "apply spec" => draft[c].pc = "check"

LEMMA QuietKeeps ==
  ASSUME DraftInv, NEW c \in Calls, NEW v, QuietStep(c, v)
  PROVE  DraftInv'
<1>1. /\ v \in CallStates /\ CallOK(v) /\ draft' = [draft EXCEPT ![c] = v]
      /\ audit' = audit /\ provider' = provider
      /\ metadata' = metadata \/ (metadata' = c /\ draft[c].pc = "received")
      /\ draft[c].pc # "done"
  BY DEF QuietStep
<1>2. DraftsTyped /\ draft \in [Calls -> CallStates]
  BY DEF DraftInv, DraftsTyped
<1>3. draft'[c] = v /\ \A d \in Calls : d # c => draft'[d] = draft[d]
  BY <1>1, <1>2
<1>4. DraftsTyped'
  BY <1>1, <1>2 DEF DraftsTyped
<1>5. CallsOK'
  <2>1. \A d \in Calls : CallOK(draft[d])
    BY DEF DraftInv, CallsOK
  <2> SUFFICES ASSUME NEW d \in Calls PROVE CallOK(draft[d])'
    BY DEF CallsOK
  <2>2. CASE d = c
    BY <1>1, <1>3, <2>2 DEF CallOK
  <2>3. CASE d # c
    <3>1. draft'[d] = draft[d] /\ CallOK(draft[d]) /\ provider' = provider
      BY <1>1, <1>3, <2>1, <2>3
    <3> QED
      BY <3>1 DEF CallOK
  <2> QED
    BY <2>2, <2>3
<1>6. \A d, a : Recorded(d, a)' <=> Recorded(d, a)
  BY <1>1 DEF Recorded
<1>7. DraftOnRecord'
  <2> SUFFICES ASSUME NEW d \in Calls
               PROVE  /\ draft'[d].pc = "check" => Recorded(d, draft'[d].accepted)
                      /\ draft'[d].pc = "apply" /\ draft'[d].op = "apply" => Recorded(d, TRUE)
    BY <1>6 DEF DraftOnRecord
  <2>1. CASE d = c
    <3>1. v.pc # "check" /\ (v.pc = "apply" /\ v.op = "apply" => draft[c].pc = "check" /\ draft[c].accepted)
      BY DEF QuietStep
    <3>2. draft[c].accepted \in BOOLEAN
      BY <1>2 DEF CallStates
    <3>3. draft[c].pc = "check" /\ draft[c].accepted => Recorded(c, TRUE)
      BY <3>2 DEF DraftInv, DraftOnRecord
    <3> QED
      BY <1>3, <2>1, <3>1, <3>3
  <2>2. CASE d # c
    BY <1>3, <2>2 DEF DraftInv, DraftOnRecord
  <2> QED
    BY <2>1, <2>2
<1>8. \A i \in DOMAIN audit : audit[i].call \in Calls
  <2>1. \A i \in DOMAIN audit : audit[i] \in AuditRecords
    BY <1>2 DEF DraftsTyped
  <2> QED
    BY <2>1 DEF AuditRecords
<1>9. RecordedIsPast'
  <2> SUFFICES ASSUME NEW i \in DOMAIN audit
               PROVE  draft'[audit[i].call].pc \in {"check", "apply", "done"}
    BY <1>1 DEF RecordedIsPast
  <2>1. draft[audit[i].call].pc \in {"check", "apply", "done"}
    BY DEF DraftInv, RecordedIsPast
  <2>2. draft[c].pc \in {"check", "apply"} => v.pc \in {"apply", "done"}
    BY DEF QuietStep
  <2> QED
    BY <1>1, <1>3, <1>8, <2>1, <2>2
<1>10. BeforeIsOver'
  <2>1. \A d \in Calls : \A b \in draft[d].before : b \in Calls /\ draft[b].pc = "done" /\ b # d
    BY <1>2 DEF DraftInv, BeforeIsOver, CallStates, CallSets
  <2>2. \A b \in v.before : b \in Calls /\ draft[b].pc = "done"
    BY <2>1 DEF QuietStep
  <2> SUFFICES ASSUME NEW d \in Calls, NEW b \in draft'[d].before PROVE draft'[b].pc = "done" /\ b # d
    BY DEF BeforeIsOver
  <2>3. b \in Calls /\ draft[b].pc = "done"
    BY <1>3, <2>1, <2>2
  <2>4. b # c /\ draft'[b].pc = "done"
    BY <1>1, <1>3, <2>3
  <2> QED
    BY <1>3, <2>1, <2>4
<1>11. SlotIsFresh'
  <2>1. c \notin v.before
    <3>1. \A b \in v.before : draft[b].pc = "done"
      BY DEF QuietStep, DraftInv, BeforeIsOver
    <3> QED
      BY <1>1, <3>1
  <2>2. \A d \in Calls : c \notin draft[d].before
    BY <1>1 DEF DraftInv, BeforeIsOver
  <2> SUFFICES ASSUME NEW d \in Calls, draft'[d].responded, draft'[d].pc # "received"
               PROVE  metadata' \in Calls \ draft'[d].before
    BY DEF SlotIsFresh
  <2>3. CASE metadata' = c
    BY <1>3, <2>1, <2>2, <2>3
  <2>4. CASE metadata' # c /\ d # c
    BY <1>1, <1>3, <2>4 DEF DraftInv, SlotIsFresh
  <2>5. CASE metadata' # c /\ d = c
    <3>1. draft[c].responded /\ draft[c].pc # "received" /\ metadata' = metadata
      BY <1>1, <1>3, <2>5 DEF QuietStep
    <3>2. draft[c].pc # "idle" /\ v.before = draft[c].before
      BY <1>3, <2>5 DEF QuietStep
    <3> QED
      BY <1>3, <2>5, <3>1, <3>2 DEF DraftInv, SlotIsFresh
  <2> QED
    BY <2>3, <2>4, <2>5
<1>12. AnsweredIsRecorded'
  <2>1. \A d : HasDraft(d)' <=> HasDraft(d)
    BY <1>1 DEF Records, HasDraft
  <2>2. WasAnswered(v) => draft[c].pc = "check"
    BY DEF QuietStep, WasAnswered
  <2>3. draft[c].pc = "check" => HasDraft(c)
    BY DEF DraftInv, DraftOnRecord, Recorded, HasDraft, Records
  <2>4. \A d \in Calls : WasAnswered(draft[d]) => HasDraft(d)
    BY AnsweredAgain DEF DraftInv
  <2>5. \A d \in Calls : WasAnswered(draft'[d]) => HasDraft(d)
    BY <1>3, <2>2, <2>3, <2>4
  <2> QED
    BY <2>1, <2>5, AnsweredNext
<1>13. \A i \in DOMAIN audit : /\ draft'[audit[i].call].op = draft[audit[i].call].op
                              /\ draft'[audit[i].call].responded = draft[audit[i].call].responded
                              /\ draft'[audit[i].call].before = draft[audit[i].call].before
  <2> SUFFICES ASSUME NEW i \in DOMAIN audit, audit[i].call = c
               PROVE  v.op = draft[c].op /\ v.responded = draft[c].responded /\ v.before = draft[c].before
    BY <1>3, <1>8
  <2>1. draft[c].pc \in {"check", "apply", "done"}
    BY DEF DraftInv, RecordedIsPast
  <2> QED
    BY <1>1, <2>1 DEF QuietStep
<1>14. AppliedWasAccepted'
  BY <1>1, <1>13 DEF DraftInv, AppliedWasAccepted
<1>15. MetadataNotStale'
  BY <1>1, <1>13 DEF DraftInv, MetadataNotStale
<1> QED
  BY <1>4, <1>5, <1>7, <1>9, <1>10, <1>11, <1>12, <1>14, <1>15 DEF DraftInv

\* A step of request c to state v that saves the record r.
SaveStep(c, v, r) ==
  /\ v \in CallStates /\ CallOK(v) /\ draft' = [draft EXCEPT ![c] = v]
  /\ r \in AuditRecords /\ audit' = Append(audit, r) /\ r.call = c
  /\ provider' = provider /\ metadata' = metadata
  /\ v.op = draft[c].op /\ v.before = draft[c].before /\ v.responded = draft[c].responded
  /\ v.pc \in {"check", "done"} /\ (v.pc = "check" => r.kind = "draft")
  /\ \/ /\ r.kind = "draft" /\ draft[c].pc = "record" /\ r.accepted = v.accepted
        /\ provider = "openai" => r.metadata = metadata
     \/ /\ r.kind = "applied" /\ draft[c].pc = "apply" /\ r.spec = "valid"

LEMMA SaveKeeps ==
  ASSUME DraftInv, NEW c \in Calls, NEW v, NEW r, SaveStep(c, v, r)
  PROVE  DraftInv'
<1>1. /\ v \in CallStates /\ CallOK(v) /\ draft' = [draft EXCEPT ![c] = v]
      /\ r \in AuditRecords /\ audit' = Append(audit, r) /\ r.call = c
      /\ provider' = provider /\ metadata' = metadata
      /\ v.op = draft[c].op /\ v.before = draft[c].before /\ v.responded = draft[c].responded
      /\ v.pc \in {"check", "done"}
  BY DEF SaveStep
<1>2. DraftsTyped /\ draft \in [Calls -> CallStates] /\ audit \in Seq(AuditRecords)
  BY DEF DraftInv, DraftsTyped
<1>3. draft'[c] = v /\ \A d \in Calls : d # c => draft'[d] = draft[d]
  BY <1>1, <1>2
<1>4. PICK n \in Nat : n = Len(audit)
  BY <1>2
<1>5. /\ DOMAIN audit = 1..n /\ DOMAIN audit' = 1..(n + 1)
      /\ audit'[n + 1] = r /\ \A i \in 1..n : audit'[i] = audit[i]
  BY <1>1, <1>2, <1>4
<1>6. \A i \in DOMAIN audit' : i \in DOMAIN audit \/ i = n + 1
  BY <1>5
<1>7. \A i \in DOMAIN audit : i \in DOMAIN audit' /\ audit'[i] = audit[i]
  BY <1>5
<1>8. n + 1 \in DOMAIN audit' /\ n + 1 \notin DOMAIN audit
  BY <1>5
<1>9. \A i \in DOMAIN audit : audit[i].call \in Calls
  <2>1. \A i \in DOMAIN audit : audit[i] \in AuditRecords
    BY <1>2
  <2> QED
    BY <2>1 DEF AuditRecords
<1>10. \A d \in Calls : /\ draft'[d].op = draft[d].op /\ draft'[d].before = draft[d].before
                        /\ draft'[d].responded = draft[d].responded
  BY <1>1, <1>3
<1>11. draft[c].pc \in {"record", "apply"}
  BY DEF SaveStep
<1>12. DraftsTyped'
  <2>1. draft' \in [Calls -> CallStates]
    BY <1>1, <1>2
  <2>2. audit' \in Seq(AuditRecords)
    BY <1>1, <1>2
  <2> QED
    BY <1>1, <1>2, <2>1, <2>2 DEF DraftsTyped
<1>13. CallsOK'
  <2>1. \A d \in Calls : CallOK(draft[d])
    BY DEF DraftInv, CallsOK
  <2> SUFFICES ASSUME NEW d \in Calls PROVE CallOK(draft[d])'
    BY DEF CallsOK
  <2>2. CASE d = c
    BY <1>1, <1>3, <2>2 DEF CallOK
  <2>3. CASE d # c
    <3>1. draft'[d] = draft[d] /\ CallOK(draft[d]) /\ provider' = provider
      BY <1>1, <1>3, <2>1, <2>3
    <3> QED
      BY <3>1 DEF CallOK
  <2> QED
    BY <2>2, <2>3
<1>14. DraftOnRecord'
  <2>1. \A d, a : Recorded(d, a) => Recorded(d, a)'
    BY <1>7 DEF Recorded
  <2>2. v.pc = "check" => \E i \in DOMAIN audit' : /\ audit'[i].call = c /\ audit'[i].kind = "draft"
                                                   /\ audit'[i].accepted = v.accepted
    <3>1. v.pc = "check" => r.kind = "draft" /\ r.accepted = v.accepted
      BY DEF SaveStep
    <3> QED
      BY <1>1, <1>5, <1>8, <3>1
  <2> SUFFICES ASSUME NEW d \in Calls
               PROVE  /\ draft'[d].pc = "check" =>
                           \E i \in DOMAIN audit' : /\ audit'[i].call = d /\ audit'[i].kind = "draft"
                                                    /\ audit'[i].accepted = draft'[d].accepted
                      /\ draft'[d].pc = "apply" /\ draft'[d].op = "apply" => Recorded(d, TRUE)'
    BY DEF DraftOnRecord, Recorded
  <2>3. CASE d = c
    <3>1. draft'[d] = v /\ v.pc # "apply"
      BY <1>1, <1>3, <2>3
    <3> QED
      BY <2>2, <2>3, <3>1
  <2>4. CASE d # c
    <3>1. /\ draft[d].pc = "check" => Recorded(d, draft[d].accepted)
          /\ draft[d].pc = "apply" /\ draft[d].op = "apply" => Recorded(d, TRUE)
      BY DEF DraftInv, DraftOnRecord
    <3>2. draft'[d] = draft[d]
      BY <1>3, <2>4
    <3>3. draft'[d].pc = "check" => \E i \in DOMAIN audit : /\ audit[i].call = d /\ audit[i].kind = "draft"
                                                           /\ audit[i].accepted = draft'[d].accepted
      BY <3>1, <3>2 DEF Recorded
    <3> QED
      BY <1>7, <2>1, <3>1, <3>2, <3>3
  <2> QED
    BY <2>3, <2>4
<1>15. RecordedIsPast'
  <2> SUFFICES ASSUME NEW i \in DOMAIN audit'
               PROVE  draft'[audit'[i].call].pc \in {"check", "apply", "done"}
    BY DEF RecordedIsPast
  <2>1. CASE i \in DOMAIN audit
    <3>1. draft[audit[i].call].pc \in {"check", "apply", "done"}
      BY <2>1 DEF DraftInv, RecordedIsPast
    <3> QED
      BY <1>1, <1>3, <1>7, <1>9, <2>1, <3>1
  <2>2. CASE i = n + 1
    BY <1>1, <1>3, <1>5, <2>2
  <2> QED
    BY <1>6, <2>1, <2>2
<1>16. BeforeIsOver'
  <2>1. \A d \in Calls : \A b \in draft[d].before : b \in Calls /\ draft[b].pc = "done" /\ b # d
    BY <1>2 DEF DraftInv, BeforeIsOver, CallStates, CallSets
  <2>2. \A b \in Calls : draft[b].pc = "done" => b # c /\ draft'[b].pc = "done"
    BY <1>3, <1>11
  <2> QED
    BY <1>10, <2>1, <2>2 DEF BeforeIsOver
<1>17. SlotIsFresh'
  <2>1. \A d \in Calls : draft[d].responded /\ draft[d].pc # "received" => metadata \in Calls \ draft[d].before
    BY DEF DraftInv, SlotIsFresh
  <2>2. \A d \in Calls : draft'[d].pc # "received" => draft[d].pc # "received"
    BY <1>3, <1>11
  <2> QED
    BY <1>1, <1>10, <2>1, <2>2 DEF SlotIsFresh
<1>18. AnsweredIsRecorded'
  <2>1. \A d : HasDraft(d) => HasDraft(d)'
    BY <1>7 DEF HasDraft, Records
  <2>2. WasAnswered(v) => HasDraft(c)'
    <3> SUFFICES ASSUME WasAnswered(v) PROVE HasDraft(c)'
      OBVIOUS
    <3>1. CASE r.kind = "draft"
      BY <1>1, <1>5, <1>8, <3>1 DEF HasDraft, Records
    <3>2. CASE r.kind # "draft"
      <4>1. draft[c].pc = "apply" /\ draft[c].op # "apply spec" /\ CallOK(draft[c])
        BY <1>1, <3>2 DEF WasAnswered, SaveStep, DraftInv, CallsOK
      <4>2. draft[c].op = "apply"
        BY <1>2, <4>1 DEF CallOK, CallStates, DraftOps
      <4>3. Recorded(c, TRUE)
        BY <4>1, <4>2 DEF DraftInv, DraftOnRecord
      <4>4. HasDraft(c)
        BY <4>3 DEF Recorded, HasDraft, Records
      <4> QED
        BY <2>1, <4>4
    <3> QED
      BY <3>1, <3>2
  <2>3. \A d \in Calls : WasAnswered(draft[d]) => HasDraft(d)
    BY AnsweredAgain DEF DraftInv
  <2>4. \A d \in Calls : WasAnswered(draft'[d]) => HasDraft(d)'
    BY <1>3, <2>1, <2>2, <2>3
  <2> QED
    BY <2>4, AnsweredNext
<1>19. AppliedWasAccepted'
  <2> SUFFICES ASSUME NEW i \in DOMAIN audit', audit'[i].kind = "applied"
               PROVE  /\ audit'[i].spec = "valid"
                      /\ draft'[audit'[i].call].op = "apply" =>
                           \E j \in 1..i - 1 : audit'[j].call = audit'[i].call /\ audit'[j].accepted
    BY DEF AppliedWasAccepted
  <2>1. CASE i \in DOMAIN audit
    <3>1. audit'[i] = audit[i] /\ audit[i].call \in Calls /\ i \in 1..n
      BY <1>5, <1>7, <1>9, <2>1
    <3>2. /\ audit[i].spec = "valid"
          /\ draft[audit[i].call].op = "apply" =>
               \E j \in 1..i - 1 : audit[j].call = audit[i].call /\ audit[j].accepted
      BY <2>1, <3>1 DEF DraftInv, AppliedWasAccepted
    <3>3. \A j \in 1..i - 1 : audit'[j] = audit[j]
      BY <1>4, <1>5, <3>1
    <3> QED
      BY <1>10, <3>1, <3>2, <3>3
  <2>2. CASE i = n + 1
    <3>1. draft[c].pc = "apply" /\ r.spec = "valid"
      BY <1>5, <2>2 DEF SaveStep
    <3>2. SUFFICES ASSUME draft[c].op = "apply"
                   PROVE  \E j \in 1..n : audit'[j].call = c /\ audit'[j].accepted
      BY <1>1, <1>3, <1>4, <1>5, <2>2, <3>1
    <3>3. Recorded(c, TRUE)
      BY <3>1, <3>2 DEF DraftInv, DraftOnRecord
    <3> QED
      BY <1>5, <3>3 DEF Recorded
  <2> QED
    BY <1>6, <2>1, <2>2
<1>20. MetadataNotStale'
  <2> SUFFICES ASSUME NEW i \in DOMAIN audit', audit'[i].kind = "draft", draft'[audit'[i].call].responded
               PROVE  audit'[i].metadata \in Calls \ draft'[audit'[i].call].before
    BY DEF MetadataNotStale
  <2>1. CASE i \in DOMAIN audit
    BY <1>7, <1>9, <1>10, <2>1 DEF DraftInv, MetadataNotStale
  <2>2. CASE i = n + 1
    <3>1. audit'[i] = r /\ draft[c].pc = "record" /\ draft[c].responded
      BY <1>1, <1>3, <1>5, <2>2 DEF SaveStep
    <3>2. provider = "openai"
      BY <3>1 DEF DraftInv, CallsOK, CallOK
    <3>3. r.metadata = metadata
      BY <3>1, <3>2 DEF SaveStep
    <3>4. metadata \in Calls \ draft[c].before
      BY <3>1 DEF DraftInv, SlotIsFresh
    <3> QED
      BY <1>1, <1>10, <3>1, <3>3, <3>4
  <2> QED
    BY <1>6, <2>1, <2>2
<1> QED
  BY <1>12, <1>13, <1>14, <1>15, <1>16, <1>17, <1>18, <1>19, <1>20 DEF DraftInv

\* The updates of a request's state that the actions make.
IsGoes(v, u, at) == v = [u EXCEPT !.pc = at]
IsEnds(v, u, at, status) == v = [u EXCEPT !.pc = at, !.status = status]
IsDrafts(v, u, at, spec) == v = [u EXCEPT !.pc = at, !.spec = spec]
IsAnswered(v, u, at) == v = [u EXCEPT !.pc = at, !.responded = TRUE]
IsJudged(v, u, at, b) == v = [u EXCEPT !.pc = at, !.accepted = b]
IsRetries(v, u, k) == v = [u EXCEPT !.attempts = k]
IsAsks(v, u, op, B) == v = [u EXCEPT !.op = op, !.before = B]

\* The words the actions use.
LEMMA DraftWords ==
  /\ "fixture" \in DraftPcs /\ "openai" \in DraftPcs /\ "instructor" \in DraftPcs /\ "received" \in DraftPcs
  /\ "parse" \in DraftPcs /\ "attempt" \in DraftPcs /\ "judge" \in DraftPcs /\ "judge spec" \in DraftPcs
  /\ "record" \in DraftPcs /\ "check" \in DraftPcs /\ "apply" \in DraftPcs /\ "done" \in DraftPcs
  /\ "none" \in DraftSpecs /\ \A spec \in Specs : spec \in DraftSpecs
BY DEF DraftPcs, DraftSpecs

LEMMA DraftCodes == 200 \in Codes /\ 422 \in Codes /\ 500 \in Codes
BY DEF Codes

\* A step of a request under way that saves nothing and leaves the metadata.
MidStep(c, v) ==
  /\ v \in CallStates /\ CallOK(v) /\ draft' = [draft EXCEPT ![c] = v]
  /\ audit' = audit /\ provider' = provider /\ metadata' = metadata
  /\ draft[c].pc \notin {"idle", "done", "received"}
  /\ v.op = draft[c].op /\ v.before = draft[c].before /\ (v.responded = draft[c].responded \/ v.pc = "received")
  /\ draft[c].pc \in {"check", "apply"} => v.pc \in {"apply", "done"}
  /\ v.pc # "check" /\ v.status # 200
  /\ v.pc = "apply" /\ v.op = "apply" => draft[c].pc = "check" /\ draft[c].accepted
  /\ v.status = 422 /\ v.spec # "none" /\ v.op # "apply spec" => draft[c].pc = "check"
LEMMA MidIsQuiet ==
  ASSUME DraftInv, NEW c \in Calls, NEW v, MidStep(c, v)
  PROVE  QuietStep(c, v)
<1>1. draft[c] \in CallStates
  BY DEF DraftInv, DraftsTyped
<1>2. draft[c].responded \in BOOLEAN /\ v.responded \in BOOLEAN
  BY <1>1 DEF CallStates, MidStep
<1> QED
  BY <1>2 DEF MidStep, QuietStep

\* The state of a request after its first step, when the requests B are over.
FirstStep(v, B) ==
  /\ ~v.responded /\ v.before = B /\ v.pc \notin {"check", "apply"} /\ v.status # 200
  /\ ~(v.status = 422 /\ v.spec # "none" /\ v.op # "apply spec")

\* Every step of a request is one of these two.
LEMMA DraftNextInv == DraftInv /\ [DraftNext]_draftVars => DraftInv'
<1> SUFFICES ASSUME DraftInv, [DraftNext]_draftVars PROVE DraftInv'
  OBVIOUS
<1>1. CASE UNCHANGED draftVars
  <2>1. DraftsTyped' /\ CallsOK'
    BY <1>1 DEF draftVars, DraftInv, DraftsTyped, CallsOK, CallOK
  <2>2. DraftOnRecord' /\ RecordedIsPast' /\ BeforeIsOver' /\ SlotIsFresh'
    BY <1>1 DEF draftVars, DraftInv, DraftOnRecord, Recorded, RecordedIsPast, BeforeIsOver, SlotIsFresh
  <2>3. AnsweredIsRecorded'
    <3>1. \A d : HasDraft(d)' <=> HasDraft(d)
      BY <1>1 DEF draftVars, HasDraft, Records
    <3>2. \A d \in Calls : WasAnswered(draft[d]) => HasDraft(d)
      BY AnsweredAgain DEF DraftInv
    <3>3. \A d \in Calls : WasAnswered(draft'[d]) => HasDraft(d)'
      BY <1>1, <3>1, <3>2 DEF draftVars
    <3> QED
      BY <3>3, AnsweredNext
  <2>4. AppliedWasAccepted' /\ MetadataNotStale'
    BY <1>1 DEF draftVars, DraftInv, AppliedWasAccepted, MetadataNotStale
  <2> QED
    BY <2>1, <2>2, <2>3, <2>4 DEF DraftInv
<1>2. CASE DraftNext
  <2>1. PICK c \in Calls : \/ Ask(c) \/ DraftFixture(c) \/ Post(c) \/ KeepMetadata(c) \/ ParseContent(c)
                          \/ EnsureClient(c) \/ Attempt(c) \/ Judge(c) \/ RecordDraft(c) \/ CheckDraft(c)
                          \/ JudgeSpec(c) \/ RecordApplied(c)
    BY <1>2 DEF DraftNext
  <2>2. PICK u \in CallStates : u = draft[c] /\ CallOK(u)
    BY DEF DraftInv, DraftsTyped, CallsOK
  <2>3. provider \in {"fixture", "openai", "instructor"} /\ provider' = provider
    BY <2>1 DEF DraftInv, DraftsTyped, Ask, DraftFixture, Post, KeepMetadata, ParseContent, EnsureClient, Attempt, Judge,
                RecordDraft, CheckDraft, JudgeSpec, RecordApplied
  <2>4. SUFFICES ASSUME \A v : ~QuietStep(c, v), \A v, r : ~SaveStep(c, v, r)
                 PROVE  FALSE
    BY QuietKeeps, SaveKeeps
  <2>5. CASE Ask(c)
    <3>1. PICK op \in DraftOps, refused \in BOOLEAN, spec \in Specs :
            LET asked == [draft[c] EXCEPT !.op = op, !.before = {b \in Calls : draft[b].pc = "done"}] IN
            Update(c, CASE refused -> [asked EXCEPT !.pc = "done", !.status = IF op = "draft" THEN 500 ELSE 422]
                        [] ~refused /\ op = "apply spec" -> [asked EXCEPT !.pc = "judge spec", !.spec = spec]
                        [] OTHER -> [asked EXCEPT !.pc = provider])
      BY <2>5 DEF Ask, DraftOps
    <3>2. PICK B \in CallSets : B = {b \in Calls : draft[b].pc = "done"}
      BY DEF CallSets
    <3>3. PICK asked : IsAsks(asked, u, op, B)
      BY DEF IsAsks
    <3>4. asked \in CallStates
      BY <3>3 DEF IsAsks, CallStates
    <3>5. asked.op = op /\ asked.before = B /\ asked.spec = u.spec /\ asked.status = u.status /\ asked.responded = u.responded
      BY <3>3 DEF IsAsks, CallStates
    <3>6. /\ audit' = audit /\ metadata' = metadata /\ u.pc = "idle"
      BY <2>2, <2>5 DEF Ask
    <3>7. u.spec = "none" /\ u.status = 0 /\ ~u.responded
      BY <2>2, <3>6 DEF CallOK
    <3>8. ASSUME NEW v \in CallStates, draft' = [draft EXCEPT ![c] = v], CallOK(v), FirstStep(v, B)
          PROVE  FALSE
      <4>1. QuietStep(c, v)
        BY <2>2, <2>3, <3>2, <3>6, <3>8 DEF QuietStep, FirstStep
      <4> QED
        BY <2>4, <4>1
    <3>9. CASE refused
      <4>1. PICK code \in Codes : code = (IF op = "draft" THEN 500 ELSE 422) /\ code # 200
        <5>1. CASE op = "draft"
          BY <5>1, DraftCodes
        <5>2. CASE op # "draft"
          BY <5>2, DraftCodes
        <5> QED
          BY <5>1, <5>2
      <4>2. PICK v : IsEnds(v, asked, "done", code)
        BY DEF IsEnds
      <4>3. draft' = [draft EXCEPT ![c] = v]
        BY <2>2, <3>1, <3>2, <3>3, <3>9, <4>1, <4>2 DEF Update, IsEnds, IsAsks
      <4>4. v \in CallStates
        BY <3>4, <4>2, DraftWords DEF CallStates, IsEnds
      <4>5. v.pc = "done" /\ v.status = code /\ v.before = asked.before /\ v.responded = asked.responded /\ v.spec = asked.spec
        BY <3>4, <4>2 DEF CallStates, IsEnds
      <4>6. CallOK(v)
        BY <2>2, <3>5, <3>7, <4>5 DEF CallOK
      <4>7. FirstStep(v, B)
        BY <3>5, <3>7, <4>1, <4>5 DEF FirstStep
      <4> QED
        BY <3>8, <4>3, <4>4, <4>6, <4>7
    <3>10. CASE ~refused /\ op = "apply spec"
      <4>1. PICK v : IsDrafts(v, asked, "judge spec", spec)
        BY DEF IsDrafts
      <4>2. draft' = [draft EXCEPT ![c] = v]
        BY <2>2, <3>1, <3>2, <3>3, <3>10, <4>1 DEF Update, IsDrafts, IsAsks
      <4>3. v \in CallStates
        BY <3>1, <3>4, <4>1, DraftWords DEF CallStates, IsDrafts
      <4>4. /\ v.pc = "judge spec" /\ v.op = asked.op /\ v.before = asked.before /\ v.responded = asked.responded
            /\ v.status = asked.status /\ v.spec = spec
        BY <3>4, <4>1 DEF CallStates, IsDrafts
      <4>5. CallOK(v)
        <5>1. spec # "none"
          BY DEF Specs
        <5> QED
          BY <3>5, <3>7, <3>10, <4>4, <5>1 DEF CallOK
      <4>6. FirstStep(v, B)
        <5>0. v.status = 0
          BY <3>5, <3>7, <4>4, Zenon
        <5>1. v.status # 200 /\ v.status # 422
          BY <5>0
        <5> QED
          BY <3>5, <3>7, <4>4, <5>1 DEF FirstStep
      <4> QED
        BY <3>8, <4>2, <4>3, <4>5, <4>6
    <3>11. CASE ~refused /\ op # "apply spec"
      <4>1. PICK v : IsGoes(v, asked, provider)
        BY DEF IsGoes
      <4>2. draft' = [draft EXCEPT ![c] = v]
        BY <2>2, <3>1, <3>2, <3>3, <3>11, <4>1 DEF Update, IsGoes, IsAsks
      <4>3. v \in CallStates
        <5>1. provider \in DraftPcs
          BY <2>3, DraftWords
        <5> QED
          BY <3>4, <4>1, <5>1 DEF CallStates, IsGoes
      <4>4. /\ v.pc = provider /\ v.op = asked.op /\ v.before = asked.before /\ v.responded = asked.responded
            /\ v.status = asked.status /\ v.spec = asked.spec
        BY <3>4, <4>1 DEF CallStates, IsGoes
      <4>5. CallOK(v)
        BY <2>3, <3>5, <3>7, <3>11, <4>4 DEF CallOK
      <4>6. FirstStep(v, B)
        <5>0. v.status = 0
          BY <3>5, <3>7, <4>4, Zenon
        <5>1. v.status # 200 /\ v.status # 422
          BY <5>0
        <5>2. v.pc \notin {"check", "apply"}
          BY <2>3, <4>4
        <5> QED
          BY <3>5, <3>7, <4>4, <5>1, <5>2 DEF FirstStep
      <4> QED
        BY <3>8, <4>2, <4>3, <4>5, <4>6
    <3> QED
      BY <3>9, <3>10, <3>11
  <2>6. \A v : ~MidStep(c, v)
    BY <2>4, MidIsQuiet
  \* A draft, or none, goes to be judged.
  <2>7. ASSUME NEW spec \in DraftSpecs, Drafts(c, spec), audit' = audit, metadata' = metadata,
               u.pc \in {"fixture", "openai", "parse", "instructor", "attempt"}
        PROVE  FALSE
    <3>1. PICK v : IsDrafts(v, u, "judge", spec)
      BY DEF IsDrafts
    <3>2. draft' = [draft EXCEPT ![c] = v]
      BY <2>2, <2>7, <3>1 DEF Drafts, Update, IsDrafts
    <3>3. v \in CallStates
      BY <2>7, <3>1, DraftWords DEF CallStates, IsDrafts
    <3>4. v.pc = "judge" /\ v.op = u.op /\ v.before = u.before /\ v.responded = u.responded /\ v.status = u.status
      BY <3>1 DEF CallStates, IsDrafts
    <3>5. CallOK(v) /\ v.status = 0
      BY <2>2, <2>7, <3>4 DEF CallOK
    <3>6. MidStep(c, v)
      BY <2>2, <2>3, <2>7, <3>2, <3>3, <3>4, <3>5 DEF MidStep
    <3> QED
      BY <2>6, <3>6
  <2>8. ProviderFails(c) => Drafts(c, "none")
    BY DEF ProviderFails, Drafts
  \* A request under way ends with a failure.
  <2>9. ASSUME NEW status \in {422, 500}, Ends(c, status), audit' = audit, metadata' = metadata,
               u.pc \notin {"idle", "done", "received"}, status = 500 \/ u.pc = "check" \/ u.op = "apply spec"
        PROVE  FALSE
    <3>1. PICK v : IsEnds(v, u, "done", status)
      BY DEF IsEnds
    <3>2. draft' = [draft EXCEPT ![c] = v]
      BY <2>2, <2>9, <3>1 DEF Ends, Update, IsEnds
    <3>3. v \in CallStates
      <4>1. status \in Codes
        BY DraftCodes
      <4> QED
        BY <3>1, <4>1, DraftWords DEF CallStates, IsEnds
    <3>4. v.pc = "done" /\ v.op = u.op /\ v.before = u.before /\ v.responded = u.responded /\ v.status = status
      BY <3>1 DEF CallStates, IsEnds
    <3>5. CallOK(v)
      BY <2>2, <2>9, <3>4 DEF CallOK
    <3>6. v.status # 200 /\ (v.status = 422 /\ v.op # "apply spec" => u.pc = "check")
      <4>1. v.status = status /\ v.op = u.op
        BY <3>4
      <4>2. status # 200 /\ (status = 422 => ~(status = 500))
        OBVIOUS
      <4>3. v.status # 200
        BY <4>1, <4>2, Zenon
      <4>4. CASE status = 500
        <5>1. ~(v.status = 422)
          BY <4>1, <4>4
        <5> QED
          BY <4>3, <5>1
      <4>5. CASE u.pc = "check" \/ u.op = "apply spec"
        <5>1. v.op # "apply spec" => u.pc = "check"
          BY <4>1, <4>5
        <5> QED
          BY <4>3, <5>1
      <4> QED
        BY <2>9, <4>4, <4>5
    <3>7. MidStep(c, v)
      <4>1. audit' = audit /\ metadata' = metadata /\ u.pc \notin {"idle", "done", "received"}
        BY <2>9
      <4>2. v.pc # "apply" /\ v.pc # "check" /\ v.pc \in {"apply", "done"}
        BY <3>4
      <4> QED
        BY <2>2, <2>3, <3>2, <3>3, <3>4, <3>5, <3>6, <4>1, <4>2 DEF MidStep
    <3> QED
      BY <2>6, <3>7
  \* From one working state to the next, all other fields kept.
  <2>10. ASSUME NEW at \in {"attempt", "apply"}, Goes(c, at), audit' = audit, metadata' = metadata,
                at = "attempt" => u.pc = "instructor",
                at = "apply" => u.pc \in {"check", "judge spec"} /\ u.spec = "valid"
         PROVE  FALSE
    <3>1. PICK v : IsGoes(v, u, at)
      BY DEF IsGoes
    <3>2. draft' = [draft EXCEPT ![c] = v]
      BY <2>2, <2>10, <3>1 DEF Goes, Update, IsGoes
    <3>3. v \in CallStates
      <4>1. at \in DraftPcs
        BY DraftWords
      <4> QED
        BY <3>1, <4>1 DEF CallStates, IsGoes
    <3>4. /\ v.pc = at /\ v.op = u.op /\ v.before = u.before /\ v.responded = u.responded
          /\ v.status = u.status /\ v.spec = u.spec /\ v.accepted = u.accepted
      BY <3>1 DEF CallStates, IsGoes
    <3>5. u.pc \in {"instructor", "check", "judge spec"}
      BY <2>10
    <3>6. u.status = 0
      BY <2>2, <3>5 DEF CallOK
    <3>7. CallOK(v)
      <4>1. at = "attempt" => u.spec = "none" /\ u.op # "apply spec"
        BY <2>2, <2>10 DEF CallOK
      <4>2. at = "apply" => u.op # "draft"
        BY <2>2, <2>10 DEF CallOK
      <4>3. u.responded => provider = "openai"
        BY <2>2 DEF CallOK
      <4> QED
        BY <2>10, <3>4, <3>6, <4>1, <4>2, <4>3 DEF CallOK
    <3>8. v.pc = "apply" /\ v.op = "apply" => u.pc = "check" /\ u.accepted
      BY <2>2, <2>10, <3>4 DEF CallOK
    <3>9. u.pc = "check" => v.pc = "apply"
      BY <2>10, <3>4
    <3>10. v.status # 200 /\ v.status # 422
      BY <3>4, <3>6
    <3>11. v.pc # "check" /\ u.pc \notin {"idle", "done", "received", "apply"}
      BY <3>4, <3>5
    <3>12. MidStep(c, v)
      BY <2>2, <2>3, <2>10, <3>2, <3>3, <3>4, <3>7, <3>8, <3>9, <3>10, <3>11 DEF MidStep
    <3> QED
      BY <2>6, <3>12
  <2>11. CASE DraftFixture(c)
    <3>1. Drafts(c, "valid") /\ audit' = audit /\ metadata' = metadata /\ u.pc = "fixture"
      BY <2>2, <2>11 DEF DraftFixture
    <3>2. "valid" \in DraftSpecs
      BY DEF DraftSpecs, Specs
    <3> QED
      BY <2>7, <3>1, <3>2
  <2>12. CASE ParseContent(c)
    <3>1. audit' = audit /\ metadata' = metadata /\ u.pc = "parse"
      BY <2>2, <2>12 DEF ParseContent
    <3>2. \E spec \in DraftSpecs : Drafts(c, spec)
      BY <2>8, <2>12, DraftWords DEF ParseContent
    <3> QED
      BY <2>7, <3>1, <3>2
  <2>13. CASE Post(c)
    <3>1. u.pc = "openai" /\ audit' = audit /\ metadata' = metadata
      BY <2>2, <2>13 DEF Post
    <3>2. CASE ProviderFails(c)
      BY <2>7, <2>8, <3>1, <3>2, DraftWords
    <3>3. CASE ~ProviderFails(c)
      <4>1. PICK v : IsAnswered(v, u, "received")
        BY DEF IsAnswered
      <4>2. draft' = [draft EXCEPT ![c] = v]
        BY <2>2, <2>13, <3>3, <4>1 DEF Post, Update, IsAnswered
      <4>3. v \in CallStates
        BY <4>1, DraftWords DEF CallStates, IsAnswered
      <4>4. v.pc = "received" /\ v.op = u.op /\ v.before = u.before /\ v.status = u.status /\ v.spec = u.spec
        BY <4>1 DEF CallStates, IsAnswered
      <4>5. CallOK(v) /\ v.status = 0
        BY <2>2, <3>1, <4>4 DEF CallOK
      <4>6. MidStep(c, v)
        BY <2>2, <2>3, <3>1, <4>2, <4>3, <4>4, <4>5 DEF MidStep
      <4> QED
        BY <2>6, <4>6
    <3> QED
      BY <3>2, <3>3
  <2>14. CASE KeepMetadata(c)
    <3>1. PICK v : IsGoes(v, u, "parse")
      BY DEF IsGoes
    <3>2. u.pc = "received" /\ audit' = audit /\ metadata' = c
      BY <2>2, <2>14 DEF KeepMetadata
    <3>3. draft' = [draft EXCEPT ![c] = v]
      BY <2>2, <2>14, <3>1 DEF KeepMetadata, Goes, Update, IsGoes
    <3>4. v \in CallStates
      BY <3>1, DraftWords DEF CallStates, IsGoes
    <3>5. v.pc = "parse" /\ v.op = u.op /\ v.before = u.before /\ v.status = u.status /\ v.spec = u.spec
      BY <3>1 DEF CallStates, IsGoes
    <3>6. CallOK(v) /\ v.status = 0
      BY <2>2, <3>2, <3>5 DEF CallOK
    <3>7. QuietStep(c, v)
      BY <2>2, <2>3, <3>2, <3>3, <3>4, <3>5, <3>6 DEF QuietStep
    <3> QED
      BY <2>4, <3>7
  <2>15. CASE EnsureClient(c)
    <3>1. audit' = audit /\ metadata' = metadata /\ u.pc = "instructor"
      BY <2>2, <2>15 DEF EnsureClient
    <3>2. CASE ProviderFails(c)
      BY <2>7, <2>8, <3>1, <3>2, DraftWords
    <3>3. CASE Goes(c, "attempt")
      BY <2>10, <3>1, <3>3
    <3> QED
      BY <2>15, <3>2, <3>3 DEF EnsureClient
  <2>16. CASE Attempt(c)
    <3>1. u.pc = "attempt" /\ audit' = audit /\ metadata' = metadata
      BY <2>2, <2>16 DEF Attempt
    <3>2. CASE \E spec \in DraftSpecs : Drafts(c, spec)
      BY <2>7, <3>1, <3>2
    <3>3. CASE Update(c, [draft[c] EXCEPT !.attempts = @ + 1])
      <4>1. PICK k \in Nat : k = u.attempts + 1
        <5>1. u.attempts \in Nat
          BY DEF CallStates
        <5> QED
          BY <5>1
      <4>2. PICK v : IsRetries(v, u, k)
        BY DEF IsRetries
      <4>3. draft' = [draft EXCEPT ![c] = v]
        BY <2>2, <3>3, <4>1, <4>2 DEF Update, IsRetries
      <4>4. v \in CallStates
        BY <4>1, <4>2 DEF CallStates, IsRetries
      <4>5. /\ v.pc = u.pc /\ v.op = u.op /\ v.before = u.before /\ v.responded = u.responded
            /\ v.status = u.status /\ v.spec = u.spec
        BY <4>2 DEF CallStates, IsRetries
      <4>6. CallOK(v) /\ v.status = 0
        BY <2>2, <3>1, <4>5 DEF CallOK
      <4>7. MidStep(c, v)
        BY <2>2, <2>3, <3>1, <4>3, <4>4, <4>5, <4>6 DEF MidStep
      <4> QED
        BY <2>6, <4>7
    <3> QED
      BY <2>8, <2>16, <3>2, <3>3, DraftWords DEF Attempt
  <2>17. CASE Judge(c)
    <3>1. u.pc = "judge" /\ audit' = audit /\ metadata' = metadata
      BY <2>2, <2>17 DEF Judge
    <3>2. CASE draft[c].spec = "raising"
      <4>1. Ends(c, 500)
        BY <2>17, <3>2 DEF Judge
      <4> QED
        BY <2>9, <3>1, <4>1
    <3>3. CASE draft[c].spec # "raising"
      <4>1. PICK b \in BOOLEAN : b = (draft[c].spec = "valid")
        OBVIOUS
      <4>2. PICK v : IsJudged(v, u, "record", b)
        BY DEF IsJudged
      <4>3. draft' = [draft EXCEPT ![c] = v]
        BY <2>2, <2>17, <3>3, <4>1, <4>2 DEF Judge, Update, IsJudged
      <4>4. v \in CallStates
        BY <4>2, DraftWords DEF CallStates, IsJudged
      <4>5. /\ v.pc = "record" /\ v.op = u.op /\ v.before = u.before /\ v.accepted = b
            /\ v.responded = u.responded /\ v.status = u.status /\ v.spec = u.spec
        BY <4>2 DEF CallStates, IsJudged
      <4>6. CallOK(v) /\ v.status = 0
        BY <2>2, <3>1, <4>1, <4>5 DEF CallOK
      <4>7. MidStep(c, v)
        BY <2>2, <2>3, <3>1, <4>3, <4>4, <4>5, <4>6 DEF MidStep
      <4> QED
        BY <2>6, <4>7
    <3> QED
      BY <3>2, <3>3
  <2>18. CASE CheckDraft(c)
    <3>1. u.pc = "check" /\ audit' = audit /\ metadata' = metadata
      BY <2>2, <2>18 DEF CheckDraft
    <3>2. CASE draft[c].accepted
      <4>1. u.spec = "valid"
        BY <2>2, <3>1, <3>2 DEF CallOK
      <4>2. Goes(c, "apply")
        BY <2>18, <3>2 DEF CheckDraft
      <4> QED
        BY <2>10, <3>1, <4>1, <4>2
    <3>3. CASE ~draft[c].accepted
      <4>1. Ends(c, 422)
        BY <2>18, <3>3 DEF CheckDraft
      <4> QED
        BY <2>9, <3>1, <4>1
    <3> QED
      BY <3>2, <3>3
  <2>19. CASE JudgeSpec(c)
    <3>1. u.pc = "judge spec" /\ audit' = audit /\ metadata' = metadata
      BY <2>2, <2>19 DEF JudgeSpec
    <3>2. u.op = "apply spec"
      BY <2>2, <3>1 DEF CallOK
    <3>3. CASE u.spec \in {"raising", "invalid"}
      <4>1. \E status \in {422, 500} : Ends(c, status)
        BY <2>2, <2>19, <3>3 DEF JudgeSpec
      <4> QED
        BY <2>9, <3>1, <3>2, <4>1
    <3>4. CASE u.spec \notin {"raising", "invalid"}
      <4>1. Goes(c, "apply")
        BY <2>2, <2>19, <3>4 DEF JudgeSpec
      <4>2. u.spec # "none"
        BY <2>2, <3>1 DEF CallOK
      <4>3. u.spec = "valid"
        BY <3>4, <4>2 DEF CallStates, DraftSpecs, Specs
      <4> QED
        BY <2>10, <3>1, <4>1, <4>3
    <3> QED
      BY <3>3, <3>4
  <2>20. CASE RecordDraft(c)
    <3>1. u.pc = "record" /\ metadata' = metadata
      BY <2>2, <2>20 DEF RecordDraft
    <3>2. CASE SaveRaises(c)
      BY <2>9, <3>1, <3>2 DEF SaveRaises
    <3>3. CASE ~SaveRaises(c)
      <4>1. PICK m : m = IF provider = "openai" THEN metadata ELSE "config"
        OBVIOUS
      <4>2. m \in Calls \cup {"config", "none"} /\ (provider = "openai" => m = metadata)
        BY <4>1 DEF DraftInv, DraftsTyped
      <4>3. PICK r : r = [call |-> c, kind |-> "draft", accepted |-> u.accepted, spec |-> u.spec, metadata |-> m]
        OBVIOUS
      <4>4. audit' = Append(audit, r)
        BY <2>2, <2>20, <3>3, <4>1, <4>3 DEF RecordDraft, Saves, DraftRecord
      <4>5. r \in AuditRecords /\ r.call = c /\ r.kind = "draft" /\ r.accepted = u.accepted /\ r.metadata = m
        <5>1. u.accepted \in BOOLEAN /\ u.spec \in DraftSpecs
          BY DEF CallStates
        <5> QED
          BY <4>2, <4>3, <5>1 DEF AuditRecords
      <4>6. CASE draft[c].op = "draft"
        <5>1. PICK v : IsEnds(v, u, "done", 200)
          BY DEF IsEnds
        <5>2. draft' = [draft EXCEPT ![c] = v]
          BY <2>2, <2>20, <3>3, <4>6, <5>1 DEF RecordDraft, Ends, Update, IsEnds
        <5>3. v \in CallStates
          BY <5>1, DraftWords, DraftCodes DEF CallStates, IsEnds
        <5>4. /\ v.pc = "done" /\ v.op = u.op /\ v.before = u.before /\ v.responded = u.responded /\ v.accepted = u.accepted
          BY <5>1 DEF CallStates, IsEnds
        <5>5. CallOK(v)
          BY <2>2, <3>1, <5>4 DEF CallOK
        <5>6. SaveStep(c, v, r)
          BY <2>2, <2>3, <3>1, <4>2, <4>4, <4>5, <5>2, <5>3, <5>4, <5>5 DEF SaveStep
        <5> QED
          BY <2>4, <5>6
      <4>7. CASE draft[c].op # "draft"
        <5>1. PICK v : IsGoes(v, u, "check")
          BY DEF IsGoes
        <5>2. draft' = [draft EXCEPT ![c] = v]
          BY <2>2, <2>20, <3>3, <4>7, <5>1 DEF RecordDraft, Goes, Update, IsGoes
        <5>3. v \in CallStates
          BY <5>1, DraftWords DEF CallStates, IsGoes
        <5>4. /\ v.pc = "check" /\ v.op = u.op /\ v.before = u.before /\ v.responded = u.responded /\ v.accepted = u.accepted
              /\ v.spec = u.spec /\ v.status = u.status
          BY <5>1 DEF CallStates, IsGoes
        <5>5. u.op = "apply"
          <6>1. u.op \in {"draft", "apply", "apply spec"}
            BY DEF CallStates, DraftOps
          <6> QED
            BY <2>2, <3>1, <4>7, <6>1 DEF CallOK
        <5>6. CallOK(v)
          BY <2>2, <3>1, <5>4, <5>5 DEF CallOK
        <5>7. SaveStep(c, v, r)
          BY <2>2, <2>3, <3>1, <4>2, <4>4, <4>5, <5>2, <5>3, <5>4, <5>6 DEF SaveStep
        <5> QED
          BY <2>4, <5>7
      <4> QED
        BY <4>6, <4>7
    <3> QED
      BY <3>2, <3>3
  <2>21. CASE RecordApplied(c)
    <3>1. u.pc = "apply" /\ metadata' = metadata
      BY <2>2, <2>21 DEF RecordApplied
    <3>2. CASE SaveRaises(c)
      BY <2>9, <3>1, <3>2 DEF SaveRaises
    <3>3. CASE ~SaveRaises(c)
      <4>1. u.spec = "valid"
        BY <2>2, <3>1 DEF CallOK
      <4>2. PICK r : r = [call |-> c, kind |-> "applied", accepted |-> TRUE, spec |-> "valid", metadata |-> "none"]
        OBVIOUS
      <4>3. audit' = Append(audit, r)
        BY <2>2, <2>21, <3>3, <4>1, <4>2 DEF RecordApplied, Saves, AppliedRecord
      <4>4. r \in AuditRecords /\ r.call = c /\ r.kind = "applied" /\ r.spec = "valid"
        BY <4>2 DEF AuditRecords, DraftSpecs, Specs
      <4>5. PICK v : IsEnds(v, u, "done", 200)
        BY DEF IsEnds
      <4>6. draft' = [draft EXCEPT ![c] = v]
        BY <2>2, <2>21, <3>3, <4>5 DEF RecordApplied, Ends, Update, IsEnds
      <4>7. v \in CallStates
        BY <4>5, DraftWords, DraftCodes DEF CallStates, IsEnds
      <4>8. v.pc = "done" /\ v.op = u.op /\ v.before = u.before /\ v.responded = u.responded
        BY <4>5 DEF CallStates, IsEnds
      <4>9. CallOK(v)
        BY <2>2, <3>1, <4>8 DEF CallOK
      <4>10. SaveStep(c, v, r)
        BY <2>2, <2>3, <3>1, <4>3, <4>4, <4>6, <4>7, <4>8, <4>9 DEF SaveStep
      <4> QED
        BY <2>4, <4>10
    <3> QED
      BY <3>2, <3>3
  <2> QED
    BY <2>1, <2>5, <2>11, <2>12, <2>13, <2>14, <2>15, <2>16, <2>17, <2>18, <2>19, <2>20, <2>21
<1> QED
  BY <1>1, <1>2

\* Whatever requests run at once, what the operator was given, applied and told
\* about a model's answer is on record: an answer left the record of its draft,
\* what was applied was valid and accepted first, and no record describes a
\* response that was over before its request began (AiBuilderService).
THEOREM DraftsAlwaysRecorded == DraftSpec => []DraftsAreRecorded
<1>1. DraftInv => DraftsAreRecorded
  BY DEF DraftInv, DraftsAreRecorded
<1> QED
  BY DraftInitInv, DraftNextInv, <1>1, PTL DEF DraftSpec

(***************************************************************************)
(* TradeHUD.  For any number of stream entries, any read size and any      *)
(* capacity of the trade buffer, one event stream shows what Redis holds.  *)
(* The lemmas on ascending lists come first: Redis ids are numbers, a read *)
(* returns an interval of them, and the buffer is a suffix of what was     *)
(* read.  What a finite set of numbers is in ascending order needs an      *)
(* induction, which NatMin gives as the search for a least counterexample. *)
(***************************************************************************)

\* Every nonempty set of naturals has a least element: induction, as the
\* search for a least counterexample.
LEMMA NatMin ==
  ASSUME NEW T, T \subseteq Nat, T # {}
  PROVE  \E x \in T : \A y \in T : x <= y
<1>1. PICK R : R = {ss \in Nat \X Nat : ss[1] < ss[2]}
  OBVIOUS
<1>2. IsWellFoundedOn(R, Nat)
  BY <1>1, NatLessThanWellFounded DEF OpToRel
<1>3. PICK x \in T : \A y \in T : ~ (<<y, x>> \in R)
  BY <1>2, WFMin
<1>4. ASSUME NEW y \in T PROVE x <= y
  <2>1. x \in Nat /\ y \in Nat
    OBVIOUS
  <2>2. y < x => <<y, x>> \in R
    BY <1>1, <2>1
  <2>3. ~(<<y, x>> \in R)
    BY <1>3
  <2> QED
    BY <2>1, <2>2, <2>3
<1> QED
  BY <1>4

\* The streams and their keys.
LEMMA StreamFacts ==
  /\ StreamNames = {"trades", "account", "positions"} /\ StreamKeys = {"trade_tick", "state_bundle"}
  /\ KeyOf("trades") = "trade_tick" /\ KeyOf("account") = "state_bundle" /\ KeyOf("positions") = "state_bundle"
  /\ ReverseName("trade_tick") = "trades" /\ ReverseName("state_bundle") = "positions"
  /\ Len(StreamMap) = 3
<1>1. DOMAIN StreamMap = 1..3 /\ Len(StreamMap) = 3
  BY DEF StreamMap
<1>2. StreamNames = {"trades", "account", "positions"} /\ StreamKeys = {"trade_tick", "state_bundle"}
  BY <1>1 DEF StreamNames, StreamKeys, StreamMap
<1>3. ToSet(StreamMap) = {StreamMap[1], StreamMap[2], StreamMap[3]}
  BY <1>1 DEF ToSet
<1>4. /\ StreamMap[1] = [name |-> "trades", key |-> "trade_tick"]
      /\ StreamMap[2] = [name |-> "account", key |-> "state_bundle"]
      /\ StreamMap[3] = [name |-> "positions", key |-> "state_bundle"]
  BY DEF StreamMap
<1>5. KeyOf("trades") = "trade_tick" /\ KeyOf("account") = "state_bundle" /\ KeyOf("positions") = "state_bundle"
  BY <1>3, <1>4 DEF KeyOf
<1>6. ReverseName("trade_tick") = "trades"
  <2>1. {i \in DOMAIN StreamMap : StreamMap[i].key = "trade_tick"} = {1}
    BY <1>1, <1>4
  <2> QED
    BY <2>1, <1>4 DEF ReverseName
<1>7. ReverseName("state_bundle") = "positions"
  <2>1. {i \in DOMAIN StreamMap : StreamMap[i].key = "state_bundle"} = {2, 3}
    BY <1>1, <1>4
  <2>2. (CHOOSE i \in {2, 3} : \A j \in {2, 3} : j <= i) = 3
    OBVIOUS
  <2> QED
    BY <2>1, <2>2, <1>4 DEF ReverseName
<1> QED
  BY <1>1, <1>2, <1>5, <1>6, <1>7

Enumerable(U) == \E s \in [1..Cardinality(U) -> U] : Ascends(s)

\* One more element at the end.
LEMMA EnumerableNext ==
  ASSUME NEW S, NEW m \in Nat \ {0}, S \subseteq Nat \ {0}, Enumerable(S \cap 1..(m - 1))
  PROVE  Enumerable(S \cap 1..m)
<1>1. PICK U : U = S \cap 1..(m - 1)
  OBVIOUS
<1>2. IsFiniteSet(U)
  <2>1. IsFiniteSet(1..(m - 1)) /\ U \in SUBSET (1..(m - 1))
    BY <1>1, FS_Interval
  <2> QED
    BY <2>1, FS_Subset
<1>3. PICK c \in Nat : c = Cardinality(U)
  BY <1>2, FS_CardinalityType
<1>4. PICK s \in [1..c -> U] : Ascends(s)
  BY <1>1, <1>3 DEF Enumerable
<1>5. CASE m \notin S
  <2>1. S \cap 1..m = U
    BY <1>1, <1>5
  <2> QED
    BY <1>3, <1>4, <2>1 DEF Enumerable
<1>6. CASE m \in S
  <2>1. S \cap 1..m = U \cup {m}
    BY <1>1, <1>6
  <2>2. m \notin U
    BY <1>1
  <2>3. Cardinality(U \cup {m}) = c + 1
    BY <1>2, <1>3, <2>2, FS_AddElement
  <2>4. PICK t : t = [i \in 1..(c + 1) |-> IF i <= c THEN s[i] ELSE m]
    OBVIOUS
  <2>5. t \in [1..(c + 1) -> U \cup {m}]
    BY <1>4, <2>4
  <2>6. Ascends(t)
    <3>1. ASSUME NEW i \in 1..(c + 1), NEW j \in 1..(c + 1), i < j PROVE t[i] < t[j]
      <4>1. i <= c /\ t[i] = s[i] /\ s[i] \in U
        BY <1>4, <2>4, <3>1
      <4>2. CASE j <= c
        <5>1. t[j] = s[j] /\ j \in 1..c /\ i \in 1..c
          BY <2>4, <4>1, <4>2
        <5>2. s[i] < s[j]
          BY <1>4, <3>1, <5>1 DEF Ascends
        <5> QED
          BY <4>1, <5>1, <5>2
      <4>3. CASE j = c + 1
        <5>1. t[j] = m
          BY <2>4, <4>3
        <5>2. s[i] < m
          BY <1>1, <4>1
        <5> QED
          BY <4>1, <5>1, <5>2
      <4> QED
        BY <4>2, <4>3
    <3>2. DOMAIN t = 1..(c + 1)
      BY <2>4
    <3> QED
      BY <3>1, <3>2 DEF Ascends
  <2> QED
    BY <2>1, <2>3, <2>5, <2>6 DEF Enumerable
<1> QED
  BY <1>5, <1>6

\* Ascending lists the elements of a finite set of numbers, each once.
LEMMA AscendingIs ==
  ASSUME NEW S, NEW b \in Nat, S \subseteq 1..b
  PROVE  /\ Cardinality(S) \in Nat /\ Ascending(S) \in [1..Cardinality(S) -> S]
         /\ Ascends(Ascending(S)) /\ ToSet(Ascending(S)) = S
<1>1. Enumerable(S)
  <2> DEFINE T == {n \in Nat : ~Enumerable(S \cap 1..n)}
  <2>1. ASSUME T # {} PROVE FALSE
    <3>1. PICK m \in T : \A y \in T : m <= y
      BY <2>1, NatMin, Zenon
    <3>2. m \in Nat /\ ~Enumerable(S \cap 1..m)
      OBVIOUS
    <3>3. CASE m = 0
      <4>1. S \cap 1..m = {}
        BY <3>3
      <4>2. PICK s : s = [i \in 1..0 |-> i]
        OBVIOUS
      <4>3. s \in [1..Cardinality({}) -> {}] /\ Ascends(s)
        BY <4>2, FS_EmptySet DEF Ascends
      <4> QED
        BY <3>2, <4>1, <4>3 DEF Enumerable
    <3>4. CASE m # 0
      <4>1. m - 1 \in Nat /\ ~(m <= m - 1)
        BY <3>2, <3>4
      <4>2. m - 1 \notin T
        BY <3>1, <4>1
      <4>3. Enumerable(S \cap 1..(m - 1))
        BY <4>1, <4>2
      <4>4. S \subseteq Nat \ {0}
        OBVIOUS
      <4> QED
        BY <3>2, <3>4, <4>3, <4>4, EnumerableNext
    <3> QED
      BY <3>3, <3>4
  <2>2. Enumerable(S \cap 1..b)
    BY <2>1
  <2>3. S \cap 1..b = S
    OBVIOUS
  <2> QED
    BY <2>2, <2>3
<1>2. IsFiniteSet(S)
  <2>1. IsFiniteSet(1..b) /\ S \in SUBSET (1..b)
    BY FS_Interval
  <2> QED
    BY <2>1, FS_Subset
<1>3. PICK c \in Nat : c = Cardinality(S)
  BY <1>2, FS_CardinalityType
<1>4. PICK s : s = Ascending(S)
  OBVIOUS
<1>5. s \in [1..c -> S] /\ Ascends(s)
  BY <1>1, <1>3, <1>4 DEF Ascending, Enumerable
<1>6. s \in Injection(1..c, S)
  <2>1. ASSUME NEW i \in 1..c, NEW j \in 1..c, s[i] = s[j], i # j PROVE FALSE
    <3>1. s[i] \in Nat /\ s[j] \in Nat /\ DOMAIN s = 1..c
      <4>1. s[i] \in S /\ s[j] \in S /\ DOMAIN s = 1..c
        BY <1>5
      <4>2. \A x \in S : x \in Nat
        OBVIOUS
      <4> QED
        BY <4>1, <4>2
    <3>2. i < j \/ j < i
      BY <2>1
    <3>3. i < j => s[i] < s[j]
      BY <1>5, <3>1 DEF Ascends
    <3>4. j < i => s[j] < s[i]
      BY <1>5, <3>1 DEF Ascends
    <3> QED
      BY <2>1, <3>1, <3>2, <3>3, <3>4
  <2> QED
    BY <1>5, <2>1 DEF Injection, IsInjective
<1>7. Cardinality(1..c) = c
  BY <1>3, FS_Interval
<1>8. s \in Surjection(1..c, S)
  BY <1>2, <1>3, <1>6, <1>7, FS_Injection
<1>9. ToSet(s) = S
  BY <1>5, <1>8 DEF Surjection, ToSet
<1> QED
  BY <1>3, <1>4, <1>5, <1>9

\* s lists the members of X from its first up to h, lowest first.
Covers(s, X, h) == Ascends(s) /\ ToSet(s) = {i \in s[1]..h : i \in X}

\* Two ascending sequences, one above the other.
LEMMA JoinAscends ==
  ASSUME NEW s \in Seq(Nat), NEW t \in Seq(Nat), Ascends(s), Ascends(t),
         \A x \in ToSet(s), y \in ToSet(t) : x < y
  PROVE  Ascends(s \o t) /\ ToSet(s \o t) = ToSet(s) \cup ToSet(t)
<1>1. PICK m \in Nat, n \in Nat : m = Len(s) /\ n = Len(t) /\ DOMAIN s = 1..m /\ DOMAIN t = 1..n
  BY LenProperties
<1>2. PICK u \in Seq(Nat) : u = s \o t
  BY ConcatProperties
<1>3. DOMAIN u = 1..(m + n)
  BY <1>1, <1>2, ConcatProperties, LenProperties
<1>4. \A i \in 1..m : u[i] = s[i]
  BY <1>1, <1>2, ConcatProperties
<1>5. \A j \in 1..n : u[m + j] = t[j]
  BY <1>1, <1>2, ConcatProperties
<1>6. ASSUME NEW i \in 1..(m + n), NEW j \in 1..(m + n), i < j PROVE u[i] < u[j]
  <2>1. CASE j <= m
    <3>1. i \in 1..m /\ j \in 1..m
      BY <1>6, <2>1
    <3> QED
      BY <1>1, <1>4, <1>6, <3>1 DEF Ascends
  <2>2. CASE m < i
    <3>1. PICK x \in 1..n, y \in 1..n : i = m + x /\ j = m + y /\ x < y
      <4>1. i - m \in 1..n /\ j - m \in 1..n /\ i = m + (i - m) /\ j = m + (j - m) /\ i - m < j - m
        BY <1>6, <2>2
      <4> QED
        BY <4>1
    <3>2. t[x] < t[y]
      BY <1>1, <3>1 DEF Ascends
    <3> QED
      BY <1>5, <3>1, <3>2
  <2>3. CASE i <= m /\ m < j
    <3>1. i \in 1..m /\ j - m \in 1..n /\ j = m + (j - m)
      BY <1>6, <2>3
    <3>2. PICK q \in 1..n : j = m + q
      BY <3>1
    <3>3. u[i] = s[i] /\ u[j] = t[q]
      BY <1>4, <1>5, <3>1, <3>2
    <3>4. s[i] \in ToSet(s)
      BY <1>1, <3>1 DEF ToSet
    <3>5. t[q] \in ToSet(t)
      BY <1>1, <3>2 DEF ToSet
    <3>6. s[i] < t[q]
      BY <3>4, <3>5
    <3> QED
      BY <3>3, <3>6
  <2> QED
    BY <2>1, <2>2, <2>3
<1>7. ToSet(u) = ToSet(s) \cup ToSet(t)
  <2>1. ASSUME NEW i \in 1..(m + n) PROVE u[i] \in ToSet(s) \cup ToSet(t)
    <3>1. CASE i <= m
      <4>1. i \in 1..m
        BY <3>1
      <4>2. s[i] \in ToSet(s)
        BY <1>1, <4>1 DEF ToSet
      <4> QED
        BY <1>4, <4>1, <4>2
    <3>2. CASE m < i
      <4>1. i - m \in 1..n /\ i = m + (i - m)
        BY <3>2
      <4>2. PICK y \in 1..n : i = m + y
        BY <4>1
      <4>3. t[y] \in ToSet(t)
        BY <1>1, <4>2 DEF ToSet
      <4> QED
        BY <1>5, <4>2, <4>3
    <3> QED
      BY <3>1, <3>2
  <2>2. ASSUME NEW i \in 1..m PROVE s[i] \in ToSet(u)
    <3>1. i \in 1..(m + n)
      OBVIOUS
    <3> QED
      BY <1>3, <1>4, <3>1 DEF ToSet
  <2>3. ASSUME NEW j \in 1..n PROVE t[j] \in ToSet(u)
    <3>1. m + j \in 1..(m + n)
      OBVIOUS
    <3> QED
      BY <1>3, <1>5, <3>1 DEF ToSet
  <2> QED
    BY <1>1, <1>3, <2>1, <2>2, <2>3 DEF ToSet
<1> QED
  BY <1>2, <1>3, <1>6, <1>7 DEF Ascends

\* Dropping the lowest leaves no gap.
LEMMA SuffixCovers ==
  ASSUME NEW s \in Seq(Nat), NEW X, NEW h \in Int, Covers(s, X, h), NEW p \in 1..Len(s)
  PROVE  Covers(SubSeq(s, p, Len(s)), X, h)
<1>1. PICK n \in Nat : n = Len(s) /\ DOMAIN s = 1..n /\ p \in 1..n
  BY LenProperties
<1>4. \A i \in 1..n : s[i] \in Nat
  BY <1>1, ElementOfSeq
<1>a. p \in Int /\ n \in Int /\ p <= n /\ \A i \in p..n : s[i] \in Nat
  BY <1>1, <1>4
<1>b. /\ SubSeq(s, p, n) \in Seq(Nat) /\ Len(SubSeq(s, p, n)) = n - p + 1
      /\ \A i \in 1..(n - p + 1) : SubSeq(s, p, n)[i] = s[p + i - 1]
  BY <1>a, SubSeqProperties
<1>2. PICK u \in Seq(Nat) : u = SubSeq(s, p, n)
  BY <1>b
<1>3. DOMAIN u = 1..(n - p + 1) /\ \A i \in 1..(n - p + 1) : u[i] = s[p + i - 1]
  BY <1>2, <1>b, LenProperties
<1>5. u[1] = s[p]
  BY <1>1, <1>3
<1>6. ASSUME NEW i \in 1..(n - p + 1), NEW j \in 1..(n - p + 1), i < j PROVE u[i] < u[j]
  <2>1. p + i - 1 \in 1..n /\ p + j - 1 \in 1..n /\ p + i - 1 < p + j - 1
    BY <1>1, <1>6
  <2>2. s[p + i - 1] < s[p + j - 1]
    BY <1>1, <2>1 DEF Covers, Ascends
  <2> QED
    BY <1>3, <2>2
<1>7. ASSUME NEW i \in 1..(n - p + 1) PROVE u[i] \in {x \in s[p]..h : x \in X}
  <2>1. PICK q \in 1..n : q = p + i - 1
    BY <1>1
  <2>2. u[i] = s[q]
    BY <1>3, <2>1
  <2>3. s[q] \in {x \in s[1]..h : x \in X}
    BY <1>1 DEF Covers, ToSet
  <2>4. CASE q = p
    BY <1>4, <2>2, <2>3, <2>4
  <2>5. CASE q # p
    <3>1. p < q
      BY <1>1, <2>1, <2>5
    <3>2. s[p] < s[q]
      BY <1>1, <3>1 DEF Covers, Ascends
    <3> QED
      BY <1>1, <1>4, <2>2, <2>3, <3>2
  <2> QED
    BY <2>4, <2>5
<1>8. ASSUME NEW x \in s[p]..h, x \in X PROVE \E i \in 1..(n - p + 1) : u[i] = x
  <2>1. s[1] <= s[p]
    <3>1. CASE p = 1
      BY <1>4, <3>1, <1>1
    <3>2. CASE p # 1
      <4>1. 1 \in 1..n /\ 1 < p
        BY <1>1, <3>2
      <4>2. s[1] < s[p]
        BY <1>1, <4>1 DEF Covers, Ascends
      <4> QED
        BY <1>1, <1>4, <4>1, <4>2
    <3> QED
      BY <3>1, <3>2
  <2>2. s[1] \in Nat /\ s[p] \in Nat
    <3>1. 1 \in 1..n
      BY <1>1
    <3> QED
      BY <1>1, <1>4, <3>1
  <2>3. x \in s[1]..h
    BY <2>1, <2>2
  <2>4. PICK q \in 1..n : s[q] = x
    BY <1>1, <1>8, <2>3 DEF Covers, ToSet
  <2>5. ~(q < p)
    <3>1. q < p => s[q] < s[p]
      BY <1>1 DEF Covers, Ascends
    <3> QED
      BY <2>2, <2>4, <3>1, <1>4
  <2>6. q - p + 1 \in 1..(n - p + 1) /\ p + (q - p + 1) - 1 = q
    BY <1>1, <2>5
  <2> QED
    BY <1>3, <2>4, <2>6
<1>9. ToSet(u) = {x \in u[1]..h : x \in X}
  <2>1. ToSet(u) = {u[i] : i \in 1..(n - p + 1)}
    BY <1>3 DEF ToSet
  <2>2. ASSUME NEW x PROVE x \in ToSet(u) <=> x \in {y \in s[p]..h : y \in X}
    BY <1>7, <1>8, <2>1
  <2> QED
    BY <1>5, <2>2
<1> QED
  BY <1>1, <1>2, <1>3, <1>6, <1>9 DEF Covers, Ascends

Entries == [kind : {"good", "untimed", "dropped", "rejected"}, ts : Int]
LogOK == log \in [StreamKeys -> Seq(Entries)] /\ \A k \in StreamKeys : Len(log[k]) <= MaxId
\* The trades of an adapter are all parsable ones from the first it keeps to the last it read.
GapFree(a) ==
  a.trades # <<>> =>
    /\ Ascends(a.trades)
    /\ ToSet(a.trades) = {i \in a.trades[1]..a.lastId["trade_tick"] : log["trade_tick"][i].kind = "good"}
\* What it calls live it has an entry of, on a connection that did not fail.
Backed(a) == \A n \in StreamNames : a.status[n] = "live" => a.connected /\ a.cached[n] # 0
\* It knows no entry that is not in its stream.
Within(a) == /\ \A n \in StreamNames : a.cached[n] <= Len(log[KeyOf(n)])
             /\ \A k \in StreamKeys : a.lastId[k] <= Len(log[k])
AdapterOK(a) == a \in Adapters /\ Within(a) /\ Backed(a) /\ GapFree(a)
\* A read goes on where the adapter stopped.
Continues(a, start) ==
  \A k \in StreamKeys : start[k] \in 0..Len(log[k]) /\ (a.lastId[k] # Latest => start[k] = a.lastId[k])
GoodIds == {i \in DOMAIN log["trade_tick"] : log["trade_tick"][i].kind = "good"}

\* The bound on ids.
LEMMA MaxIdNat == MaxId \in Nat /\ MaxEntries <= MaxId /\ MaxTrades <= MaxId
BY StreamAssumption DEF MaxId

\* The lengths of the streams.
LEMMA LogLength ==
  ASSUME LogOK, NEW k \in StreamKeys
  PROVE  Len(log[k]) \in 0..MaxId /\ DOMAIN log[k] = 1..Len(log[k]) /\ \A i \in DOMAIN log[k] : log[k][i] \in Entries
<1>1. log[k] \in Seq(Entries)
  BY DEF LogOK
<1>2. Len(log[k]) \in Nat /\ DOMAIN log[k] = 1..Len(log[k])
  BY <1>1, LenProperties
<1>3. \A i \in DOMAIN log[k] : log[k][i] \in Entries
  BY <1>1, <1>2, ElementOfSeq
<1> QED
  BY <1>2, <1>3, MaxIdNat DEF LogOK

\* An XREAD yields the entries after its start, up to some last one.
LEMMA AvailableIs ==
  ASSUME LogOK, NEW k \in StreamKeys, NEW start, start[k] \in 0..Len(log[k]), Available(start, k) # {}
  PROVE  \E m \in 1..Len(log[k]) : /\ m = Max(Available(start, k)) /\ start[k] < m
                                   /\ Available(start, k) = (start[k] + 1)..m
<1>1. PICK n \in Nat : n = Len(log[k]) /\ DOMAIN log[k] = 1..n
  BY LogLength, MaxIdNat
<1>2. PICK x \in Nat : x = start[k] /\ x <= n
  BY <1>1
<1>3. ReadCount \in Nat \ {0}
  BY StreamAssumption
<1>4. PICK A : A = Available(start, k)
  OBVIOUS
<1>5. A = {i \in 1..n : i > x /\ i <= x + ReadCount}
  BY <1>1, <1>2, <1>4 DEF Available
<1>6. x < n
  BY <1>2, <1>4, <1>5
<1>7. PICK m \in 1..n : m = IF n <= x + ReadCount THEN n ELSE x + ReadCount
  BY <1>3, <1>6
<1>8. x < m /\ A = (x + 1)..m
  BY <1>3, <1>5, <1>6, <1>7
<1>9. Max(A) = m
  BY <1>8 DEF Max
<1> QED
  BY <1>1, <1>2, <1>4, <1>7, <1>8, <1>9

\* What is parsable, by number.
LEMMA GapFreeCovers ==
  ASSUME LogOK, NEW s \in Seq(1..MaxId), s # <<>>, NEW h \in Int, h <= Len(log["trade_tick"])
  PROVE  Covers(s, GoodIds, h) <=>
           Ascends(s) /\ ToSet(s) = {i \in s[1]..h : log["trade_tick"][i].kind = "good"}
<1>1. DOMAIN log["trade_tick"] = 1..Len(log["trade_tick"]) /\ Len(log["trade_tick"]) \in Nat
  BY LogLength, StreamFacts, MaxIdNat
<1>2. s[1] \in 1..MaxId
  <2>1. Len(s) \in Nat
    BY LenProperties
  <2>2. Len(s) # 0
    BY EmptySeq
  <2>3. 1 \in 1..Len(s)
    BY <2>1, <2>2
  <2> QED
    BY <2>3, ElementOfSeq
<1>3. PICK f \in Nat \ {0} : f = s[1]
  BY <1>2, MaxIdNat
<1>4. {i \in f..h : i \in GoodIds} = {i \in f..h : log["trade_tick"][i].kind = "good"}
  BY <1>1, <1>3 DEF GoodIds
<1> QED
  BY <1>3, <1>4 DEF Covers

\* The trades a read adds: the parsable entries it returned.
LEMMA NewTradesAre ==
  ASSUME LogOK, NEW start, start["trade_tick"] \in 0..Len(log["trade_tick"])
  PROVE  /\ NewTrades(start) \in Seq(1..MaxId) /\ Ascends(NewTrades(start))
         /\ ToSet(NewTrades(start)) = {i \in Available(start, "trade_tick") : i \in GoodIds}
<1>1. PICK A : A = {i \in Available(start, "trade_tick") : log["trade_tick"][i].kind = "good"}
  OBVIOUS
<1>2. PICK n \in Nat : n = Len(log["trade_tick"]) /\ DOMAIN log["trade_tick"] = 1..n /\ n <= MaxId
  BY LogLength, StreamFacts, MaxIdNat
<1>3. A \subseteq 1..n /\ A = {i \in Available(start, "trade_tick") : i \in GoodIds}
  BY <1>1, <1>2 DEF Available, GoodIds
<1>4. A \subseteq 1..MaxId
  BY <1>2, <1>3, MaxIdNat
<1>5. PICK s : s = Ascending(A)
  OBVIOUS
<1>6. Cardinality(A) \in Nat /\ s \in [1..Cardinality(A) -> A] /\ Ascends(s) /\ ToSet(s) = A
  BY <1>4, <1>5, MaxIdNat, AscendingIs
<1>7. s \in [1..Cardinality(A) -> 1..MaxId]
  BY <1>4, <1>6
<1>8. s \in Seq(1..MaxId)
  BY <1>6, <1>7, SeqDef
<1>9. NewTrades(start) = s
  BY <1>1, <1>5 DEF NewTrades
<1> QED
  BY <1>3, <1>6, <1>8, <1>9

\* A list of ids is a list of numbers.
LEMMA IdsAreNat == ASSUME NEW s \in Seq(1..MaxId) PROVE s \in Seq(Nat)
<1>1. Len(s) \in Nat /\ s \in [1..Len(s) -> 1..MaxId]
  BY LenProperties, SeqDef
<1>2. 1..MaxId \subseteq Nat
  BY MaxIdNat
<1>3. s \in [1..Len(s) -> Nat]
  BY <1>1, <1>2
<1> QED
  BY <1>1, <1>3, SeqDef

\* An empty list has no elements, and only an empty one.
LEMMA ToSetEmpty == ASSUME NEW S, NEW s \in Seq(S) PROVE ToSet(s) = {} <=> s = <<>>
<1>1. PICK n \in Nat : n = Len(s) /\ DOMAIN s = 1..n
  BY LenProperties
<1>2. s = <<>> <=> n = 0
  BY <1>1, EmptySeq
<1>3. n # 0 => 1 \in DOMAIN s
  BY <1>1
<1>4. ToSet(s) = {} <=> DOMAIN s = {}
  BY DEF ToSet
<1>5. n = 0 => DOMAIN s = {}
  BY <1>1
<1> QED
  BY <1>2, <1>3, <1>4, <1>5

\* The first element is an element.
LEMMA FirstIn ==
  ASSUME NEW S, NEW s \in Seq(S), s # <<>>
  PROVE  s[1] \in S /\ s[1] \in ToSet(s) /\ Len(s) \in Nat \ {0} /\ DOMAIN s = 1..Len(s)
<1>1. PICK n \in Nat : n = Len(s) /\ DOMAIN s = 1..n
  BY LenProperties
<1>2. n # 0
  BY <1>1, EmptySeq
<1>3. 1 \in 1..n
  BY <1>2
<1>4. s[1] \in S
  BY <1>1, <1>3, ElementOfSeq
<1> QED
  BY <1>1, <1>2, <1>3, <1>4 DEF ToSet

\* The first is the lowest.
LEMMA FirstLowest ==
  ASSUME NEW s \in Seq(Nat), s # <<>>, Ascends(s), NEW x \in ToSet(s)
  PROVE  s[1] <= x
<1>1. PICK n \in Nat : n = Len(s) /\ DOMAIN s = 1..n /\ n # 0
  BY FirstIn
<1>2. PICK i \in 1..n : x = s[i]
  BY <1>1 DEF ToSet
<1>3. s[1] \in Nat /\ s[i] \in Nat
  BY <1>1, FirstIn, ElementOfSeq
<1>4. CASE i = 1
  BY <1>2, <1>3, <1>4
<1>5. CASE i # 1
  <2>1. 1 \in 1..n /\ 1 < i
    BY <1>1, <1>5
  <2>2. s[1] < s[i]
    BY <1>1, <2>1 DEF Ascends
  <2> QED
    BY <1>2, <1>3, <2>2
<1> QED
  BY <1>4, <1>5

\* Keeping the newest of a list leaves a list without gaps.
LEMMA NewestCovers ==
  ASSUME NEW s \in Seq(1..MaxId), s # <<>>, NEW X, NEW h \in Int, Covers(s, X, h)
  PROVE  Newest(s) \in Seq(1..MaxId) /\ Covers(Newest(s), X, h)
<1>1. PICK n \in Nat \ {0} : n = Len(s) /\ DOMAIN s = 1..n
  BY FirstIn
<1>2. BufferCap \in Nat \ {0}
  BY StreamAssumption
<1>3. PICK p \in 1..n : p = IF n > BufferCap THEN n - BufferCap + 1 ELSE 1
  BY <1>1, <1>2
<1>4. Newest(s) = SubSeq(s, p, n)
  BY <1>1, <1>3 DEF Newest
<1>5. s \in Seq(Nat)
  BY IdsAreNat
<1>6. p \in 1..Len(s)
  BY <1>1
<1>7. Covers(SubSeq(s, p, Len(s)), X, h)
  BY <1>5, <1>6, SuffixCovers
<1>8. ASSUME NEW S, s \in Seq(S) PROVE SubSeq(s, p, n) \in Seq(S)
  <2>1. p \in Int /\ n \in Int
    OBVIOUS
  <2>2. \A i \in p..n : s[i] \in S
    BY <1>1, <1>8, ElementOfSeq
  <2> QED
    BY <2>1, <2>2, SubSeqProperties
<1>9. SubSeq(s, p, n) \in Seq(1..MaxId)
  BY <1>8
<1> QED
  BY <1>1, <1>4, <1>7, <1>9

\* The newest of nothing is nothing.
LEMMA NewestEmpty == Newest(<<>>) = <<>>
<1>1. Len(<<>>) = 0 /\ BufferCap \in Nat \ {0}
  BY StreamAssumption, EmptySeq
<1>2. Newest(<<>>) = SubSeq(<<>>, 1, 0)
  BY <1>1 DEF Newest
<1> QED
  BY <1>2, SubSeqEmpty

\* A read adds trades without a gap to a list without one.
LEMMA TradesGrow ==
  ASSUME LogOK, NEW r \in Seq(1..MaxId), NEW l \in Latest..Len(log["trade_tick"]),
         r # <<>> => Covers(r, GoodIds, l),
         NEW start, start["trade_tick"] \in 0..Len(log["trade_tick"]), l # Latest => start["trade_tick"] = l,
         NEW h, h = IF Available(start, "trade_tick") # {} THEN Max(Available(start, "trade_tick")) ELSE l
  PROVE  /\ Newest(r \o NewTrades(start)) \in Seq(1..MaxId)
         /\ Newest(r \o NewTrades(start)) # <<>> => Covers(Newest(r \o NewTrades(start)), GoodIds, h)
<1>1. PICK n \in Nat : n = Len(log["trade_tick"]) /\ DOMAIN log["trade_tick"] = 1..n
  BY LogLength, StreamFacts, MaxIdNat
<1>2. PICK b \in Nat : b = start["trade_tick"] /\ b <= n
  BY <1>1
<1>3. PICK A : A = Available(start, "trade_tick")
  OBVIOUS
<1>4. PICK t \in Seq(1..MaxId) : t = NewTrades(start) /\ Ascends(t) /\ ToSet(t) = {i \in A : i \in GoodIds}
  BY <1>3, NewTradesAre
<1>5. PICK s \in Seq(1..MaxId) : s = r \o t
  BY ConcatProperties
<1>6. r \in Seq(Nat) /\ t \in Seq(Nat) /\ s \in Seq(Nat)
  BY IdsAreNat
<1>7. l \in Int /\ -1 <= l /\ l <= n
  BY <1>1 DEF Latest
<1>8. h \in Int /\ (s # <<>> => Covers(s, GoodIds, h))
  <2>1. CASE A = {}
    <3>1. h = l
      BY <1>3, <2>1
    <3>2. t = <<>>
      BY <1>4, <2>1, ToSetEmpty
    <3>3. s = r
      BY <1>5, <3>2, ConcatProperties, ConcatEmptySeq
    <3> QED
      BY <1>7, <3>1, <3>3
  <2>2. CASE A # {}
    <3>1. PICK m \in 1..n : m = Max(A) /\ b < m /\ A = (b + 1)..m
      BY <1>1, <1>2, <1>3, <2>2, AvailableIs, StreamFacts
    <3>2. h = m
      BY <1>3, <2>2, <3>1
    <3>3. CASE r = <<>>
      <4>1. s = t
        BY <1>5, <3>3, ConcatEmptySeq
      <4>2. ASSUME t # <<>> PROVE Covers(t, GoodIds, m)
        <5>1. t[1] \in ToSet(t) /\ t[1] \in Nat
          BY <1>6, <4>2, FirstIn
        <5>2. b + 1 <= t[1]
          BY <1>4, <3>1, <5>1
        <5>3. \A x \in ToSet(t) : t[1] <= x
          BY <1>4, <1>6, <4>2, FirstLowest
        <5>4. PICK f \in Nat : f = t[1] /\ b + 1 <= f
          BY <5>1, <5>2
        <5>5. ASSUME NEW x PROVE x \in ToSet(t) <=> x \in f..m /\ x \in GoodIds
          <6>1. x \in ToSet(t) <=> x \in (b + 1)..m /\ x \in GoodIds
            BY <1>4, <3>1
          <6>2. x \in ToSet(t) => f <= x
            BY <5>3, <5>4
          <6> QED
            BY <5>4, <6>1, <6>2
        <5>6. ToSet(t) = {i \in f..m : i \in GoodIds}
          BY <5>5
        <5> QED
          BY <1>4, <5>4, <5>6 DEF Covers
      <4> QED
        BY <3>2, <4>1, <4>2
    <3>4. CASE r # <<>>
      <4>1. Ascends(r) /\ ToSet(r) = {i \in r[1]..l : i \in GoodIds}
        BY <3>4 DEF Covers
      <4>2. PICK f \in Nat : f = r[1] /\ f \in ToSet(r)
        BY <1>6, <3>4, FirstIn
      <4>3. f <= l /\ l = b
        BY <1>2, <1>7, <4>1, <4>2 DEF Latest
      <4>4. ASSUME NEW x \in ToSet(r), NEW y \in ToSet(t) PROVE x < y
        BY <1>4, <3>1, <4>1, <4>2, <4>3, <4>4
      <4>5. Ascends(s) /\ ToSet(s) = ToSet(r) \cup ToSet(t)
        <5>1. \A x \in ToSet(r), y \in ToSet(t) : x < y
          BY <4>4
        <5> QED
          BY <1>4, <1>5, <1>6, <4>1, <5>1, JoinAscends
      <4>6. s[1] = f
        <5>1. Len(r) \in Nat \ {0}
          BY <3>4, FirstIn
        <5>2. 1 \in 1..Len(r)
          BY <5>1
        <5> QED
          BY <1>5, <4>2, <5>2, ConcatProperties
      <4>7. ToSet(r) = {i \in f..b : i \in GoodIds} /\ ToSet(t) = {i \in (b + 1)..m : i \in GoodIds}
        BY <1>4, <3>1, <4>1, <4>2, <4>3
      <4>8. ToSet(s) = {i \in f..m : i \in GoodIds}
        <5>1. ASSUME NEW x PROVE x \in ToSet(s) <=> x \in f..m /\ x \in GoodIds
          <6>1. x \in ToSet(s) <=> (x \in f..b \/ x \in (b + 1)..m) /\ x \in GoodIds
            BY <4>5, <4>7
          <6>2. f <= b /\ b < m
            BY <3>1, <4>3
          <6>3. x \in f..b \/ x \in (b + 1)..m <=> x \in f..m
            BY <6>2
          <6> QED
            BY <6>1, <6>3
        <5> QED
          BY <5>1
      <4> QED
        BY <3>1, <3>2, <4>5, <4>6, <4>8 DEF Covers
    <3> QED
      BY <3>3, <3>4
  <2> QED
    BY <2>1, <2>2
<1>9. CASE s = <<>>
  <2>1. Newest(s) = <<>> /\ <<>> \in Seq(1..MaxId)
    BY <1>9, NewestEmpty, EmptySeq
  <2> QED
    BY <1>4, <1>5, <2>1
<1>10. CASE s # <<>>
  BY <1>4, <1>5, <1>8, <1>10, NewestCovers
<1> QED
  BY <1>9, <1>10

\* The fields of an adapter.
LEMMA AdapterFields ==
  ASSUME NEW a, a \in Adapters
  PROVE  /\ a.up \in BOOLEAN /\ a.connected \in BOOLEAN /\ a.trades \in Seq(1..MaxId)
         /\ a.lastId \in [StreamKeys -> Latest..MaxId] /\ a.cached \in [StreamNames -> 0..MaxId]
         /\ a.status \in [StreamNames -> Statuses]
BY DEF Adapters

AdapterOf(a, l, c, st, tr, cn) ==
  [a EXCEPT !.lastId = l, !.cached = c, !.status = st, !.trades = tr, !.connected = cn]
FieldsOK(l, c, st, tr, cn) ==
  /\ l \in [StreamKeys -> Latest..MaxId] /\ c \in [StreamNames -> 0..MaxId]
  /\ st \in [StreamNames -> Statuses] /\ tr \in Seq(1..MaxId) /\ cn \in BOOLEAN
\* The same record with other fields.
LEMMA AdapterWith ==
  ASSUME NEW a \in Adapters, NEW l, NEW c, NEW st, NEW tr, NEW cn, FieldsOK(l, c, st, tr, cn)
  PROVE  \E u \in Adapters : /\ u = AdapterOf(a, l, c, st, tr, cn) /\ u.up = a.up /\ u.lastId = l /\ u.cached = c
                             /\ u.status = st /\ u.trades = tr /\ u.connected = cn
<1>1. PICK I, J, K, L : I = [StreamKeys -> Latest..MaxId] /\ J = [StreamNames -> 0..MaxId]
                        /\ K = [StreamNames -> Statuses] /\ L = Seq(1..MaxId)
  OBVIOUS
<1>2. Adapters = [up : BOOLEAN, lastId : I, cached : J, trades : L, connected : BOOLEAN, status : K]
  BY <1>1 DEF Adapters
<1>3. l \in I /\ c \in J /\ st \in K /\ tr \in L /\ cn \in BOOLEAN
  BY <1>1 DEF FieldsOK
<1>4. PICK u : u = AdapterOf(a, l, c, st, tr, cn)
  OBVIOUS
<1>5. /\ u \in Adapters /\ u.up = a.up /\ u.lastId = l /\ u.cached = c
      /\ u.status = st /\ u.trades = tr /\ u.connected = cn
  BY <1>2, <1>3, <1>4 DEF AdapterOf
<1> QED
  BY <1>4, <1>5

\* What makes an adapter sound, field by field.
LEMMA AdapterIs ==
  ASSUME LogOK, NEW u \in Adapters,
         \A n \in StreamNames : u.cached[n] <= Len(log[KeyOf(n)]),
         \A k \in StreamKeys : u.lastId[k] <= Len(log[k]),
         \A n \in StreamNames : u.status[n] = "live" => u.connected /\ u.cached[n] # 0,
         u.trades # <<>> => Covers(u.trades, GoodIds, u.lastId["trade_tick"])
  PROVE  AdapterOK(u)
<1>1. "trade_tick" \in StreamKeys
  BY StreamFacts
<1>2. u.lastId["trade_tick"] \in Int
  BY <1>1, AdapterFields, MaxIdNat DEF Latest
<1>3. u.trades \in Seq(1..MaxId) /\ u.lastId["trade_tick"] <= Len(log["trade_tick"])
  BY <1>1, AdapterFields
<1>4. GapFree(u)
  BY <1>2, <1>3, GapFreeCovers DEF GapFree
<1> QED
  BY <1>4 DEF AdapterOK, Within, Backed

\* And what is known of a sound one.
LEMMA AdapterHas ==
  ASSUME LogOK, NEW a, AdapterOK(a)
  PROVE  /\ a \in Adapters /\ Within(a) /\ Backed(a)
         /\ a.lastId["trade_tick"] \in Latest..Len(log["trade_tick"])
         /\ a.trades # <<>> => Covers(a.trades, GoodIds, a.lastId["trade_tick"])
<1>1. "trade_tick" \in StreamKeys
  BY StreamFacts
<1>2. a.lastId["trade_tick"] \in Int /\ Latest <= a.lastId["trade_tick"]
  BY <1>1, AdapterFields, MaxIdNat DEF Latest, AdapterOK
<1>3. a.trades \in Seq(1..MaxId) /\ a.lastId["trade_tick"] <= Len(log["trade_tick"])
  BY <1>1, AdapterFields DEF AdapterOK, Within
<1>4. Len(log["trade_tick"]) \in Nat
  BY <1>1, LogLength, MaxIdNat
<1>5. a.lastId["trade_tick"] \in Latest..Len(log["trade_tick"])
  BY <1>2, <1>3, <1>4 DEF Latest
<1>6. a.trades # <<>> => Covers(a.trades, GoodIds, a.lastId["trade_tick"])
  BY <1>2, <1>3, GapFreeCovers DEF GapFree, AdapterOK
<1> QED
  BY <1>5, <1>6 DEF AdapterOK

\* A read leaves an adapter sound.
LEMMA ConsumedOK ==
  ASSUME LogOK, NEW a, AdapterOK(a), NEW start, Continues(a, start)
  PROVE  AdapterOK(Consumed(a, start)) /\ Consumed(a, start).up = a.up
<1>1. a \in Adapters /\ Within(a) /\ Backed(a)
  BY AdapterHas
<1>2. /\ a.up \in BOOLEAN /\ a.connected \in BOOLEAN /\ a.trades \in Seq(1..MaxId)
      /\ a.lastId \in [StreamKeys -> Latest..MaxId] /\ a.cached \in [StreamNames -> 0..MaxId]
      /\ a.status \in [StreamNames -> Statuses]
  BY <1>1, AdapterFields
<1>3. ASSUME NEW k \in StreamKeys, Available(start, k) # {}
      PROVE  Max(Available(start, k)) \in 1..Len(log[k]) /\ Max(Available(start, k)) \in 1..MaxId
  <2>1. Max(Available(start, k)) \in 1..Len(log[k])
    BY <1>3, AvailableIs DEF Continues
  <2>2. Len(log[k]) \in 0..MaxId
    BY LogLength
  <2> QED
    BY <2>1, <2>2, MaxIdNat
<1>4. PICK l : l = [k \in StreamKeys |-> IF Available(start, k) # {} THEN Max(Available(start, k)) ELSE a.lastId[k]]
  OBVIOUS
<1>5. l \in [StreamKeys -> Latest..MaxId] /\ \A k \in StreamKeys : l[k] <= Len(log[k])
  <2>1. ASSUME NEW k \in StreamKeys PROVE l[k] \in Latest..MaxId /\ l[k] <= Len(log[k])
    <3>1. CASE Available(start, k) # {}
      BY <1>3, <1>4, <3>1, MaxIdNat, LogLength DEF Latest
    <3>2. CASE Available(start, k) = {}
      BY <1>1, <1>2, <1>4, <3>2 DEF Within
    <3> QED
      BY <3>1, <3>2
  <2>2. DOMAIN l = StreamKeys /\ l = [k \in StreamKeys |-> l[k]]
    BY <1>4
  <2> QED
    BY <2>1, <2>2
<1>6. PICK c, st : /\ c = [n \in StreamNames |-> IF Available(start, KeyOf(n)) # {} /\ ReverseName(KeyOf(n)) = n
                                                THEN Max(Available(start, KeyOf(n))) ELSE a.cached[n]]
                  /\ st = [n \in StreamNames |-> IF Available(start, KeyOf(n)) # {} /\ ReverseName(KeyOf(n)) = n
                                                THEN AfterEvent(a, n) ELSE a.status[n]]
  OBVIOUS
<1>7. ASSUME NEW n \in StreamNames
      PROVE  /\ c[n] \in 0..MaxId /\ c[n] <= Len(log[KeyOf(n)]) /\ st[n] \in Statuses
             /\ st[n] = "live" => a.connected /\ c[n] # 0
  <2>1. KeyOf(n) \in StreamKeys
    BY StreamFacts
  <2>2. CASE Available(start, KeyOf(n)) # {} /\ ReverseName(KeyOf(n)) = n
    <3>1. c[n] = Max(Available(start, KeyOf(n))) /\ st[n] = AfterEvent(a, n)
      BY <1>6, <2>2
    <3>2. c[n] \in 1..Len(log[KeyOf(n)]) /\ c[n] \in 1..MaxId
      BY <1>3, <2>1, <2>2, <3>1
    <3>3. st[n] \in Statuses /\ (st[n] = "live" => a.connected)
      BY <1>1, <1>2, <3>1 DEF AfterEvent, Statuses, Backed
    <3>4. c[n] \in 0..MaxId /\ c[n] <= Len(log[KeyOf(n)]) /\ c[n] # 0
      BY <2>1, <3>2, MaxIdNat, LogLength
    <3> QED
      BY <3>3, <3>4
  <2>3. CASE ~(Available(start, KeyOf(n)) # {} /\ ReverseName(KeyOf(n)) = n)
    <3>1. c[n] = a.cached[n] /\ st[n] = a.status[n]
      BY <1>6, <2>3
    <3> QED
      BY <1>1, <1>2, <3>1 DEF Within, Backed
  <2> QED
    BY <2>2, <2>3
<1>8. c \in [StreamNames -> 0..MaxId] /\ st \in [StreamNames -> Statuses]
  <2>1. c = [n \in StreamNames |-> c[n]] /\ st = [n \in StreamNames |-> st[n]]
    BY <1>6
  <2> QED
    BY <1>7, <2>1
<1>9. PICK tr : tr = Newest(a.trades \o NewTrades(start))
  OBVIOUS
<1>10. tr \in Seq(1..MaxId) /\ (tr # <<>> => Covers(tr, GoodIds, l["trade_tick"]))
  <2>1. "trade_tick" \in StreamKeys
    BY StreamFacts
  <2>2. PICK o : o = a.lastId["trade_tick"]
    OBVIOUS
  <2>3. o \in Latest..Len(log["trade_tick"]) /\ (a.trades # <<>> => Covers(a.trades, GoodIds, o))
    BY <2>2, AdapterHas
  <2>4. start["trade_tick"] \in 0..Len(log["trade_tick"]) /\ (o # Latest => start["trade_tick"] = o)
    BY <2>1, <2>2 DEF Continues
  <2>5. l["trade_tick"] = IF Available(start, "trade_tick") # {} THEN Max(Available(start, "trade_tick")) ELSE o
    BY <1>4, <2>1, <2>2
  <2> QED
    BY <1>2, <1>9, <2>3, <2>4, <2>5, TradesGrow
<1>11. PICK cn : cn = a.connected
  OBVIOUS
<1>12. FieldsOK(l, c, st, tr, cn)
  BY <1>2, <1>5, <1>8, <1>10, <1>11 DEF FieldsOK
<1>13. PICK u \in Adapters :
          /\ u = AdapterOf(a, l, c, st, tr, cn) /\ u.up = a.up /\ u.lastId = l /\ u.cached = c
          /\ u.status = st /\ u.trades = tr /\ u.connected = cn
  BY <1>1, <1>12, AdapterWith
<1>14. Consumed(a, start) = u
  <2>1. Consumed(a, start) = [a EXCEPT !.lastId = l, !.cached = c, !.status = st, !.trades = tr]
    BY <1>4, <1>6, <1>9 DEF Consumed
  <2>2. DOMAIN a = {"up", "lastId", "cached", "trades", "connected", "status"}
    BY <1>1 DEF Adapters
  <2> QED
    BY <1>11, <1>13, <2>1, <2>2 DEF AdapterOf
<1>15. AdapterOK(u)
  <2>1. \A n \in StreamNames : u.cached[n] <= Len(log[KeyOf(n)])
    BY <1>7, <1>13
  <2>2. \A k \in StreamKeys : u.lastId[k] <= Len(log[k])
    BY <1>5, <1>13
  <2>3. \A n \in StreamNames : u.status[n] = "live" => u.connected /\ u.cached[n] # 0
    BY <1>7, <1>11, <1>13
  <2>4. u.trades # <<>> => Covers(u.trades, GoodIds, u.lastId["trade_tick"])
    BY <1>10, <1>13
  <2> QED
    BY <1>13, <2>1, <2>2, <2>3, <2>4, AdapterIs
<1> QED
  BY <1>13, <1>14, <1>15

\* Only the reported statuses change: an adapter stays sound when what it calls live is backed.
LEMMA StatusOnly ==
  ASSUME LogOK, NEW a, AdapterOK(a), NEW st \in [StreamNames -> Statuses], NEW cn \in BOOLEAN,
         \A n \in StreamNames : st[n] = "live" => cn /\ a.cached[n] # 0,
         NEW v, v = [a EXCEPT !.connected = cn, !.status = st]
  PROVE  AdapterOK(v) /\ v.up = a.up
<1>1. a \in Adapters /\ Within(a) /\ Backed(a) /\ (a.trades # <<>> => Covers(a.trades, GoodIds, a.lastId["trade_tick"]))
  BY AdapterHas
<1>2. PICK l, c, tr : l = a.lastId /\ c = a.cached /\ tr = a.trades
  OBVIOUS
<1>3. FieldsOK(l, c, st, tr, cn)
  BY <1>1, <1>2, AdapterFields DEF FieldsOK
<1>4. PICK u \in Adapters :
        /\ u = AdapterOf(a, l, c, st, tr, cn) /\ u.up = a.up /\ u.lastId = l /\ u.cached = c
        /\ u.status = st /\ u.trades = tr /\ u.connected = cn
  BY <1>1, <1>3, AdapterWith
<1>5. v = u
  <2>1. DOMAIN a = {"up", "lastId", "cached", "trades", "connected", "status"}
    BY <1>1 DEF Adapters
  <2> QED
    BY <1>2, <1>4, <2>1 DEF AdapterOf
<1>6. AdapterOK(u)
  <2>1. \A n \in StreamNames : u.cached[n] <= Len(log[KeyOf(n)])
    BY <1>1, <1>2, <1>4 DEF Within
  <2>2. \A k \in StreamKeys : u.lastId[k] <= Len(log[k])
    BY <1>1, <1>2, <1>4 DEF Within
  <2>3. \A n \in StreamNames : u.status[n] = "live" => u.connected /\ u.cached[n] # 0
    BY <1>2, <1>4
  <2>4. u.trades # <<>> => Covers(u.trades, GoodIds, u.lastId["trade_tick"])
    BY <1>1, <1>2, <1>4
  <2> QED
    BY <2>1, <2>2, <2>3, <2>4, AdapterIs
<1> QED
  BY <1>4, <1>5, <1>6

\* After a failed read nothing is live.
LEMMA FailureOK ==
  ASSUME LogOK, NEW a, AdapterOK(a)
  PROVE  AdapterOK(AfterFailure(a)) /\ AfterFailure(a).up = a.up
<1>1. a.status \in [StreamNames -> Statuses]
  BY AdapterHas, AdapterFields
<1>2. PICK st : st = [n \in StreamNames |-> IF a.status[n] # "unknown" THEN "unavailable" ELSE a.status[n]]
  OBVIOUS
<1>3. st \in [StreamNames -> Statuses] /\ \A n \in StreamNames : st[n] # "live"
  BY <1>1, <1>2 DEF Statuses
<1>4. PICK cn \in BOOLEAN : cn = FALSE
  OBVIOUS
<1>5. PICK v : v = [a EXCEPT !.connected = cn, !.status = st]
  OBVIOUS
<1>6. AfterFailure(a) = v
  BY <1>2, <1>4, <1>5 DEF AfterFailure, MarkConnected
<1>7. AdapterOK(v) /\ v.up = a.up
  BY <1>3, <1>5, StatusOnly
<1> QED
  BY <1>6, <1>7

\* A health event reports live only what is.
LEMMA EvaluatedOK ==
  ASSUME LogOK, NEW a, AdapterOK(a), NEW o \in BOOLEAN
  PROVE  AdapterOK(HealthEvaluated(a, o)) /\ HealthEvaluated(a, o).up = a.up
<1>1. a \in Adapters /\ Backed(a)
  BY AdapterHas
<1>2. a.status \in [StreamNames -> Statuses] /\ a.connected \in BOOLEAN
  BY <1>1, AdapterFields
<1>3. PICK st : st = [n \in StreamNames |->
    CASE a.status[n] = "unavailable" -> "unavailable"
      [] a.status[n] # "unavailable" /\ a.cached[n] = 0 ->
           IF o THEN "missing" ELSE a.status[n]
      [] OTHER ->
           IF EventTime(n, a.cached[n]) < 0 THEN a.status[n]
           ELSE IF now - EventTime(n, a.cached[n]) > StaleAge THEN "stale"
           ELSE IF a.connected THEN "live" ELSE a.status[n]]
  OBVIOUS
<1>4. ASSUME NEW n \in StreamNames
      PROVE  /\ st[n] \in Statuses
             /\ st[n] = "live" => a.connected /\ a.cached[n] # 0
  <2>1. PICK s0 \in Statuses : s0 = a.status[n] /\ (s0 = "live" => a.connected /\ a.cached[n] # 0)
    BY <1>1, <1>2 DEF Backed
  <2>2. CASE s0 = "unavailable"
    BY <1>3, <2>1, <2>2 DEF Statuses
  <2>3. CASE s0 # "unavailable" /\ a.cached[n] = 0
    BY <1>3, <2>1, <2>3 DEF Statuses
  <2>4. CASE s0 # "unavailable" /\ a.cached[n] # 0
    <3>1. st[n] \in {s0, "stale", "live"} /\ (st[n] = "live" => s0 = "live" \/ a.connected)
      <4>1. st[n] = IF EventTime(n, a.cached[n]) < 0 THEN s0
           ELSE IF now - EventTime(n, a.cached[n]) > StaleAge THEN "stale"
           ELSE IF a.connected THEN "live" ELSE s0
        BY <1>3, <2>1, <2>4
      <4> QED
        BY <4>1
    <3> QED
      BY <2>1, <2>4, <3>1 DEF Statuses
  <2> QED
    BY <2>2, <2>3, <2>4
<1>5. st \in [StreamNames -> Statuses]
  <2>1. st = [n \in StreamNames |-> st[n]]
    BY <1>3
  <2> QED
    BY <1>4, <2>1
<1>6. PICK cn \in BOOLEAN : cn = a.connected
  BY <1>2
<1>7. PICK v : v = [a EXCEPT !.connected = cn, !.status = st]
  OBVIOUS
<1>8. HealthEvaluated(a, o) = v
  <2>1. DOMAIN a = {"up", "lastId", "cached", "trades", "connected", "status"}
    BY <1>1 DEF Adapters
  <2>2. HealthEvaluated(a, o) = [a EXCEPT !.status = st]
    BY <1>3 DEF HealthEvaluated
  <2>3. [a EXCEPT !.status = st] = [a EXCEPT !.connected = a.connected, !.status = st]
    BY <2>1
  <2> QED
    BY <1>6, <1>7, <2>2, <2>3
<1>9. \A n \in StreamNames : st[n] = "live" => cn /\ a.cached[n] # 0
  BY <1>4, <1>6
<1>10. AdapterOK(v) /\ v.up = a.up
  BY <1>5, <1>7, <1>9, StatusOnly
<1> QED
  BY <1>8, <1>10

\* No adapter is a sound one.
LEMMA NoAdapterOK ==
  ASSUME LogOK
  PROVE  AdapterOK(NoAdapter) /\ NoAdapter.trades = <<>> /\ ~NoAdapter.up
<1>1. NoAdapter \in Adapters
  <2>1. <<>> \in Seq(1..MaxId)
    BY EmptySeq
  <2>2. "unknown" \in Statuses /\ Latest \in Latest..MaxId /\ 0 \in 0..MaxId
    BY MaxIdNat DEF Statuses, Latest
  <2> QED
    BY <2>1, <2>2 DEF NoAdapter, Adapters
<1>2. /\ NoAdapter.trades = <<>> /\ ~NoAdapter.up
      /\ \A n \in StreamNames : NoAdapter.cached[n] = 0 /\ NoAdapter.status[n] = "unknown"
      /\ \A k \in StreamKeys : NoAdapter.lastId[k] = -1
  BY DEF NoAdapter, Latest
<1>3. ASSUME NEW k \in StreamKeys PROVE Len(log[k]) \in Nat
  BY LogLength, MaxIdNat
<1>4. \A n \in StreamNames : KeyOf(n) \in StreamKeys
  BY StreamFacts
<1>5. \A n \in StreamNames : NoAdapter.cached[n] <= Len(log[KeyOf(n)])
  BY <1>2, <1>3, <1>4
<1>6. \A k \in StreamKeys : NoAdapter.lastId[k] <= Len(log[k])
  BY <1>2, <1>3
<1> QED
  BY <1>1, <1>2, <1>5, <1>6, AdapterIs

\* The adapter connect() begins with.
LEMMA ConnectedOK ==
  ASSUME LogOK, NEW v, v = MarkConnected([NoAdapter EXCEPT !.up = TRUE], TRUE)
  PROVE  AdapterOK(v) /\ v.trades = <<>> /\ v.up /\ v.connected
<1>1. PICK w : w = [NoAdapter EXCEPT !.up = TRUE]
  OBVIOUS
<1>2. NoAdapter \in Adapters /\ AdapterOK(NoAdapter) /\ NoAdapter.trades = <<>>
  BY NoAdapterOK, AdapterHas
<1>3. /\ w \in Adapters /\ w.up = TRUE /\ w.lastId = NoAdapter.lastId /\ w.cached = NoAdapter.cached
      /\ w.trades = NoAdapter.trades /\ w.status = NoAdapter.status
  BY <1>1, <1>2 DEF Adapters
<1>4. Within(NoAdapter)
  BY <1>2, AdapterHas
<1>5. \A n \in StreamNames : w.status[n] = "unknown"
  BY <1>3 DEF NoAdapter
<1>6. AdapterOK(w)
  <2>1. \A n \in StreamNames : w.cached[n] <= Len(log[KeyOf(n)])
    BY <1>3, <1>4 DEF Within
  <2>2. \A k \in StreamKeys : w.lastId[k] <= Len(log[k])
    BY <1>3, <1>4 DEF Within
  <2> QED
    BY <1>2, <1>3, <1>5, <2>1, <2>2, AdapterIs
<1>7. PICK st : st = [n \in StreamNames |-> w.status[n]]
  OBVIOUS
<1>8. st \in [StreamNames -> Statuses] /\ \A n \in StreamNames : st[n] # "live"
  BY <1>5, <1>7 DEF Statuses
<1>9. v = [w EXCEPT !.connected = TRUE, !.status = st]
  BY <1>1, <1>7 DEF MarkConnected
<1>10. AdapterOK(v) /\ v.up = w.up
  BY <1>6, <1>8, <1>9, StatusOnly
<1>11. v.trades = <<>> /\ v.connected
  BY <1>2, <1>3, <1>9 DEF Adapters
<1> QED
  BY <1>3, <1>10, <1>11

Seeded(a, n, i) ==
  [a EXCEPT !.cached[n] = i, !.lastId[KeyOf(n)] = IF i > 0 THEN i ELSE @, !.status[n] = SeedStatus(n, i)]
\* One stream seeded.
LEMMA SeedOK ==
  ASSUME LogOK, NEW a, AdapterOK(a), a.connected, a.trades = <<>>, NEW n \in StreamNames, NEW i, i = Len(log[KeyOf(n)]),
         NEW v, v = Seeded(a, n, i)
  PROVE  AdapterOK(v) /\ v.up = a.up /\ v.connected /\ v.trades = <<>>
<1>1. a \in Adapters /\ Within(a) /\ Backed(a)
  BY AdapterHas
<1>2. /\ a.trades \in Seq(1..MaxId) /\ a.connected \in BOOLEAN
      /\ a.lastId \in [StreamKeys -> Latest..MaxId] /\ a.cached \in [StreamNames -> 0..MaxId]
      /\ a.status \in [StreamNames -> Statuses]
  BY <1>1, AdapterFields
<1>3. PICK k \in StreamKeys : k = KeyOf(n)
  BY StreamFacts
<1>4. i \in 0..MaxId /\ i = Len(log[k]) /\ i \in Nat
  BY <1>3, LogLength, MaxIdNat
<1>5. PICK s \in Statuses : s = SeedStatus(n, i) /\ (s = "live" => i # 0)
  <2>1. SeedStatus(n, i) \in Statuses
    BY <1>4 DEF SeedStatus, Statuses
  <2>2. SeedStatus(n, i) = "live" => i # 0
    BY <1>4 DEF SeedStatus
  <2> QED
    BY <2>1, <2>2
<1>6. PICK j \in Latest..MaxId : j = (IF i > 0 THEN i ELSE a.lastId[k]) /\ j <= Len(log[k])
  <2>1. a.lastId[k] \in Latest..MaxId /\ a.lastId[k] <= Len(log[k])
    BY <1>1, <1>2 DEF Within
  <2>2. i \in Latest..MaxId
    BY <1>4, MaxIdNat DEF Latest
  <2> QED
    BY <1>4, <2>1, <2>2
<1>7. PICK l, c, st, tr, cn : /\ l = [a.lastId EXCEPT ![k] = j] /\ c = [a.cached EXCEPT ![n] = i]
                             /\ st = [a.status EXCEPT ![n] = s] /\ tr = a.trades /\ cn = a.connected
  OBVIOUS
<1>8. FieldsOK(l, c, st, tr, cn)
  BY <1>2, <1>4, <1>7 DEF FieldsOK
<1>9. PICK u \in Adapters :
        /\ u = AdapterOf(a, l, c, st, tr, cn) /\ u.up = a.up /\ u.lastId = l /\ u.cached = c
        /\ u.status = st /\ u.trades = tr /\ u.connected = cn
  BY <1>1, <1>8, AdapterWith
<1>10. v = u
  <2>1. DOMAIN a = {"up", "lastId", "cached", "trades", "connected", "status"}
    BY <1>1 DEF Adapters
  <2>a. v = [a EXCEPT !.cached = [a.cached EXCEPT ![n] = i],
                     !.lastId = [a.lastId EXCEPT ![k] = IF i > 0 THEN i ELSE a.lastId[k]],
                     !.status = [a.status EXCEPT ![n] = SeedStatus(n, i)]]
    BY <1>3, <2>1 DEF Seeded
  <2>2. v = [a EXCEPT !.cached = c, !.lastId = l, !.status = st]
    BY <1>5, <1>6, <1>7, <2>a
  <2>3. u = [a EXCEPT !.lastId = l, !.cached = c, !.status = st, !.trades = a.trades, !.connected = a.connected]
    BY <1>7, <1>9 DEF AdapterOf
  <2> QED
    BY <2>1, <2>2, <2>3
<1>b. /\ \A m \in StreamNames : c[m] = IF m = n THEN i ELSE a.cached[m]
      /\ \A m \in StreamNames : st[m] = IF m = n THEN s ELSE a.status[m]
      /\ \A m \in StreamKeys : l[m] = IF m = k THEN j ELSE a.lastId[m]
  BY <1>2, <1>7
<1>11. AdapterOK(u)
  <2>1. \A m \in StreamNames : u.cached[m] <= Len(log[KeyOf(m)])
    BY <1>1, <1>3, <1>4, <1>b, <1>9 DEF Within
  <2>2. \A m \in StreamKeys : u.lastId[m] <= Len(log[m])
    BY <1>1, <1>6, <1>b, <1>9 DEF Within
  <2>3. ASSUME NEW m \in StreamNames, u.status[m] = "live" PROVE u.connected /\ u.cached[m] # 0
    <3>a. u.connected /\ u.status[m] = st[m] /\ u.cached[m] = c[m]
      BY <1>7, <1>9
    <3>1. CASE m = n
      <4>1. st[m] = s /\ c[m] = i
        BY <1>b, <3>1
      <4> QED
        BY <1>5, <2>3, <3>a, <4>1
    <3>2. CASE m # n
      <4>1. a.status[m] = "live" /\ u.cached[m] = a.cached[m]
        BY <1>b, <2>3, <3>2, <3>a
      <4> QED
        BY <1>1, <3>a, <4>1 DEF Backed
    <3> QED
      BY <3>1, <3>2
  <2>4. u.trades = <<>>
    BY <1>7, <1>9
  <2> QED
    BY <2>1, <2>2, <2>3, <2>4, AdapterIs
<1> QED
  BY <1>7, <1>9, <1>10, <1>11

\* A read starts where the adapter stopped.
LEMMA StartContinues == ASSUME LogOK, NEW a, AdapterOK(a) PROVE Continues(a, Start(a))
<1>1. a \in Adapters /\ Within(a)
  BY AdapterHas
<1>2. a.lastId \in [StreamKeys -> Latest..MaxId]
  BY <1>1, AdapterFields
<1>3. ASSUME NEW k \in StreamKeys
      PROVE  Start(a)[k] \in 0..Len(log[k]) /\ (a.lastId[k] # Latest => Start(a)[k] = a.lastId[k])
  <2>1. PICK n \in Nat : n = Len(log[k])
    BY LogLength, MaxIdNat
  <2>2. PICK x \in Latest..MaxId : x = a.lastId[k] /\ x <= n
    BY <1>1, <1>2, <2>1 DEF Within
  <2>3. Start(a)[k] = IF x = Latest THEN n ELSE x
    BY <2>1, <2>2 DEF Start
  <2> QED
    BY <2>1, <2>2, <2>3, MaxIdNat DEF Latest
<1> QED
  BY <1>3 DEF Continues

\* What a producer appends leaves adapters sound: they know only entries before it.
LEMMA PublishKeeps ==
  ASSUME LogOK, NEW k \in StreamKeys, NEW e \in Entries, log' = [log EXCEPT ![k] = Append(@, e)],
         Len(log[k]) < MaxId
  PROVE  /\ LogOK'
         /\ \A j \in StreamKeys : Len(log[j]) \in Nat /\ Len(log'[j]) \in Nat /\ Len(log[j]) <= Len(log'[j])
         /\ \A j \in StreamKeys : \A i \in 1..Len(log[j]) : log'[j][i] = log[j][i]
<1>1. log \in [StreamKeys -> Seq(Entries)] /\ \A j \in StreamKeys : Len(log[j]) \in 0..MaxId
  BY LogLength DEF LogOK
<1>2. PICK s \in Seq(Entries), n \in Nat : s = log[k] /\ n = Len(s) /\ n < MaxId
  BY <1>1, MaxIdNat
<1>3. PICK t \in Seq(Entries) : /\ t = Append(s, e) /\ Len(t) = n + 1 /\ \A i \in 1..n : t[i] = s[i]
  <2>1. PICK t : t = Append(s, e)
    OBVIOUS
  <2>2. t \in Seq(Entries) /\ Len(t) = Len(s) + 1 /\ \A i \in 1..Len(s) : t[i] = s[i]
    BY <2>1, AppendProperties
  <2> QED
    BY <1>2, <2>1, <2>2
<1>4. log' = [log EXCEPT ![k] = t]
  <2>1. log' = [log EXCEPT ![k] = Append(log[k], e)]
    OBVIOUS
  <2> QED
    BY <1>2, <1>3, <2>1
<1>5. log' \in [StreamKeys -> Seq(Entries)]
  BY <1>1, <1>4
<1>6. ASSUME NEW j \in StreamKeys
      PROVE  /\ Len(log[j]) \in Nat /\ Len(log'[j]) \in Nat /\ Len(log[j]) <= Len(log'[j]) /\ Len(log'[j]) <= MaxId
             /\ \A i \in 1..Len(log[j]) : log'[j][i] = log[j][i]
  <2>1. CASE j = k
    <3>1. log'[j] = t /\ log[j] = s
      BY <1>1, <1>2, <1>4, <2>1
    <3> QED
      BY <1>2, <1>3, <3>1, MaxIdNat
  <2>2. CASE j # k
    <3>1. log'[j] = log[j]
      BY <1>1, <1>4, <2>2
    <3> QED
      BY <1>1, <3>1, MaxIdNat
  <2> QED
    BY <2>1, <2>2
<1>7. LogOK'
  BY <1>5, <1>6 DEF LogOK
<1> QED
  BY <1>6, <1>7

\* So what was sound is.
LEMMA PublishKeepsAdapter ==
  ASSUME LogOK, LogOK', NEW CONSTANT a, AdapterOK(a),
         \A j \in StreamKeys : Len(log[j]) \in Nat /\ Len(log'[j]) \in Nat /\ Len(log[j]) <= Len(log'[j]),
         \A j \in StreamKeys : \A i \in 1..Len(log[j]) : log'[j][i] = log[j][i]
  PROVE  AdapterOK(a)'
<1>1. a \in Adapters /\ Within(a) /\ Backed(a) /\ a.lastId["trade_tick"] \in Latest..Len(log["trade_tick"])
  BY AdapterHas
<1>2. /\ a.lastId \in [StreamKeys -> Latest..MaxId] /\ a.cached \in [StreamNames -> 0..MaxId] /\ a.trades \in Seq(1..MaxId)
  BY <1>1, AdapterFields
<1>3. Within(a)'
  <2>1. ASSUME NEW n \in StreamNames PROVE a.cached[n] <= Len(log'[KeyOf(n)])
    <3>1. PICK j \in StreamKeys : j = KeyOf(n)
      BY StreamFacts
    <3>2. a.cached[n] <= Len(log[j]) /\ a.cached[n] \in 0..MaxId
      BY <1>1, <1>2, <3>1 DEF Within
    <3> QED
      BY <3>1, <3>2, MaxIdNat
  <2>2. ASSUME NEW j \in StreamKeys PROVE a.lastId[j] <= Len(log'[j])
    <3>1. a.lastId[j] <= Len(log[j]) /\ a.lastId[j] \in Latest..MaxId
      BY <1>1, <1>2 DEF Within
    <3> QED
      BY <3>1, MaxIdNat DEF Latest
  <2> QED
    BY <2>1, <2>2 DEF Within, KeyOf
<1>4. Backed(a)'
  BY <1>1 DEF Backed
<1>5. GapFree(a)'
  <2>1. ASSUME a.trades # <<>>
        PROVE  Ascends(a.trades) /\ ToSet(a.trades) = {i \in a.trades[1]..a.lastId["trade_tick"] : log'["trade_tick"][i].kind = "good"}
    <3>1. Ascends(a.trades) /\ ToSet(a.trades) = {i \in a.trades[1]..a.lastId["trade_tick"] : log["trade_tick"][i].kind = "good"}
      BY <2>1 DEF AdapterOK, GapFree
    <3>2. PICK f \in Nat \ {0} : f = a.trades[1]
      BY <1>2, <2>1, FirstIn, MaxIdNat
    <3>3. PICK h \in Int : h = a.lastId["trade_tick"] /\ h <= Len(log["trade_tick"])
      BY <1>1 DEF Latest
    <3>4. Len(log["trade_tick"]) \in Nat /\ \A i \in 1..Len(log["trade_tick"]) : log'["trade_tick"][i] = log["trade_tick"][i]
      BY StreamFacts
    <3>5. \A i \in f..h : log'["trade_tick"][i] = log["trade_tick"][i]
      BY <3>3, <3>4
    <3> QED
      BY <3>1, <3>2, <3>3, <3>5
  <2> QED
    BY <2>1 DEF GapFree
<1> QED
  BY <1>1, <1>3, <1>4, <1>5 DEF AdapterOK

\* The invariant of one stream, by parts.
PlainOK ==
  /\ production \in BOOLEAN /\ enabled \in BOOLEAN /\ redis \in {"up", "down"} /\ now \in 0..MaxNow
  /\ pc \in {"connect", "seed", "read", "blocked", "loop", "stopped", "crashed", "cancelled", "cancelled_early"}
  /\ inLoop \in BOOLEAN /\ useRedis \in BOOLEAN /\ out \in {"none", "mock", "redis", "stream_error"}
  /\ seedAt \in 1..4
FromOK == pc = "blocked" => Continues(adapter, from)
\* Outside the stream map's seeding the fresh adapter is none; the generator reads Redis only through an adapter.
ControlOK ==
  /\ fresh.trades = <<>>
  /\ pc = "seed" => fresh.up /\ fresh.connected
  /\ pc \in {"read", "blocked"} => useRedis
  /\ pc = "loop" => inLoop
  /\ pc \notin Ended /\ useRedis => adapter.up
  /\ production /\ enabled /\ inLoop /\ ~useRedis => out = "mock"
One(b) == IF b THEN 1 ELSE 0
\* Redis clients: one per adapter held, one more while the next is being seeded.
OpenOK ==
  /\ open \in 0..2
  /\ pc \notin Ended => open = One(adapter.up) + One(pc = "seed")
  /\ pc = "cancelled" => open = 0
StreamInv == /\ PlainOK /\ LogOK /\ AdapterOK(adapter) /\ AdapterOK(fresh)
             /\ FromOK /\ ControlOK /\ OpenOK

\* An adapter that is sound stays so while no entry is appended.
LEMMA AdapterStays ==
  ASSUME NEW CONSTANT a, AdapterOK(a), log' = log, adapter' = a
  PROVE  AdapterOK(adapter)'
BY DEF AdapterOK, Within, Backed, GapFree

\* The same of the adapter being connected.
LEMMA FreshStays ==
  ASSUME NEW CONSTANT a, AdapterOK(a), log' = log, fresh' = a
  PROVE  AdapterOK(fresh)'
BY DEF AdapterOK, Within, Backed, GapFree

\* And of the streams.
LEMMA LogStays == LogOK /\ log' = log => LogOK'
BY DEF LogOK

\* A sound adapter is up or not.
LEMMA UpBoolean == ASSUME NEW a, AdapterOK(a) PROVE a.up \in BOOLEAN
BY AdapterFields DEF AdapterOK

\* What a snapshot makes of a sound adapter.
LEMMA DeliverKeeps ==
  ASSUME StreamInv, NEW CONSTANT a, AdapterOK(a), a.up = adapter.up, pc \in {"read", "blocked"}, Deliver(a),
         UNCHANGED <<world, fresh, seedAt, open>>
  PROVE  StreamInv'
<1>1. log' = log /\ fresh' = fresh
  BY DEF world
<1>2. PICK b : b = fresh /\ AdapterOK(b)
  BY DEF StreamInv
<1>3. AdapterOK(fresh)'
  BY <1>1, <1>2, FreshStays
<1>4. PICK d : d = (IF Snapshot(a) = "raises" THEN NoAdapter ELSE a) /\ AdapterOK(d)
  BY NoAdapterOK DEF StreamInv
<1>5. AdapterOK(adapter)'
  <2>1. adapter' = d
    BY <1>4 DEF Deliver
  <2> QED
    BY <1>1, <1>4, <2>1, AdapterStays
<1>6. pc' \in {"loop", "crashed"} /\ (pc' = "loop" => adapter' = a /\ inLoop')
  BY DEF Deliver
<1>7. /\ out' \in {out, "redis", "mock"} /\ inLoop' \in {inLoop, TRUE} /\ (useRedis' => useRedis)
      /\ useRedis' \in BOOLEAN /\ (~useRedis' => out' = "mock" \/ (UNCHANGED <<out, useRedis, inLoop>>))
  <2>1. useRedis \in BOOLEAN /\ inLoop \in BOOLEAN
    BY DEF StreamInv, PlainOK
  <2>2. CASE Snapshot(a) = "raises"
    <3>1. UNCHANGED <<out, useRedis, inLoop>>
      BY <2>2 DEF Deliver
    <3> QED
      BY <2>1, <3>1
  <2>3. CASE Snapshot(a) = "redis"
    <3>1. out' = "redis" /\ inLoop' = TRUE /\ useRedis' = useRedis
      BY <2>3 DEF Deliver
    <3>2. useRedis = TRUE
      BY <2>1 DEF StreamInv, ControlOK
    <3> QED
      BY <2>1, <3>1, <3>2
  <2>4. CASE Snapshot(a) \notin {"raises", "redis"}
    <3>1. out' = "mock" /\ inLoop' = TRUE /\ useRedis' = (useRedis /\ inLoop)
      BY <2>4 DEF Deliver
    <3> QED
      BY <2>1, <3>1
  <2> QED
    BY <2>2, <2>3, <2>4
<1>8. PlainOK'
  <2>1. PlainOK /\ UNCHANGED <<production, enabled, redis, now, seedAt>>
    BY DEF StreamInv, world
  <2> QED
    BY <1>6, <1>7, <2>1 DEF PlainOK
<1>9. FromOK'
  BY <1>6 DEF FromOK
<1>10. ControlOK'
  <2>1. ControlOK /\ UNCHANGED <<production, enabled, fresh>> /\ useRedis \in BOOLEAN
    BY DEF StreamInv, world, PlainOK
  <2> QED
    BY <1>6, <1>7, <2>1 DEF ControlOK, Ended
<1>11. OpenOK'
  <2>1. OpenOK /\ open' = open
    BY DEF StreamInv
  <2> QED
    BY <1>6, <2>1 DEF OpenOK, Ended
<1> QED
  BY <1>1, <1>3, <1>5, <1>8, <1>9, <1>10, <1>11, LogStays DEF StreamInv

\* A stream begins without an adapter.
LEMMA StreamInvInit == StreamInit => StreamInv
<1> SUFFICES ASSUME StreamInit PROVE StreamInv
  OBVIOUS
<1>1. LogOK
  <2>1. <<>> \in Seq(Entries) /\ Len(<<>>) = 0
    BY EmptySeq
  <2>2. log = [k \in StreamKeys |-> <<>>]
    BY DEF StreamInit
  <2> QED
    BY <2>1, <2>2, MaxIdNat DEF LogOK
<1>2. AdapterOK(NoAdapter) /\ NoAdapter.trades = <<>> /\ ~NoAdapter.up
  BY <1>1, NoAdapterOK
<1>3. adapter = NoAdapter /\ fresh = NoAdapter
  BY DEF StreamInit
<1>4. AdapterOK(adapter) /\ AdapterOK(fresh) /\ fresh.trades = <<>> /\ ~adapter.up
  BY <1>2, <1>3, Zenon
<1>5. PlainOK
  <2>1. 0 \in 0..MaxNow /\ 1 \in 1..4
    BY StreamAssumption
  <2> QED
    BY <2>1 DEF StreamInit, PlainOK
<1>6. pc = "connect" /\ inLoop = FALSE /\ useRedis = FALSE /\ open = 0
  BY DEF StreamInit
<1>7. FromOK /\ ControlOK
  BY <1>4, <1>6 DEF FromOK, ControlOK
<1>8. OpenOK
  BY <1>4, <1>6 DEF OpenOK, One, Ended
<1> QED
  BY <1>1, <1>4, <1>5, <1>7, <1>8 DEF StreamInv

\* Steps that touch neither the streams nor the adapters.
LEMMA AdaptersStay ==
  ASSUME StreamInv, UNCHANGED <<log, adapter, fresh>>
  PROVE  LogOK' /\ AdapterOK(adapter)' /\ AdapterOK(fresh)'
<1>1. PICK a, b : a = adapter /\ b = fresh /\ AdapterOK(a) /\ AdapterOK(b)
  BY DEF StreamInv
<1>2. AdapterOK(adapter)'
  BY <1>1, AdapterStays
<1>3. AdapterOK(fresh)'
  BY <1>1, FreshStays
<1> QED
  BY <1>2, <1>3, LogStays DEF StreamInv

\* A new adapter in the place of one of them.
LEMMA AdaptersSet ==
  ASSUME StreamInv, NEW CONSTANT a, NEW CONSTANT b, AdapterOK(a), AdapterOK(b), log' = log, adapter' = a, fresh' = b
  PROVE  LogOK' /\ AdapterOK(adapter)' /\ AdapterOK(fresh)'
<1>1. AdapterOK(adapter)'
  BY AdapterStays
<1>2. AdapterOK(fresh)'
  BY FreshStays
<1> QED
  BY <1>1, <1>2, LogStays DEF StreamInv

\* Reading positions survive while streams and adapter stay.
LEMMA FromStays == StreamInv /\ UNCHANGED <<log, adapter, from, pc>> => FromOK'
BY DEF StreamInv, FromOK, Continues

\* The numbers of open clients.
LEMMA OpenFacts ==
  ASSUME StreamInv
  PROVE  /\ open \in 0..2 /\ adapter.up \in BOOLEAN
         /\ pc \notin Ended /\ adapter.up => open = 1 + One(pc = "seed")
         /\ pc \notin Ended /\ ~adapter.up => open = One(pc = "seed")
<1>1. open \in 0..2 /\ (pc \notin Ended => open = One(adapter.up) + One(pc = "seed"))
  BY DEF StreamInv, OpenOK
<1>2. adapter.up \in BOOLEAN
  BY UpBoolean DEF StreamInv
<1>3. One(pc = "seed") \in 0..1
  BY DEF One
<1> QED
  BY <1>1, <1>2, <1>3 DEF One

\* An entry is appended.
LEMMA PublishStep ==
  ASSUME StreamInv, NEW k \in StreamKeys, Publish(k)
  PROVE  StreamInv'
<1>1. LogOK /\ now \in 0..MaxNow
  BY DEF StreamInv, PlainOK
<1>2. "trade_tick" \in StreamKeys /\ "state_bundle" \in StreamKeys /\ (k = "trade_tick" \/ k = "state_bundle")
  BY StreamFacts
<1>3. PICK tt \in Nat, sb \in Nat : tt = Len(log["trade_tick"]) /\ sb = Len(log["state_bundle"])
  BY <1>1, <1>2, LogLength, MaxIdNat
<1>4. Len(log[k]) < MaxId
  <2>1. tt + sb < MaxEntries \/ (k = "trade_tick" /\ Len(log[k]) < MaxTrades)
    BY <1>3 DEF Publish
  <2>2. MaxEntries \in Nat /\ MaxTrades \in Nat
    BY StreamAssumption
  <2>3. Len(log[k]) = tt \/ Len(log[k]) = sb
    BY <1>2, <1>3
  <2> QED
    BY <2>1, <2>2, <2>3, MaxIdNat
<1>5. PICK kind \in Kinds(k) : log' = [log EXCEPT ![k] = Append(@, [kind |-> kind, ts |-> IF kind = "untimed" THEN -1 ELSE now])]
  BY DEF Publish
<1>6. PICK e \in Entries : e = [kind |-> kind, ts |-> IF kind = "untimed" THEN -1 ELSE now]
  <2>1. kind \in {"good", "untimed", "dropped", "rejected"}
    BY DEF Kinds
  <2>2. (IF kind = "untimed" THEN -1 ELSE now) \in Int
    BY <1>1
  <2> QED
    BY <2>1, <2>2 DEF Entries
<1>7. log' = [log EXCEPT ![k] = Append(@, e)]
  BY <1>5, <1>6
<1>8. /\ LogOK'
      /\ \A j \in StreamKeys : Len(log[j]) \in Nat /\ Len(log'[j]) \in Nat /\ Len(log[j]) <= Len(log'[j])
      /\ \A j \in StreamKeys : \A i \in 1..Len(log[j]) : log'[j][i] = log[j][i]
  BY <1>1, <1>4, <1>7, PublishKeeps
<1>9. PICK a, b : a = adapter /\ b = fresh /\ AdapterOK(a) /\ AdapterOK(b)
  BY DEF StreamInv
<1>10. AdapterOK(a)' /\ AdapterOK(b)'
  BY <1>1, <1>8, <1>9, PublishKeepsAdapter
<1>11. UNCHANGED <<production, enabled, redis, now, pc, inLoop, useRedis, adapter, fresh, seedAt, from, open, out>>
  BY DEF Publish, env
<1>12. AdapterOK(adapter)'
  BY <1>9, <1>10, <1>11 DEF AdapterOK, Within, Backed, GapFree
<1>13. AdapterOK(fresh)'
  BY <1>9, <1>10, <1>11 DEF AdapterOK, Within, Backed, GapFree
<1>14. FromOK'
  <2>1. ASSUME pc = "blocked" PROVE Continues(adapter, from)'
    <3>1. Continues(adapter, from)
      BY <2>1 DEF StreamInv, FromOK
    <3>2. ASSUME NEW j \in StreamKeys
          PROVE  from[j] \in 0..Len(log'[j]) /\ (adapter.lastId[j] # Latest => from[j] = adapter.lastId[j])
      <4>1. from[j] \in 0..Len(log[j]) /\ (adapter.lastId[j] # Latest => from[j] = adapter.lastId[j])
        BY <3>1 DEF Continues
      <4>2. Len(log[j]) \in Nat /\ Len(log'[j]) \in Nat /\ Len(log[j]) <= Len(log'[j])
        BY <1>8
      <4> QED
        BY <4>1, <4>2
    <3> QED
      BY <1>11, <3>2 DEF Continues
  <2> QED
    BY <1>11, <2>1 DEF FromOK
<1>15. PlainOK' /\ ControlOK' /\ OpenOK'
  BY <1>11 DEF StreamInv, PlainOK, ControlOK, OpenOK
<1> QED
  BY <1>8, <1>12, <1>13, <1>14, <1>15 DEF StreamInv

\* Connecting.
LEMMA ConnectStep == ASSUME StreamInv, Connect PROVE StreamInv'
<1>1. LogOK /\ PlainOK /\ ControlOK
  BY DEF StreamInv
<1>2. pc = "connect" /\ pc' = "seed" /\ seedAt' = 1 /\ open' = open + 1
      /\ UNCHANGED <<production, enabled, redis, log, now, inLoop, useRedis, adapter, from, out>>
  BY DEF Connect, world
<1>3. PICK b : b = MarkConnected([NoAdapter EXCEPT !.up = TRUE], TRUE)
  OBVIOUS
<1>4. AdapterOK(b) /\ b.trades = <<>> /\ b.up /\ b.connected
  BY <1>1, <1>3, ConnectedOK
<1>5. fresh' = b
  BY <1>3 DEF Connect
<1>6. PICK a : a = adapter /\ AdapterOK(a)
  BY DEF StreamInv
<1>7. LogOK' /\ AdapterOK(adapter)' /\ AdapterOK(fresh)'
  BY <1>2, <1>4, <1>5, <1>6, AdaptersSet
<1>8. PlainOK' /\ FromOK'
  BY <1>1, <1>2 DEF PlainOK, FromOK
<1>9. ControlOK'
  BY <1>1, <1>2, <1>4, <1>5 DEF ControlOK, Ended
<1>10. OpenOK'
  BY <1>2, OpenFacts DEF OpenOK, One, Ended
<1> QED
  BY <1>7, <1>8, <1>9, <1>10 DEF StreamInv

\* Redis does not answer.
LEMMA ConnectFailsStep == ASSUME StreamInv, ConnectFails PROVE StreamInv'
<1>1. PlainOK /\ ControlOK /\ OpenOK
  BY DEF StreamInv
<1>2. pc = "connect" /\ UNCHANGED <<production, enabled, redis, log, now, useRedis, adapter, fresh, seedAt, from, open>>
  BY DEF ConnectFails, world
<1>3. LogOK' /\ AdapterOK(adapter)' /\ AdapterOK(fresh)'
  BY <1>2, AdaptersStay
<1>4. \/ inLoop /\ pc' = "loop" /\ out' = out /\ inLoop' = TRUE
      \/ ~inLoop /\ enabled /\ production /\ pc' = "stopped" /\ out' = "stream_error" /\ inLoop' = FALSE
      \/ ~inLoop /\ pc' = "loop" /\ out' = "mock" /\ inLoop' = TRUE
  BY <1>1 DEF ConnectFails, PlainOK
<1>5. PlainOK' /\ FromOK'
  BY <1>1, <1>2, <1>4 DEF PlainOK, FromOK
<1>6. ControlOK'
  BY <1>1, <1>2, <1>4 DEF ControlOK, Ended
<1>7. OpenOK'
  BY <1>1, <1>2, <1>4 DEF OpenOK, One, Ended
<1> QED
  BY <1>3, <1>5, <1>6, <1>7 DEF StreamInv

\* Seeding one stream.
LEMMA SeedStep == ASSUME StreamInv, Seed PROVE StreamInv'
<1>1. LogOK /\ PlainOK /\ ControlOK /\ OpenOK
  BY DEF StreamInv
<1>2. /\ pc = "seed" /\ seedAt <= 3 /\ seedAt' = seedAt + 1
      /\ UNCHANGED <<production, enabled, redis, log, now, pc, inLoop, useRedis, adapter, from, open, out>>
  BY StreamFacts DEF Seed, world
<1>3. PICK a, b : a = adapter /\ b = fresh /\ AdapterOK(a) /\ AdapterOK(b)
  BY DEF StreamInv
<1>4. b.up /\ b.connected /\ b.trades = <<>>
  BY <1>1, <1>2, <1>3 DEF ControlOK
<1>5. PICK n \in StreamNames : n = StreamMap[seedAt].name /\ StreamMap[seedAt].key = KeyOf(n)
  <2>1. seedAt \in 1..3
    BY <1>1, <1>2 DEF PlainOK
  <2>2. seedAt = 1 \/ seedAt = 2 \/ seedAt = 3
    BY <2>1
  <2>3. /\ StreamMap[1].name = "trades" /\ StreamMap[1].key = "trade_tick"
        /\ StreamMap[2].name = "account" /\ StreamMap[2].key = "state_bundle"
        /\ StreamMap[3].name = "positions" /\ StreamMap[3].key = "state_bundle"
    BY DEF StreamMap
  <2> QED
    BY <2>2, <2>3, StreamFacts
<1>6. PICK i : i = Len(log[KeyOf(n)])
  OBVIOUS
<1>7. PICK v : v = Seeded(b, n, i)
  OBVIOUS
<1>8. AdapterOK(v) /\ v.up = b.up /\ v.connected /\ v.trades = <<>>
  BY <1>1, <1>3, <1>4, <1>6, <1>7, SeedOK
<1>9. fresh' = b \/ fresh' = v
  <2>1. PICK nm, ky : nm = StreamMap[seedAt].name /\ ky = StreamMap[seedAt].key
    OBVIOUS
  <2>2. fresh' = IF redis = "down" THEN fresh
                 ELSE [fresh EXCEPT !.cached[nm] = Len(log[ky]),
                                    !.lastId[ky] = IF Len(log[ky]) > 0 THEN Len(log[ky]) ELSE @,
                                    !.status[nm] = SeedStatus(nm, Len(log[ky]))]
    BY <2>1, Zenon DEF Seed
  <2>3. nm = n /\ ky = KeyOf(n) /\ Len(log[ky]) = i
    BY <1>5, <1>6, <2>1
  <2> QED
    BY <1>3, <1>7, <2>2, <2>3, Zenon DEF Seeded
<1>10. PICK w : fresh' = w /\ AdapterOK(w) /\ w.up /\ w.connected /\ w.trades = <<>>
  BY <1>3, <1>4, <1>8, <1>9
<1>11. LogOK' /\ AdapterOK(adapter)' /\ AdapterOK(fresh)'
  BY <1>2, <1>3, <1>10, AdaptersSet
<1>12. PlainOK' /\ FromOK'
  BY <1>1, <1>2 DEF PlainOK, FromOK
<1>13. ControlOK'
  BY <1>1, <1>2, <1>10 DEF ControlOK, Ended
<1>14. OpenOK'
  BY <1>1, <1>2 DEF OpenOK
<1> QED
  BY <1>11, <1>12, <1>13, <1>14 DEF StreamInv

\* The seeded adapter takes over.
LEMMA AdoptStep == ASSUME StreamInv, Adopt PROVE StreamInv'
<1>1. LogOK /\ PlainOK /\ ControlOK
  BY DEF StreamInv
<1>2. /\ pc = "seed" /\ adapter' = fresh /\ useRedis' = TRUE /\ pc' = (IF inLoop THEN "loop" ELSE "read") /\ fresh' = NoAdapter /\ seedAt' = 1
      /\ open' = (IF adapter.up THEN open - 1 ELSE open)
      /\ UNCHANGED <<production, enabled, redis, log, now, inLoop, from, out>>
  BY DEF Adopt, world
<1>3. PICK b, d : b = fresh /\ AdapterOK(b) /\ d = NoAdapter /\ AdapterOK(d) /\ d.trades = <<>> /\ b.up
  BY <1>1, <1>2, NoAdapterOK DEF StreamInv, ControlOK
<1>4. LogOK' /\ AdapterOK(adapter)' /\ AdapterOK(fresh)'
  BY <1>2, <1>3, AdaptersSet
<1>5. PlainOK' /\ FromOK'
  BY <1>1, <1>2 DEF PlainOK, FromOK
<1>6. ControlOK'
  BY <1>1, <1>2, <1>3 DEF ControlOK
<1>7. OpenOK'
  <2>1. open' = 1
    BY <1>2, OpenFacts DEF One, Ended
  <2>2. adapter'.up = TRUE
    BY <1>2, <1>3, UpBoolean
  <2> QED
    BY <1>2, <2>1, <2>2 DEF OpenOK, One
<1> QED
  BY <1>4, <1>5, <1>6, <1>7 DEF StreamInv

\* The client goes away.
LEMMA CancelStep == ASSUME StreamInv, Cancel PROVE StreamInv'
<1>1. LogOK /\ PlainOK /\ ControlOK
  BY DEF StreamInv
<1>2. /\ pc \in {"connect", "seed", "read", "blocked", "loop"} /\ adapter' = NoAdapter /\ fresh' = NoAdapter /\ seedAt' = 1
      /\ pc' = (IF inLoop /\ pc # "seed" THEN "cancelled" ELSE "cancelled_early")
      /\ open' = (IF inLoop /\ adapter.up THEN open - 1 ELSE open)
      /\ UNCHANGED <<production, enabled, redis, log, now, inLoop, useRedis, out>>
  BY DEF Cancel, world
<1>3. PICK d : d = NoAdapter /\ AdapterOK(d) /\ d.trades = <<>>
  BY <1>1, NoAdapterOK
<1>4. LogOK' /\ AdapterOK(adapter)' /\ AdapterOK(fresh)'
  BY <1>2, <1>3, AdaptersSet
<1>5. PlainOK' /\ FromOK'
  BY <1>1, <1>2 DEF PlainOK, FromOK
<1>6. ControlOK'
  BY <1>1, <1>2, <1>3 DEF ControlOK, Ended
<1>7. OpenOK'
  <2>1. open \in 0..2 /\ (adapter.up => open \in 1..2) /\ (pc # "seed" => open = IF adapter.up THEN 1 ELSE 0)
    BY <1>2, OpenFacts DEF One, Ended
  <2>2. pc' \in Ended
    BY <1>2 DEF Ended
  <2> QED
    BY <1>2, <2>1, <2>2, OpenFacts DEF OpenOK
<1> QED
  BY <1>4, <1>5, <1>6, <1>7 DEF StreamInv

\* Steps that change only what the loop does next, or Redis and the clock.
LEMMA ControlStep ==
  ASSUME StreamInv, PlainOK', FromOK', UNCHANGED <<production, enabled, log, adapter, fresh, inLoop, useRedis, open>>,
         pc \notin Ended, pc' \notin Ended, pc = "seed" <=> pc' = "seed",
         pc' \in {"read", "blocked"} => useRedis, pc' = "loop" => inLoop, out' = out \/ out' = "mock"
  PROVE  StreamInv'
<1>1. LogOK' /\ AdapterOK(adapter)' /\ AdapterOK(fresh)'
  BY AdaptersStay
<1>2. ControlOK /\ OpenOK
  BY DEF StreamInv
<1>3. ControlOK'
  BY <1>2 DEF ControlOK
<1>4. OpenOK'
  <2>1. One(pc' = "seed") = One(pc = "seed")
    BY DEF One
  <2>2. pc' # "cancelled" /\ open' \in 0..2
    BY <1>2 DEF OpenOK, Ended
  <2> QED
    BY <1>2, <2>1, <2>2 DEF OpenOK
<1> QED
  BY <1>1, <1>3, <1>4 DEF StreamInv

\* The event interval elapsed.
LEMMA ReadEventStep == ASSUME StreamInv, ReadEvent PROVE StreamInv'
<1>1. PlainOK' /\ FromOK'
  BY DEF StreamInv, PlainOK, FromOK, ReadEvent, world
<1> QED
  BY <1>1, ControlStep DEF ReadEvent, world, Ended

\* A synthetic event.
LEMMA MockEventStep == ASSUME StreamInv, MockEvent PROVE StreamInv'
<1>1. PlainOK' /\ FromOK'
  BY DEF StreamInv, PlainOK, FromOK, MockEvent, world
<1>2. inLoop
  BY DEF StreamInv, ControlOK, MockEvent
<1> QED
  BY <1>1, <1>2, ControlStep DEF MockEvent, world, Ended

\* The reconnect interval elapsed.
LEMMA ReconnectStep == ASSUME StreamInv, Reconnect PROVE StreamInv'
<1>1. PlainOK' /\ FromOK'
  BY DEF StreamInv, PlainOK, FromOK, Reconnect, world
<1> QED
  BY <1>1, ControlStep DEF Reconnect, world, Ended

\* A read that finds nothing waits at the ends of the streams.
LEMMA ReadBlocksStep == ASSUME StreamInv, ReadBlocks PROVE StreamInv'
<1>1. PlainOK'
  BY DEF StreamInv, PlainOK, ReadBlocks, world
<1>2. Continues(adapter, Start(adapter))
  BY StartContinues DEF StreamInv
<1>3. FromOK'
  <2>1. from' = Start(adapter) /\ log' = log /\ adapter' = adapter
    BY DEF ReadBlocks, world
  <2>2. PICK f : f = Start(adapter) /\ Continues(adapter, f)
    BY <1>2
  <2>3. Continues(adapter, from)'
    BY <2>1, <2>2 DEF Continues
  <2> QED
    BY <2>3 DEF FromOK
<1>4. useRedis
  BY DEF StreamInv, ControlOK, ReadBlocks
<1> QED
  BY <1>1, <1>3, <1>4, ControlStep DEF ReadBlocks, world, Ended

\* Redis goes down or comes back, time passes.
LEMMA WorldStep == ASSUME StreamInv, RedisFlips \/ Tick PROVE StreamInv'
<1>1. UNCHANGED <<production, enabled, log, pc, inLoop, useRedis, adapter, fresh, seedAt, from, open, out>> /\ pc \notin Ended
  BY DEF RedisFlips, Tick, env
<1>2. redis' \in {"up", "down"} /\ now' \in 0..MaxNow
  <2>1. MaxNow \in Nat /\ now \in 0..MaxNow /\ redis \in {"up", "down"}
    BY StreamAssumption DEF StreamInv, PlainOK
  <2> QED
    BY <2>1 DEF RedisFlips, Tick
<1>3. PlainOK'
  BY <1>1, <1>2 DEF StreamInv, PlainOK
<1>4. FromOK'
  BY <1>1, FromStays
<1>5. (pc' \in {"read", "blocked"} => useRedis) /\ (pc' = "loop" => inLoop)
  BY <1>1 DEF StreamInv, ControlOK
<1> QED
  BY <1>1, <1>3, <1>4, <1>5, ControlStep

\* The reads deliver what a sound adapter holds.
LEMMA ReadDelivers ==
  ASSUME StreamInv, ReadNow \/ ReadReturns \/ ReadFails
  PROVE  \E a : Deliver(a) /\ AdapterOK(a) /\ a.up = adapter.up
<1>1. LogOK /\ AdapterOK(adapter)
  BY DEF StreamInv
<1>2. CASE ReadNow
  <2>1. Continues(adapter, Start(adapter))
    BY <1>1, StartContinues
  <2>2. AdapterOK(Consumed(adapter, Start(adapter))) /\ Consumed(adapter, Start(adapter)).up = adapter.up
    BY <1>1, <2>1, ConsumedOK
  <2> QED
    BY <1>2, <2>2 DEF ReadNow
<1>3. CASE ReadReturns
  <2>1. Continues(adapter, from)
    BY <1>3 DEF ReadReturns, StreamInv, FromOK
  <2>2. AdapterOK(Consumed(adapter, from)) /\ Consumed(adapter, from).up = adapter.up
    BY <1>1, <2>1, ConsumedOK
  <2> QED
    BY <1>3, <2>2 DEF ReadReturns
<1>4. CASE ReadFails
  BY <1>1, <1>4, FailureOK DEF ReadFails
<1> QED
  BY <1>2, <1>3, <1>4

\* What follows a read.
LEMMA ReadStep == ASSUME StreamInv, ReadNow \/ ReadReturns \/ ReadFails PROVE StreamInv'
<1>1. UNCHANGED <<world, fresh, seedAt, open>> /\ pc \in {"read", "blocked"}
  BY DEF ReadNow, ReadReturns, ReadFails
<1>2. PICK a : Deliver(a) /\ AdapterOK(a) /\ a.up = adapter.up
  BY ReadDelivers
<1> QED
  BY <1>1, <1>2, DeliverKeeps

\* A health event.
LEMMA HealthStep == ASSUME StreamInv, HealthEvent PROVE StreamInv'
<1>1. /\ pc = "loop" /\ UNCHANGED <<production, enabled, redis, log, now, pc, inLoop, useRedis, fresh, seedAt, from, open, out>>
  BY DEF HealthEvent, world
<1>2. PICK o \in BOOLEAN : adapter' = HealthEvaluated(adapter, o)
  BY DEF HealthEvent
<1>3. PICK a, b : a = HealthEvaluated(adapter, o) /\ AdapterOK(a) /\ a.up = adapter.up /\ b = fresh /\ AdapterOK(b)
  BY EvaluatedOK DEF StreamInv
<1>4. LogOK' /\ AdapterOK(adapter)' /\ AdapterOK(fresh)'
  BY <1>1, <1>2, <1>3, AdaptersSet
<1>5. adapter'.up = adapter.up
  BY <1>2, <1>3
<1>6. PlainOK' /\ FromOK'
  BY <1>1 DEF StreamInv, PlainOK, FromOK
<1>7. ControlOK'
  BY <1>1, <1>5 DEF StreamInv, ControlOK
<1>8. OpenOK'
  BY <1>1, <1>5 DEF StreamInv, OpenOK
<1> QED
  BY <1>4, <1>6, <1>7, <1>8 DEF StreamInv

\* Every step of the generator and of its surroundings keeps the invariant.
LEMMA StreamInvStep == StreamInv /\ [StreamNext]_streamVars => StreamInv'
<1> SUFFICES ASSUME StreamInv, [StreamNext]_streamVars PROVE StreamInv'
  OBVIOUS
<1>1. CASE UNCHANGED streamVars
  <2>1. LogOK' /\ AdapterOK(adapter)' /\ AdapterOK(fresh)'
    BY <1>1, AdaptersStay DEF streamVars
  <2>2. FromOK'
    BY <1>1, FromStays DEF streamVars
  <2>3. PlainOK' /\ ControlOK' /\ OpenOK'
    BY <1>1 DEF streamVars, StreamInv, PlainOK, ControlOK, OpenOK
  <2> QED
    BY <2>1, <2>2, <2>3 DEF StreamInv
<1>2. CASE StreamOver
  BY <1>1, <1>2 DEF StreamOver
<1>3. CASE Connect \/ ConnectFails \/ Seed \/ Adopt
  BY <1>3, ConnectStep, ConnectFailsStep, SeedStep, AdoptStep
<1>4. CASE ReadEvent \/ ReadNow \/ ReadBlocks \/ ReadReturns \/ ReadFails \/ Reconnect
  BY <1>4, ReadEventStep, ReadStep, ReadBlocksStep, ReconnectStep
<1>5. CASE MockEvent \/ HealthEvent \/ Cancel \/ RedisFlips \/ Tick
  BY <1>5, MockEventStep, HealthStep, CancelStep, WorldStep
<1>6. CASE \E k \in StreamKeys : Publish(k)
  BY <1>6, PublishStep
<1> QED
  BY <1>1, <1>2, <1>3, <1>4, <1>5, <1>6 DEF StreamNext, Progress

\* The invariant of a stream, whatever the bounds.
THEOREM StreamInvariant == StreamSpec => []StreamInv
BY StreamInvInit, StreamInvStep, PTL DEF StreamSpec

\* The variables of a stream keep their types, and its adapter never caches an
\* entry that is not in its stream (RedisStreamAdapter, StreamHealthEntry).
THEOREM StreamTypeCorrect == StreamSpec => []StreamTypeOK
<1>1. StreamInv => StreamTypeOK
  BY DEF StreamInv, PlainOK, OpenOK, AdapterOK, Within, StreamTypeOK
<1> QED
  BY <1>1, StreamInvariant, PTL

\* For any number of entries, any read size and any capacity of the buffer:
\* the trades shown have no gap, what is reported live is backed by an entry
\* on a connection that never failed, and a stream cancelled inside its loop
\* leaves no Redis client open (tradehud_event_stream, RedisStreamAdapter,
\* StreamHealthTracker).
THEOREM StreamAlwaysShowsRedis == StreamSpec => []StreamShowsRedis
<1>1. ASSUME StreamInv PROVE StreamShowsRedis
  <2>1. TradesWithoutGap
    BY <1>1 DEF StreamInv, AdapterOK, GapFree, TradesWithoutGap
  <2>2. LiveIsBacked
    BY <1>1 DEF StreamInv, AdapterOK, Backed, LiveIsBacked
  <2>3. CancelledClosesRedis
    BY <1>1 DEF StreamInv, OpenOK, CancelledClosesRedis
  <2> QED
    BY <2>1, <2>2, <2>3 DEF StreamShowsRedis
<1> QED
  BY <1>1, StreamInvariant, PTL

\* A snapshot is made of the adapter and its streams alone.
LEMMA SnapshotStays == ASSUME NEW CONSTANT a, adapter' = a, log' = log PROVE Snapshot(adapter)' = Snapshot(a)
BY DEF Snapshot, Parsed

\* When an event turns synthetic.
LEMMA SyntheticStep ==
  ASSUME StreamInv, [StreamNext]_streamVars, production, enabled, out' = "mock", out' # out
  PROVE  adapter'.up /\ Snapshot(adapter)' = "none"
<1>1. ControlOK /\ PlainOK
  BY DEF StreamInv
<1>2. ~ UNCHANGED streamVars
  BY DEF streamVars
<1>3. CASE ReadNow \/ ReadReturns \/ ReadFails
  <2>1. PICK a : Deliver(a) /\ a.up = adapter.up
    BY <1>3, ReadDelivers
  <2>2. log' = log /\ pc \in {"read", "blocked"}
    BY <1>3 DEF ReadNow, ReadReturns, ReadFails, world
  <2>3. Snapshot(a) \notin {"raises", "redis"}
    BY <2>1 DEF Deliver
  <2>4. adapter' = a
    BY <2>1, <2>3 DEF Deliver
  <2>5. Snapshot(a) = "none"
    BY <2>3 DEF Snapshot
  <2>6. Snapshot(adapter)' = "none"
    BY <2>2, <2>4, <2>5, SnapshotStays
  <2>7. adapter.up
    BY <1>1, <2>2 DEF ControlOK, Ended
  <2> QED
    BY <2>1, <2>4, <2>6, <2>7
<1>4. CASE MockEvent
  BY <1>1, <1>4 DEF MockEvent, ControlOK
<1>5. CASE ConnectFails
  BY <1>5 DEF ConnectFails
<1>6. CASE Connect \/ Seed \/ Adopt \/ ReadEvent \/ ReadBlocks \/ Reconnect
  BY <1>6 DEF Connect, Seed, Adopt, ReadEvent, ReadBlocks, Reconnect
<1>7. CASE HealthEvent \/ Cancel \/ RedisFlips \/ Tick \/ StreamOver
  BY <1>2, <1>7 DEF HealthEvent, Cancel, RedisFlips, Tick, StreamOver
<1>8. CASE \E k \in StreamKeys : Publish(k)
  BY <1>8 DEF Publish
<1> QED
  BY <1>2, <1>3, <1>4, <1>5, <1>6, <1>7, <1>8 DEF StreamNext, Progress

\* In staging and production a stream with a configured feed turns synthetic
\* only while it holds an adapter with nothing to show (tradehud_sse.py).
THEOREM SyntheticAlwaysForWantOfData == StreamSpec => SyntheticOnlyWithoutData
<1>1. StreamInv /\ [StreamNext]_streamVars
      => [(production /\ enabled /\ out' = "mock" /\ out' # out) =>
             adapter'.up /\ Snapshot(adapter)' = "none"]_streamVars
  BY SyntheticStep
<1> QED
  BY <1>1, StreamInvariant, PTL DEF StreamSpec, SyntheticOnlyWithoutData

(***************************************************************************)
(* MCDecisions, stream entries.  A parser reads a field as it was sent or  *)
(* not at all, and fills in a value of its own only where no evidence is   *)
(* shown: for each of the thirteen streams, field by field, for every      *)
(* entry that has the fields of its stream.                                *)
(***************************************************************************)

\* The fields of two functions.
LEMMA Both ==
  ASSUME NEW f, NEW g
  PROVE  /\ DOMAIN (f ++ g) = DOMAIN f \cup DOMAIN g
         /\ \A x \in DOMAIN f : (f ++ g)[x] = f[x]
         /\ \A x \in DOMAIN g \ DOMAIN f : (f ++ g)[x] = g[x]
         /\ \A x \in DOMAIN (f ++ g) : (x \in DOMAIN f /\ (f ++ g)[x] = f[x]) \/ (x \in DOMAIN g /\ (f ++ g)[x] = g[x])
BY DEF ++

Words == {"word", "odd", "absent"}
\* An entry that Init may pose: it has the fields of its stream, and those of a
\* Literal type or a list have one of the values listed for them.
Posed(e) ==
  /\ e.stream \in DOMAIN Values /\ DOMAIN e.fields = DOMAIN Values[e.stream]
  /\ \A f \in DOMAIN e.fields : Values[e.stream][f] \in {Words, Containers} => e.fields[f] \in Values[e.stream][f]
\* What a parser reads of it: a field as it was sent, or nothing.
Reads(d, e) == \A f \in DOMAIN e.fields : d[f] = e.fields[f] \/ d[f] = "absent"
FilledWithZero(s) == {"filled_qty", "tick_to_signal_us", "signal_to_gate_us", "gate_to_execution_us"} \cup (IF s = "book_l2" THEN {"spread"} ELSE {})
EvidenceOf(s) == IF s \in DOMAIN Evidence THEN Evidence[s] ELSE {}
OddText(e) ==
  \E f \in DOMAIN e.fields : f \in {"side", "direction", "decision", "status", "kind", "lane", "levels"} /\ e.fields[f] \in {"odd", "{", "{}"}
ZeroSent(e, f) == f \in FilledWithZero(e.stream) \/ \E g \in Sources(f) \cap DOMAIN e.fields : e.fields[g] = "zero"
\* What a field may show.
Fit(e, model, f, v) == /\ v = "zero" => ZeroSent(e, f)
                       /\ v = "made up" => f \notin EvidenceOf(e.stream)
                       /\ v = "unlisted" => OddText(e)
                       /\ v = "none" => f \notin model
Fits(e, model, shown) == \A f \in DOMAIN shown : Fit(e, model, f, shown[f])
\* What a parser may answer.
Honest(e, r) ==
  /\ r.outcome \in {"record", "dropped", "empty", "raised"}
  /\ r.outcome = "record" => /\ EvidenceOf(e.stream) \subseteq DOMAIN r.shown
                             /\ \A f \in DOMAIN r.shown : /\ r.shown[f] = "zero" => ZeroSent(e, f)
                                                          /\ r.shown[f] = "made up" => f \notin EvidenceOf(e.stream)
  /\ r.outcome = "raised" => OddText(e)

\* Fields that fit one by one fit together.
LEMMA BothFit ==
  ASSUME NEW e, NEW model, NEW a, NEW b, Fits(e, model, a), Fits(e, model, b)
  PROVE  Fits(e, model, a ++ b)
<1>1. ASSUME NEW x \in DOMAIN (a ++ b) PROVE Fit(e, model, x, (a ++ b)[x])
  BY <1>1, Both DEF Fits
<1> QED
  BY <1>1 DEF Fits

\* A record made of fields that fit, evidence included, is honest.
LEMMA RecordHonest ==
  ASSUME NEW e, NEW model, NEW shown, Fits(e, model, shown), EvidenceOf(e.stream) \subseteq DOMAIN shown
  PROVE  Honest(e, Record(model, shown))
<1>1. CASE \E f \in DOMAIN shown : shown[f] = "unlisted" \/ (f \in model /\ shown[f] = "none")
  <2>1. Record(model, shown) = Raised
    BY <1>1 DEF Record
  <2>2. OddText(e)
    BY <1>1 DEF Fits, Fit
  <2> QED
    BY <2>1, <2>2 DEF Honest, Raised
<1>2. CASE ~\E f \in DOMAIN shown : shown[f] = "unlisted" \/ (f \in model /\ shown[f] = "none")
  <2>1. PICK r : r = Record(model, shown)
    OBVIOUS
  <2>2. r = [outcome |-> "record", shown |-> shown]
    BY <1>2, <2>1 DEF Record
  <2>3. r.outcome = "record" /\ r.shown = shown
    BY <2>2
  <2>4. \A f \in DOMAIN shown : (shown[f] = "zero" => ZeroSent(e, f)) /\ (shown[f] = "made up" => f \notin EvidenceOf(e.stream))
    BY DEF Fits, Fit
  <2> QED
    BY <2>1, <2>3, <2>4 DEF Honest
<1> QED
  BY <1>1, <1>2

\* An entry that is left out.
LEMMA LeftOut == \A e : Honest(e, Dropped) /\ Honest(e, Empty)
BY DEF Honest, Dropped, Empty

\* A field is among its own sources.
LEMMA OwnSource == \A f : f \in Sources(f)
BY DEF Sources

\* Numbers and texts as they were sent.
LEMMA NumbersFit ==
  ASSUME NEW e, NEW d, Reads(d, e), NEW model, NEW fs, fs \subseteq DOMAIN e.fields,
         \A f \in fs \cap model : Number(d[f]) # "none"
  PROVE  Fits(e, model, Numbers(d, fs)) /\ DOMAIN Numbers(d, fs) = fs
<1>1. DOMAIN Numbers(d, fs) = fs
  BY DEF Numbers
<1>2. ASSUME NEW f \in fs PROVE Fit(e, model, f, Number(d[f]))
  <2>1. Number(d[f]) \in {"zero", "number", "none"} /\ (Number(d[f]) = "zero" => d[f] = "zero")
    BY DEF Number
  <2>2. d[f] = "zero" => ZeroSent(e, f)
    BY OwnSource DEF Reads, ZeroSent
  <2> QED
    BY <2>1, <2>2 DEF Fit
<1>3. \A f \in fs : Numbers(d, fs)[f] = Number(d[f])
  BY DEF Numbers
<1> QED
  BY <1>1, <1>2, <1>3 DEF Fits
LEMMA TextsFit ==
  ASSUME NEW e, NEW d, NEW model, NEW fs, \A f \in fs \cap model : d[f] # "absent"
  PROVE  Fits(e, model, Texts(d, fs)) /\ DOMAIN Texts(d, fs) = fs
BY DEF Fits, Fit, Texts, Text
LEMMA DefaultsFit ==
  ASSUME NEW e, NEW d, NEW model, NEW fs, fs \cap EvidenceOf(e.stream) = {}
  PROVE  Fits(e, model, TextsOrDefault(d, fs)) /\ DOMAIN TextsOrDefault(d, fs) = fs
BY DEF Fits, Fit, TextsOrDefault, Text, Or

\* The fields of a stream.
Three(a, b, c) == a \cup b \cup c
LEMMA FieldIs ==
  ASSUME NEW numbers, NEW texts, NEW words
  PROVE  /\ DOMAIN Field(numbers, texts, words) = Three(numbers, texts, words)
         /\ \A f \in words \ (numbers \cup texts) : Field(numbers, texts, words)[f] = Words
<1>1. PICK n, t, w : n = [f \in numbers |-> {"number", "zero", "absent", "odd"}] /\ t = [f \in texts |-> {"odd", "absent"}]
                     /\ w = [f \in words |-> {"word", "odd", "absent"}]
  OBVIOUS
<1>2. Field(numbers, texts, words) = (n ++ t) ++ w
  BY <1>1 DEF Field
<1>3. DOMAIN n = numbers /\ DOMAIN t = texts /\ DOMAIN w = words /\ \A f \in words : w[f] = Words
  BY <1>1 DEF Words
<1>4. DOMAIN (n ++ t) = numbers \cup texts
  BY <1>3, Both
<1>5. DOMAIN ((n ++ t) ++ w) = numbers \cup texts \cup words
  BY <1>3, <1>4, Both
<1>6. \A f \in words \ (numbers \cup texts) : ((n ++ t) ++ w)[f] = w[f]
  <2>1. PICK nt : nt = n ++ t
    OBVIOUS
  <2>2. \A f \in DOMAIN w \ DOMAIN nt : (nt ++ w)[f] = w[f]
    BY Both
  <2> QED
    BY <1>3, <1>4, <2>1, <2>2
<1> QED
  BY <1>2, <1>3, <1>5, <1>6 DEF Three

LEMMA StreamsAre ==
  DOMAIN Values = {"book_top", "book_l2", "trade", "account", "positions", "open_orders", "signal", "gate",
                   "trade_action", "execution", "quant_levels", "tick_to_trade", "runtime_health"}
BY DEF Values
LEMMA ListedFit ==
  ASSUME NEW e, NEW d, Reads(d, e), NEW model, NEW f \in {"side", "direction", "decision", "status"},
         f \in DOMAIN e.fields, e.fields[f] \in Words, f \in EvidenceOf(e.stream) => d[f] # "absent"
  PROVE  Fit(e, model, f, Listed(d[f]))
BY DEF Fit, Listed, OddText, Reads, Words

LEMMA FieldsPosed ==
  ASSUME NEW e, Posed(e), NEW ns, NEW ts, NEW ws, Values[e.stream] = Field(ns, ts, ws)
  PROVE  /\ DOMAIN e.fields = ns \cup ts \cup ws
         /\ \A f \in ws \ (ns \cup ts) : e.fields[f] \in Words
<1>1. /\ DOMAIN Field(ns, ts, ws) = Three(ns, ts, ws)
      /\ \A f \in ws \ (ns \cup ts) : Field(ns, ts, ws)[f] = Words
  BY FieldIs
<1> QED
  BY <1>1 DEF Posed, Three

\* Two, three and four groups of fields make a record.
LEMMA TwoHonest ==
  ASSUME NEW e, NEW model, NEW a, NEW b, Fits(e, model, a), Fits(e, model, b),
         EvidenceOf(e.stream) \subseteq DOMAIN a \cup DOMAIN b
  PROVE  Honest(e, Record(model, a ++ b))
<1>1. PICK ab : ab = a ++ b
  OBVIOUS
<1>2. Fits(e, model, ab) /\ DOMAIN ab = DOMAIN a \cup DOMAIN b
  BY <1>1, BothFit, Both
<1> QED
  BY <1>1, <1>2, RecordHonest
LEMMA ThreeHonest ==
  ASSUME NEW e, NEW model, NEW a, NEW b, NEW c, Fits(e, model, a), Fits(e, model, b), Fits(e, model, c),
         EvidenceOf(e.stream) \subseteq DOMAIN a \cup DOMAIN b \cup DOMAIN c
  PROVE  Honest(e, Record(model, (a ++ b) ++ c))
<1>1. PICK ab : ab = a ++ b
  OBVIOUS
<1>2. Fits(e, model, ab) /\ DOMAIN ab = DOMAIN a \cup DOMAIN b
  BY <1>1, BothFit, Both
<1> QED
  BY <1>1, <1>2, TwoHonest
LEMMA FourHonest ==
  ASSUME NEW e, NEW model, NEW a, NEW b, NEW c, NEW x, Fits(e, model, a), Fits(e, model, b), Fits(e, model, c), Fits(e, model, x),
         EvidenceOf(e.stream) \subseteq DOMAIN a \cup DOMAIN b \cup DOMAIN c \cup DOMAIN x
  PROVE  Honest(e, Record(model, ((a ++ b) ++ c) ++ x))
<1>1. PICK ab : ab = a ++ b
  OBVIOUS
<1>2. Fits(e, model, ab) /\ DOMAIN ab = DOMAIN a \cup DOMAIN b
  BY <1>1, BothFit, Both
<1> QED
  BY <1>1, <1>2, ThreeHonest
\* The same for a stream that has more fields.
LEMMA MoreFieldsPosed ==
  ASSUME NEW e, Posed(e), NEW h, NEW ns, NEW ts, NEW ws, Values[e.stream] = h ++ Field(ns, ts, ws)
  PROVE  /\ ns \cup ts \cup ws \subseteq DOMAIN e.fields
         /\ \A f \in ws \ (ns \cup ts) : f \notin DOMAIN h => e.fields[f] \in Words
         /\ \A f \in DOMAIN h : f \in DOMAIN e.fields /\ (h[f] = Containers => e.fields[f] \in Containers)
<1>1. PICK y : y = Field(ns, ts, ws)
  OBVIOUS
<1>2. DOMAIN y = Three(ns, ts, ws) /\ \A f \in ws \ (ns \cup ts) : y[f] = Words
  BY <1>1, FieldIs
<1>3. PICK hy : hy = h ++ y
  OBVIOUS
<1>4. /\ DOMAIN hy = DOMAIN h \cup DOMAIN y
      /\ \A z \in DOMAIN h : hy[z] = h[z]
      /\ \A z \in DOMAIN y \ DOMAIN h : hy[z] = y[z]
  <2>1. DOMAIN (h ++ y) = DOMAIN h \cup DOMAIN y
    BY Both
  <2>2. \A z \in DOMAIN h : (h ++ y)[z] = h[z]
    BY Both
  <2>3. \A z \in DOMAIN y \ DOMAIN h : (h ++ y)[z] = y[z]
    BY Both
  <2> QED
    BY <1>3, <2>1, <2>2, <2>3
<1>5. /\ DOMAIN e.fields = DOMAIN hy
      /\ \A f \in DOMAIN hy : hy[f] \in {Words, Containers} => e.fields[f] \in hy[f]
  BY <1>1, <1>3 DEF Posed
<1>6. \A f : f \in DOMAIN y <=> f \in ns \cup ts \cup ws
  BY <1>2 DEF Three
<1>7. ASSUME NEW f \in ws \ (ns \cup ts), f \notin DOMAIN h PROVE e.fields[f] \in Words
  <2>1. f \in DOMAIN y /\ y[f] = Words
    BY <1>2, <1>6
  <2>2. hy[f] = Words /\ f \in DOMAIN hy
    BY <1>4, <1>7, <2>1
  <2> QED
    BY <1>5, <2>2
<1> QED
  BY <1>4, <1>5, <1>6, <1>7

\* A number, or the parser's own.
LEMMA OrFit ==
  ASSUME NEW e, NEW d, NEW model, NEW fs, fs \cap EvidenceOf(e.stream) = {}
  PROVE  Fits(e, model, [f \in fs |-> Or(Number(d[f]), "made up")]) /\ DOMAIN [f \in fs |-> Or(Number(d[f]), "made up")] = fs
BY DEF Fits, Fit, Or, Number
\* What a number that reads as zero was sent as.
LEMMA ZeroRead ==
  ASSUME NEW e, NEW d, Reads(d, e), NEW g \in DOMAIN e.fields, NEW f, g \in Sources(f), Number(d[g]) = "zero"
  PROVE  ZeroSent(e, f)
BY DEF Number, Reads, ZeroSent

LEMMA SignalHonest ==
  ASSUME NEW e, Posed(e), e.stream = "signal", NEW d, Reads(d, e)
  PROVE  Honest(e, parse_signal(d))
<1>1. PICK numbers, texts, words :
        /\ numbers = {"confidence_score", "target_hint", "invalidation_hint", "size_hint", "ts_event_ns"}
        /\ texts = {"signal_id", "symbol", "feature_hash", "context_hash", "policy_hash", "graph_trace_hash", "preview_note"}
        /\ words = {"direction"}
  OBVIOUS
<1>2. Values[e.stream] = Field(numbers, texts, words)
  BY <1>1 DEF Values
<1>3. numbers \cup texts \cup words \subseteq DOMAIN e.fields /\ e.fields["direction"] \in Words
  <2>1. DOMAIN e.fields = numbers \cup texts \cup words /\ \A f \in words \ (numbers \cup texts) : e.fields[f] \in Words
    BY <1>2, FieldsPosed
  <2> QED
    BY <1>1, <2>1
<1>4. EvidenceOf(e.stream) = {"confidence_score", "ts_event_ns"}
  BY DEF EvidenceOf, Evidence
<1>5. CASE Missing(d, {"confidence_score", "ts_event_ns"})
  BY <1>5, LeftOut DEF parse_signal
<1>6. CASE ~(Missing(d, {"confidence_score", "ts_event_ns"}))
  <2>1. PICK model : model = StrategySignalPreviewModel
    OBVIOUS
  <2>2. PICK fa, fb :
          /\ fa = {"confidence_score", "target_hint", "invalidation_hint", "size_hint", "ts_event_ns"}
          /\ fb = {"signal_id", "symbol", "feature_hash", "context_hash", "policy_hash", "graph_trace_hash", "preview_note"}
    OBVIOUS
  <2>3. PICK a, b, c :
          /\ a = Numbers(d, fa)
          /\ b = TextsOrDefault(d, fb)
          /\ c = [direction |-> Listed(d["direction"])]
    OBVIOUS
  <2>4. parse_signal(d) = Record(model, (a ++ b) ++ c)
    BY <1>6, <2>1, <2>2, <2>3 DEF parse_signal
  <2>5. Fits(e, model, a) /\ DOMAIN a = fa
    <3>1. fa \subseteq DOMAIN e.fields
      BY <1>1, <1>3, <2>2
    <3>2. \A f \in fa \cap model : Number(d[f]) # "none"
      BY <1>6, <2>1, <2>2 DEF Missing, StrategySignalPreviewModel
    <3>3. Fits(e, model, Numbers(d, fa)) /\ DOMAIN Numbers(d, fa) = fa
      BY <3>1, <3>2, NumbersFit
    <3> QED
      BY <2>3, <3>3
  <2>6. Fits(e, model, b) /\ DOMAIN b = fb
    <3>1. fb \cap EvidenceOf(e.stream) = {}
      BY <1>4, <2>2
    <3> QED
      BY <2>3, <3>1, DefaultsFit
  <2>7. Fits(e, model, c) /\ DOMAIN c = {"direction"}
    <3>1. /\ DOMAIN c = {"direction"}
          /\ c["direction"] = Listed(d["direction"])
      BY <2>3
    <3>2. Fit(e, model, "direction", Listed(d["direction"]))
      BY <1>1, <1>3, <1>4, <1>6, ListedFit
    <3> QED
      BY <3>1, <3>2 DEF Fits
  <2>8. EvidenceOf(e.stream) \subseteq DOMAIN a \cup DOMAIN b \cup DOMAIN c
    BY <1>4, <2>2, <2>5, <2>6, <2>7
  <2> QED
    BY <2>4, <2>5, <2>6, <2>7, <2>8, ThreeHonest
<1> QED
  BY <1>5, <1>6

LEMMA GateHonest ==
  ASSUME NEW e, Posed(e), e.stream = "gate", NEW d, Reads(d, e)
  PROVE  Honest(e, parse_gate(d))
<1>1. PICK numbers, texts, words :
        /\ numbers = {"confidence_delta", "size_modifier", "target_hint", "invalidation_hint", "ts_event_ns"}
        /\ texts = {"decision_id", "reason_code", "gate_decision_hash", "source_signal_hash", "first_blocking_gate"}
        /\ words = {"decision"}
  OBVIOUS
<1>2. Values[e.stream] = Field(numbers, texts, words)
  BY <1>1 DEF Values
<1>3. numbers \cup texts \cup words \subseteq DOMAIN e.fields /\ e.fields["decision"] \in Words
  <2>1. DOMAIN e.fields = numbers \cup texts \cup words /\ \A f \in words \ (numbers \cup texts) : e.fields[f] \in Words
    BY <1>2, FieldsPosed
  <2> QED
    BY <1>1, <2>1
<1>4. EvidenceOf(e.stream) = {"decision", "ts_event_ns"}
  BY DEF EvidenceOf, Evidence
<1>5. CASE d["decision"] = "absent" \/ Missing(d, {"ts_event_ns"})
  BY <1>5, LeftOut DEF parse_gate
<1>6. CASE ~(d["decision"] = "absent" \/ Missing(d, {"ts_event_ns"}))
  <2>1. PICK model : model = GateDecisionModel
    OBVIOUS
  <2>2. PICK fa, fb, fc :
          /\ fa = {"confidence_delta", "target_hint", "invalidation_hint", "ts_event_ns"}
          /\ fb = {"decision_id", "reason_code", "gate_decision_hash", "source_signal_hash"}
          /\ fc = {"first_blocking_gate"}
    OBVIOUS
  <2>3. PICK a, b, c, x :
          /\ a = Numbers(d, fa)
          /\ b = TextsOrDefault(d, fb)
          /\ c = Texts(d, fc)
          /\ x = [decision |-> Listed(d["decision"]), size_modifier |-> Or(Number(d["size_modifier"]), "made up")]
    OBVIOUS
  <2>4. parse_gate(d) = Record(model, ((a ++ b) ++ c) ++ x)
    BY <1>6, <2>1, <2>2, <2>3 DEF parse_gate
  <2>5. Fits(e, model, a) /\ DOMAIN a = fa
    <3>1. fa \subseteq DOMAIN e.fields
      BY <1>1, <1>3, <2>2
    <3>2. \A f \in fa \cap model : Number(d[f]) # "none"
      BY <1>6, <2>1, <2>2 DEF Missing, GateDecisionModel
    <3>3. Fits(e, model, Numbers(d, fa)) /\ DOMAIN Numbers(d, fa) = fa
      BY <3>1, <3>2, NumbersFit
    <3> QED
      BY <2>3, <3>3
  <2>6. Fits(e, model, b) /\ DOMAIN b = fb
    <3>1. fb \cap EvidenceOf(e.stream) = {}
      BY <1>4, <2>2
    <3> QED
      BY <2>3, <3>1, DefaultsFit
  <2>7. Fits(e, model, c) /\ DOMAIN c = fc
    <3>1. \A f \in fc \cap model : d[f] # "absent"
      BY <1>6, <2>1, <2>2 DEF GateDecisionModel
    <3> QED
      BY <2>3, <3>1, TextsFit
  <2>8. Fits(e, model, x) /\ DOMAIN x = {"decision", "size_modifier"}
    <3>1. /\ DOMAIN x = {"decision", "size_modifier"}
          /\ x["decision"] = Listed(d["decision"])
          /\ x["size_modifier"] = Or(Number(d["size_modifier"]), "made up")
      BY <2>3
    <3>2. Fit(e, model, "decision", Listed(d["decision"]))
      BY <1>1, <1>3, <1>4, <1>6, ListedFit
    <3>3. Fit(e, model, "size_modifier", Or(Number(d["size_modifier"]), "made up"))
      BY <1>4 DEF Fit, Or, Number, Text
    <3> QED
      BY <3>1, <3>2, <3>3 DEF Fits
  <2>9. EvidenceOf(e.stream) \subseteq DOMAIN a \cup DOMAIN b \cup DOMAIN c \cup DOMAIN x
    BY <1>4, <2>2, <2>5, <2>6, <2>7, <2>8
  <2> QED
    BY <2>4, <2>5, <2>6, <2>7, <2>8, <2>9, FourHonest
<1> QED
  BY <1>5, <1>6

LEMMA TradeActionHonest ==
  ASSUME NEW e, Posed(e), e.stream = "trade_action", NEW d, Reads(d, e)
  PROVE  Honest(e, parse_trade_action(d))
<1>1. PICK numbers, texts, words :
        /\ numbers = {"price", "qty", "ts_event_ns"}
        /\ texts = {"action_id", "created_by", "action", "trade_action_hash", "source_gate_decision_hash"}
        /\ words = {"side"}
  OBVIOUS
<1>2. Values[e.stream] = Field(numbers, texts, words)
  BY <1>1 DEF Values
<1>3. numbers \cup texts \cup words \subseteq DOMAIN e.fields /\ e.fields["side"] \in Words
  <2>1. DOMAIN e.fields = numbers \cup texts \cup words /\ \A f \in words \ (numbers \cup texts) : e.fields[f] \in Words
    BY <1>2, FieldsPosed
  <2> QED
    BY <1>1, <2>1
<1>4. EvidenceOf(e.stream) = {"action", "price", "qty", "trade_action_hash", "source_gate_decision_hash", "ts_event_ns"}
  BY DEF EvidenceOf, Evidence
<1>5. CASE (\E f \in {"action", "trade_action_hash", "source_gate_decision_hash"} : d[f] = "absent") \/ Missing(d, {"price", "qty", "ts_event_ns"})
  BY <1>5, LeftOut DEF parse_trade_action
<1>6. CASE ~((\E f \in {"action", "trade_action_hash", "source_gate_decision_hash"} : d[f] = "absent") \/ Missing(d, {"price", "qty", "ts_event_ns"}))
  <2>1. PICK model : model = TradeActionEvidenceModel
    OBVIOUS
  <2>2. PICK fa, fb, fc :
          /\ fa = {"price", "qty", "ts_event_ns"}
          /\ fb = {"action_id", "created_by"}
          /\ fc = {"action", "trade_action_hash", "source_gate_decision_hash"}
    OBVIOUS
  <2>3. PICK a, b, c, x :
          /\ a = Numbers(d, fa)
          /\ b = TextsOrDefault(d, fb)
          /\ c = Texts(d, fc)
          /\ x = [side |-> Listed(d["side"])]
    OBVIOUS
  <2>4. parse_trade_action(d) = Record(model, ((a ++ b) ++ c) ++ x)
    BY <1>6, <2>1, <2>2, <2>3 DEF parse_trade_action
  <2>5. Fits(e, model, a) /\ DOMAIN a = fa
    <3>1. fa \subseteq DOMAIN e.fields
      BY <1>1, <1>3, <2>2
    <3>2. \A f \in fa \cap model : Number(d[f]) # "none"
      BY <1>6, <2>1, <2>2 DEF Missing, TradeActionEvidenceModel
    <3>3. Fits(e, model, Numbers(d, fa)) /\ DOMAIN Numbers(d, fa) = fa
      BY <3>1, <3>2, NumbersFit
    <3> QED
      BY <2>3, <3>3
  <2>6. Fits(e, model, b) /\ DOMAIN b = fb
    <3>1. fb \cap EvidenceOf(e.stream) = {}
      BY <1>4, <2>2
    <3> QED
      BY <2>3, <3>1, DefaultsFit
  <2>7. Fits(e, model, c) /\ DOMAIN c = fc
    <3>1. \A f \in fc \cap model : d[f] # "absent"
      BY <1>6, <2>1, <2>2 DEF TradeActionEvidenceModel
    <3> QED
      BY <2>3, <3>1, TextsFit
  <2>8. Fits(e, model, x) /\ DOMAIN x = {"side"}
    <3>1. /\ DOMAIN x = {"side"}
          /\ x["side"] = Listed(d["side"])
      BY <2>3
    <3>2. Fit(e, model, "side", Listed(d["side"]))
      BY <1>1, <1>3, <1>4, <1>6, ListedFit
    <3> QED
      BY <3>1, <3>2 DEF Fits
  <2>9. EvidenceOf(e.stream) \subseteq DOMAIN a \cup DOMAIN b \cup DOMAIN c \cup DOMAIN x
    BY <1>4, <2>2, <2>5, <2>6, <2>7, <2>8
  <2> QED
    BY <2>4, <2>5, <2>6, <2>7, <2>8, <2>9, FourHonest
<1> QED
  BY <1>5, <1>6

LEMMA ExecutionHonest ==
  ASSUME NEW e, Posed(e), e.stream = "execution", NEW d, Reads(d, e)
  PROVE  Honest(e, parse_execution(d))
<1>1. PICK numbers, texts, words :
        /\ numbers = {"avg_fill_price", "filled_qty", "submit_ts_ns", "ack_ts_ns", "fill_ts_ns", "submit_to_ack_us", "ack_to_fill_us", "ts_event_ns"}
        /\ texts = {"report_id", "client_order_id", "trade_action_hash", "symbol", "exchange_order_id", "rejection_reason"}
        /\ words = {"status", "side"}
  OBVIOUS
<1>2. Values[e.stream] = Field(numbers, texts, words)
  BY <1>1 DEF Values
<1>3. numbers \cup texts \cup words \subseteq DOMAIN e.fields /\ e.fields["status"] \in Words /\ e.fields["side"] \in Words
  <2>1. DOMAIN e.fields = numbers \cup texts \cup words /\ \A f \in words \ (numbers \cup texts) : e.fields[f] \in Words
    BY <1>2, FieldsPosed
  <2> QED
    BY <1>1, <2>1
<1>4. EvidenceOf(e.stream) = {"status", "submit_ts_ns", "ts_event_ns"}
  BY DEF EvidenceOf, Evidence
<1>5. CASE d["status"] = "absent" \/ Missing(d, {"submit_ts_ns", "ts_event_ns"})
  BY <1>5, LeftOut DEF parse_execution
<1>6. CASE ~(d["status"] = "absent" \/ Missing(d, {"submit_ts_ns", "ts_event_ns"}))
  <2>1. PICK model : model = ExecutionReportModel
    OBVIOUS
  <2>2. PICK fa, fb, fc :
          /\ fa = {"avg_fill_price", "submit_ts_ns", "ack_ts_ns", "fill_ts_ns", "submit_to_ack_us", "ack_to_fill_us", "ts_event_ns"}
          /\ fb = {"report_id", "client_order_id", "trade_action_hash", "symbol"}
          /\ fc = {"exchange_order_id", "rejection_reason"}
    OBVIOUS
  <2>3. PICK a, b, c, x :
          /\ a = Numbers(d, fa)
          /\ b = TextsOrDefault(d, fb)
          /\ c = Texts(d, fc)
          /\ x = [status |-> Listed(d["status"]), side |-> Listed(d["side"]), filled_qty |-> Or(Number(d["filled_qty"]), "zero")]
    OBVIOUS
  <2>4. parse_execution(d) = Record(model, ((a ++ b) ++ c) ++ x)
    BY <1>6, <2>1, <2>2, <2>3 DEF parse_execution
  <2>5. Fits(e, model, a) /\ DOMAIN a = fa
    <3>1. fa \subseteq DOMAIN e.fields
      BY <1>1, <1>3, <2>2
    <3>2. \A f \in fa \cap model : Number(d[f]) # "none"
      BY <1>6, <2>1, <2>2 DEF Missing, ExecutionReportModel
    <3>3. Fits(e, model, Numbers(d, fa)) /\ DOMAIN Numbers(d, fa) = fa
      BY <3>1, <3>2, NumbersFit
    <3> QED
      BY <2>3, <3>3
  <2>6. Fits(e, model, b) /\ DOMAIN b = fb
    <3>1. fb \cap EvidenceOf(e.stream) = {}
      BY <1>4, <2>2
    <3> QED
      BY <2>3, <3>1, DefaultsFit
  <2>7. Fits(e, model, c) /\ DOMAIN c = fc
    <3>1. \A f \in fc \cap model : d[f] # "absent"
      BY <1>6, <2>1, <2>2 DEF ExecutionReportModel
    <3> QED
      BY <2>3, <3>1, TextsFit
  <2>8. Fits(e, model, x) /\ DOMAIN x = {"status", "side", "filled_qty"}
    <3>1. /\ DOMAIN x = {"status", "side", "filled_qty"}
          /\ x["status"] = Listed(d["status"])
          /\ x["side"] = Listed(d["side"])
          /\ x["filled_qty"] = Or(Number(d["filled_qty"]), "zero")
      BY <2>3
    <3>2. Fit(e, model, "status", Listed(d["status"]))
      BY <1>1, <1>3, <1>4, <1>6, ListedFit
    <3>3. Fit(e, model, "side", Listed(d["side"]))
      BY <1>1, <1>3, <1>4, <1>6, ListedFit
    <3>4. Fit(e, model, "filled_qty", Or(Number(d["filled_qty"]), "zero"))
      BY <1>4 DEF Fit, Or, Number, ZeroSent, FilledWithZero
    <3> QED
      BY <3>1, <3>2, <3>3, <3>4 DEF Fits
  <2>9. EvidenceOf(e.stream) \subseteq DOMAIN a \cup DOMAIN b \cup DOMAIN c \cup DOMAIN x
    BY <1>4, <2>2, <2>5, <2>6, <2>7, <2>8
  <2> QED
    BY <2>4, <2>5, <2>6, <2>7, <2>8, <2>9, FourHonest
<1> QED
  BY <1>5, <1>6

LEMMA TickToTradeHonest ==
  ASSUME NEW e, Posed(e), e.stream = "tick_to_trade", NEW d, Reads(d, e)
  PROVE  Honest(e, parse_tick_to_trade(d))
<1>1. PICK numbers, texts, words :
        /\ numbers = {"tick_receive_ts_ns", "signal_ts_ns", "gate_ts_ns", "execution_ts_ns", "total_tick_to_trade_us", "tick_to_signal_us", "signal_to_gate_us", "gate_to_execution_us", "ts_event_ns"}
        /\ texts = {"trace_id"}
        /\ words = {}
  OBVIOUS
<1>2. Values[e.stream] = Field(numbers, texts, words)
  BY <1>1 DEF Values
<1>3. numbers \cup texts \cup words \subseteq DOMAIN e.fields
  <2>1. DOMAIN e.fields = numbers \cup texts \cup words /\ \A f \in words \ (numbers \cup texts) : e.fields[f] \in Words
    BY <1>2, FieldsPosed
  <2> QED
    BY <1>1, <2>1
<1>4. EvidenceOf(e.stream) = {"tick_receive_ts_ns", "signal_ts_ns", "gate_ts_ns", "execution_ts_ns", "total_tick_to_trade_us", "ts_event_ns"}
  BY DEF EvidenceOf, Evidence
<1>5. CASE Missing(d, {"tick_receive_ts_ns", "signal_ts_ns", "gate_ts_ns", "execution_ts_ns"} \cup {"total_tick_to_trade_us", "ts_event_ns"})
  BY <1>5, LeftOut DEF parse_tick_to_trade
<1>6. CASE ~(Missing(d, {"tick_receive_ts_ns", "signal_ts_ns", "gate_ts_ns", "execution_ts_ns"} \cup {"total_tick_to_trade_us", "ts_event_ns"}))
  <2>1. PICK model : model = TickToTradeTraceModel
    OBVIOUS
  <2>2. PICK fa, fb :
          /\ fa = {"tick_receive_ts_ns", "signal_ts_ns", "gate_ts_ns", "execution_ts_ns", "total_tick_to_trade_us", "ts_event_ns"}
          /\ fb = {"trace_id"}
    OBVIOUS
  <2>0. fa = {"tick_receive_ts_ns", "signal_ts_ns", "gate_ts_ns", "execution_ts_ns"} \cup {"total_tick_to_trade_us", "ts_event_ns"}
    BY <2>2
  <2>3. PICK a, b, c :
          /\ a = Numbers(d, fa)
          /\ b = TextsOrDefault(d, fb)
          /\ c = [f \in {"tick_to_signal_us", "signal_to_gate_us", "gate_to_execution_us"} |-> Or(Number(d[f]), "zero")]
    OBVIOUS
  <2>4. parse_tick_to_trade(d) = Record(model, (a ++ b) ++ c)
    BY <1>6, <2>0, <2>1, <2>2, <2>3 DEF parse_tick_to_trade
  <2>5. Fits(e, model, a) /\ DOMAIN a = fa
    <3>1. fa \subseteq DOMAIN e.fields
      BY <1>1, <1>3, <2>2
    <3>2. \A f \in fa \cap model : Number(d[f]) # "none"
      BY <1>6, <2>1, <2>2 DEF Missing, TickToTradeTraceModel
    <3>3. Fits(e, model, Numbers(d, fa)) /\ DOMAIN Numbers(d, fa) = fa
      BY <3>1, <3>2, NumbersFit
    <3> QED
      BY <2>3, <3>3
  <2>6. Fits(e, model, b) /\ DOMAIN b = fb
    <3>1. fb \cap EvidenceOf(e.stream) = {}
      BY <1>4, <2>2
    <3> QED
      BY <2>3, <3>1, DefaultsFit
  <2>7. Fits(e, model, c) /\ DOMAIN c = {"tick_to_signal_us", "signal_to_gate_us", "gate_to_execution_us"}
    <3>1. \A f \in {"tick_to_signal_us", "signal_to_gate_us", "gate_to_execution_us"} : Fit(e, model, f, Or(Number(d[f]), "zero"))
      BY <1>4 DEF Fit, Or, Number, ZeroSent, FilledWithZero
    <3> QED
      BY <2>3, <3>1 DEF Fits
  <2>8. EvidenceOf(e.stream) \subseteq DOMAIN a \cup DOMAIN b \cup DOMAIN c
    BY <1>4, <2>2, <2>5, <2>6, <2>7
  <2> QED
    BY <2>4, <2>5, <2>6, <2>7, <2>8, ThreeHonest
<1> QED
  BY <1>5, <1>6

LEMMA RuntimeHealthHonest ==
  ASSUME NEW e, Posed(e), e.stream = "runtime_health", NEW d, Reads(d, e)
  PROVE  Honest(e, parse_runtime_health(d))
<1>1. PICK numbers, texts, words :
        /\ numbers = {"heartbeat_ns", "age_ms", "ts_event_ns"}
        /\ texts = {"reason", "stale", "missing"}
        /\ words = {"lane", "status"}
  OBVIOUS
<1>2. Values[e.stream] = Field(numbers, texts, words)
  BY <1>1 DEF Values
<1>3. numbers \cup texts \cup words \subseteq DOMAIN e.fields /\ e.fields["lane"] \in Words /\ e.fields["status"] \in Words
  <2>1. DOMAIN e.fields = numbers \cup texts \cup words /\ \A f \in words \ (numbers \cup texts) : e.fields[f] \in Words
    BY <1>2, FieldsPosed
  <2> QED
    BY <1>1, <2>1
<1>4. EvidenceOf(e.stream) = {}
  BY DEF EvidenceOf, Evidence
<1>5. CASE Missing(d, {"ts_event_ns"})
  BY <1>5, LeftOut DEF parse_runtime_health
<1>6. CASE ~(Missing(d, {"ts_event_ns"}))
  <2>1. PICK model : model = LaneHealthModel
    OBVIOUS
  <2>2. PICK fa, fb :
          /\ fa = {"heartbeat_ns", "age_ms", "ts_event_ns"}
          /\ fb = {"reason"}
    OBVIOUS
  <2>3. PICK a, b, c, x :
          /\ a = Numbers(d, fa)
          /\ b = Texts(d, fb)
          /\ c = [f \in {"stale", "missing"} |-> IF d[f] = "absent" THEN "false" ELSE "true"]
          /\ x = [lane |-> IF d["lane"] = "absent" THEN "made up" ELSE "text", status |-> Listed(d["status"])]
    OBVIOUS
  <2>4. parse_runtime_health(d) = Record(model, ((a ++ b) ++ c) ++ x)
    BY <1>6, <2>1, <2>2, <2>3 DEF parse_runtime_health
  <2>5. Fits(e, model, a) /\ DOMAIN a = fa
    <3>1. fa \subseteq DOMAIN e.fields
      BY <1>1, <1>3, <2>2
    <3>2. \A f \in fa \cap model : Number(d[f]) # "none"
      BY <1>6, <2>1, <2>2 DEF Missing, LaneHealthModel
    <3>3. Fits(e, model, Numbers(d, fa)) /\ DOMAIN Numbers(d, fa) = fa
      BY <3>1, <3>2, NumbersFit
    <3> QED
      BY <2>3, <3>3
  <2>6. Fits(e, model, b) /\ DOMAIN b = fb
    <3>1. \A f \in fb \cap model : d[f] # "absent"
      BY <1>6, <2>1, <2>2 DEF LaneHealthModel
    <3> QED
      BY <2>3, <3>1, TextsFit
  <2>7. Fits(e, model, c) /\ DOMAIN c = {"stale", "missing"}
    <3>1. \A f \in {"stale", "missing"} : Fit(e, model, f, IF d[f] = "absent" THEN "false" ELSE "true")
      BY DEF Fit
    <3> QED
      BY <2>3, <3>1 DEF Fits
  <2>8. Fits(e, model, x) /\ DOMAIN x = {"lane", "status"}
    <3>1. /\ DOMAIN x = {"lane", "status"}
          /\ x["lane"] = IF d["lane"] = "absent" THEN "made up" ELSE "text"
          /\ x["status"] = Listed(d["status"])
      BY <2>3
    <3>2. Fit(e, model, "lane", IF d["lane"] = "absent" THEN "made up" ELSE "text")
      BY <1>4 DEF Fit, Or, Number, Text
    <3>3. Fit(e, model, "status", Listed(d["status"]))
      BY <1>1, <1>3, <1>4, <1>6, ListedFit
    <3> QED
      BY <3>1, <3>2, <3>3 DEF Fits
  <2>9. EvidenceOf(e.stream) \subseteq DOMAIN a \cup DOMAIN b \cup DOMAIN c \cup DOMAIN x
    BY <1>4, <2>2, <2>5, <2>6, <2>7, <2>8
  <2> QED
    BY <2>4, <2>5, <2>6, <2>7, <2>8, <2>9, FourHonest
<1> QED
  BY <1>5, <1>6

LEMMA AccountHonest ==
  ASSUME NEW e, Posed(e), e.stream = "account", NEW d, Reads(d, e)
  PROVE  Honest(e, parse_account(d))
<1>1. PICK numbers, texts, words :
        /\ numbers = {"balance", "equity", "available_margin", "margin_used", "unrealized_pnl", "realized_pnl", "ts_event_ns", "bundle_ts_ns"}
        /\ texts = {"venue", "currency", "account_id", "strategy_id"}
        /\ words = {}
  OBVIOUS
<1>2. Values[e.stream] = Field(numbers, texts, words)
  BY <1>1 DEF Values
<1>3. numbers \cup texts \cup words \subseteq DOMAIN e.fields
  <2>1. DOMAIN e.fields = numbers \cup texts \cup words /\ \A f \in words \ (numbers \cup texts) : e.fields[f] \in Words
    BY <1>2, FieldsPosed
  <2> QED
    BY <1>1, <2>1
<1>4. EvidenceOf(e.stream) = {}
  BY DEF EvidenceOf, Evidence
<1>5. CASE Missing(d, {"balance"})
  BY <1>5, LeftOut DEF parse_account
<1>6. CASE ~(Missing(d, {"balance"}))
  <2>1. PICK model : model = AccountSnapshotModel
    OBVIOUS
  <2>2. PICK fa, fb :
          /\ fa = {"balance", "available_margin", "margin_used", "unrealized_pnl", "realized_pnl"}
          /\ fb = {"venue", "currency"}
    OBVIOUS
  <2>3. PICK a, b, c :
          /\ a = Numbers(d, fa)
          /\ b = TextsOrDefault(d, fb)
          /\ c = [equity |-> Or(Number(d["equity"]), Number(d["balance"])), account_id |-> Or(Text(d["account_id"]), Or(Text(d["strategy_id"]), "made up")), ts_event_ns |-> Or(Number(d["ts_event_ns"]), IF Number(d["bundle_ts_ns"]) = "none" THEN "made up" ELSE Number(d["bundle_ts_ns"]))]
    OBVIOUS
  <2>4. parse_account(d) = Record(model, (a ++ b) ++ c)
    BY <1>6, <2>1, <2>2, <2>3 DEF parse_account
  <2>5. Fits(e, model, a) /\ DOMAIN a = fa
    <3>1. fa \subseteq DOMAIN e.fields
      BY <1>1, <1>3, <2>2
    <3>2. \A f \in fa \cap model : Number(d[f]) # "none"
      BY <1>6, <2>1, <2>2 DEF Missing, AccountSnapshotModel
    <3>3. Fits(e, model, Numbers(d, fa)) /\ DOMAIN Numbers(d, fa) = fa
      BY <3>1, <3>2, NumbersFit
    <3> QED
      BY <2>3, <3>3
  <2>6. Fits(e, model, b) /\ DOMAIN b = fb
    <3>1. fb \cap EvidenceOf(e.stream) = {}
      BY <1>4, <2>2
    <3> QED
      BY <2>3, <3>1, DefaultsFit
  <2>7. Fits(e, model, c) /\ DOMAIN c = {"equity", "account_id", "ts_event_ns"}
    <3>1. /\ DOMAIN c = {"equity", "account_id", "ts_event_ns"}
          /\ c["equity"] = Or(Number(d["equity"]), Number(d["balance"]))
          /\ c["account_id"] = Or(Text(d["account_id"]), Or(Text(d["strategy_id"]), "made up"))
          /\ c["ts_event_ns"] = Or(Number(d["ts_event_ns"]), IF Number(d["bundle_ts_ns"]) = "none" THEN "made up" ELSE Number(d["bundle_ts_ns"]))
      BY <2>3
    <3>2. Fit(e, model, "equity", Or(Number(d["equity"]), Number(d["balance"])))
      <4>1. Number(d["balance"]) # "none"
        BY <1>6 DEF Missing
      <4>2. Number(d["balance"]) = "zero" => ZeroSent(e, "equity")
        BY <1>1, <1>3, ZeroRead DEF Sources
      <4> QED
        BY <1>4, <4>1, <4>2 DEF Fit, Or, Number
    <3>3. Fit(e, model, "account_id", Or(Text(d["account_id"]), Or(Text(d["strategy_id"]), "made up")))
      BY <1>4 DEF Fit, Or, Number, Text
    <3>4. Fit(e, model, "ts_event_ns", Or(Number(d["ts_event_ns"]), IF Number(d["bundle_ts_ns"]) = "none" THEN "made up" ELSE Number(d["bundle_ts_ns"])))
      <4>1. Number(d["bundle_ts_ns"]) = "zero" => ZeroSent(e, "ts_event_ns")
        BY <1>1, <1>3, ZeroRead DEF Sources
      <4> QED
        BY <1>4, <4>1 DEF Fit, Or, Number
    <3> QED
      BY <3>1, <3>2, <3>3, <3>4 DEF Fits
  <2>8. EvidenceOf(e.stream) \subseteq DOMAIN a \cup DOMAIN b \cup DOMAIN c
    BY <1>4, <2>2, <2>5, <2>6, <2>7
  <2> QED
    BY <2>4, <2>5, <2>6, <2>7, <2>8, ThreeHonest
<1> QED
  BY <1>5, <1>6

LEMMA BookTopHonest ==
  ASSUME NEW e, Posed(e), e.stream = "book_top", NEW d, Reads(d, e)
  PROVE  Honest(e, parse_book_top(d))
<1>1. PICK numbers, texts, words :
        /\ numbers = {"bid", "bid_price", "ask", "ask_price", "bid_size", "ask_size", "mid_price", "spread", "spread_bps", "microprice", "ts_event_ns"}
        /\ texts = {"instrument_id", "symbol"}
        /\ words = {}
  OBVIOUS
<1>2. Values[e.stream] = Field(numbers, texts, words)
  BY <1>1 DEF Values
<1>3. numbers \cup texts \cup words \subseteq DOMAIN e.fields
  <2>1. DOMAIN e.fields = numbers \cup texts \cup words /\ \A f \in words \ (numbers \cup texts) : e.fields[f] \in Words
    BY <1>2, FieldsPosed
  <2> QED
    BY <1>1, <2>1
<1>4. EvidenceOf(e.stream) = {"bid_price", "ask_price", "ts_event_ns"}
  BY DEF EvidenceOf, Evidence
<1>5. CASE Or(Number(d["bid"]), Number(d["bid_price"])) = "none" \/ Or(Number(d["ask"]), Number(d["ask_price"])) = "none" \/ Missing(d, {"ts_event_ns"})
  BY <1>5, LeftOut DEF parse_book_top
<1>6. CASE ~(Or(Number(d["bid"]), Number(d["bid_price"])) = "none" \/ Or(Number(d["ask"]), Number(d["ask_price"])) = "none" \/ Missing(d, {"ts_event_ns"}))
  <2>1. PICK model : model = MarketBookTopModel
    OBVIOUS
  <2>2. PICK fa, fb :
          /\ fa = {"bid_size", "ask_size", "spread_bps", "ts_event_ns"}
          /\ fb = {"mid_price", "spread", "microprice"}
    OBVIOUS
  <2>3. PICK a, b, c :
          /\ a = Numbers(d, fa)
          /\ b = [f \in fb |-> Or(Number(d[f]), "made up")]
          /\ c = [symbol |-> Or(Text(d["instrument_id"]), Or(Text(d["symbol"]), "made up")), bid_price |-> Or(Number(d["bid"]), Number(d["bid_price"])), ask_price |-> Or(Number(d["ask"]), Number(d["ask_price"]))]
    OBVIOUS
  <2>4. parse_book_top(d) = Record(model, (a ++ b) ++ c)
    BY <1>6, <2>1, <2>2, <2>3 DEF parse_book_top
  <2>5. Fits(e, model, a) /\ DOMAIN a = fa
    <3>1. fa \subseteq DOMAIN e.fields
      BY <1>1, <1>3, <2>2
    <3>2. \A f \in fa \cap model : Number(d[f]) # "none"
      BY <1>6, <2>1, <2>2 DEF Missing, MarketBookTopModel
    <3>3. Fits(e, model, Numbers(d, fa)) /\ DOMAIN Numbers(d, fa) = fa
      BY <3>1, <3>2, NumbersFit
    <3> QED
      BY <2>3, <3>3
  <2>6. Fits(e, model, b) /\ DOMAIN b = fb
    <3>1. fb \cap EvidenceOf(e.stream) = {}
      BY <1>4, <2>2
    <3> QED
      BY <2>3, <3>1, OrFit
  <2>7. Fits(e, model, c) /\ DOMAIN c = {"symbol", "bid_price", "ask_price"}
    <3>1. /\ DOMAIN c = {"symbol", "bid_price", "ask_price"}
          /\ c["symbol"] = Or(Text(d["instrument_id"]), Or(Text(d["symbol"]), "made up"))
          /\ c["bid_price"] = Or(Number(d["bid"]), Number(d["bid_price"]))
          /\ c["ask_price"] = Or(Number(d["ask"]), Number(d["ask_price"]))
      BY <2>3
    <3>2. Fit(e, model, "symbol", Or(Text(d["instrument_id"]), Or(Text(d["symbol"]), "made up")))
      BY <1>4 DEF Fit, Or, Number, Text
    <3>3. Fit(e, model, "bid_price", Or(Number(d["bid"]), Number(d["bid_price"])))
      <4>1. Number(d["bid_price"]) = "zero" => ZeroSent(e, "bid_price")
        BY <1>1, <1>3, ZeroRead, OwnSource
      <4> QED
        BY <1>4, <1>6, <4>1 DEF Fit, Or, Number
    <3>4. Fit(e, model, "ask_price", Or(Number(d["ask"]), Number(d["ask_price"])))
      <4>1. Number(d["ask_price"]) = "zero" => ZeroSent(e, "ask_price")
        BY <1>1, <1>3, ZeroRead, OwnSource
      <4> QED
        BY <1>4, <1>6, <4>1 DEF Fit, Or, Number
    <3> QED
      BY <3>1, <3>2, <3>3, <3>4 DEF Fits
  <2>8. EvidenceOf(e.stream) \subseteq DOMAIN a \cup DOMAIN b \cup DOMAIN c
    BY <1>4, <2>2, <2>5, <2>6, <2>7
  <2> QED
    BY <2>4, <2>5, <2>6, <2>7, <2>8, ThreeHonest
<1> QED
  BY <1>5, <1>6

LEMMA PositionsHonest ==
  ASSUME NEW e, Posed(e), e.stream = "positions", NEW d, Reads(d, e)
  PROVE  Honest(e, parse_positions(d))
<1>1. PICK numbers, texts, words :
        /\ numbers = {"qty", "entry_price", "mark_price", "unrealized_pnl", "realized_pnl", "margin", "ts_event_ns"}
        /\ texts = {"symbol", "venue"}
        /\ words = {"side"}
  OBVIOUS
<1>2. PICK h : h = Lists({"positions"}) /\ Values[e.stream] = h ++ Field(numbers, texts, words)
  BY <1>1 DEF Values
<1>3. numbers \cup texts \cup words \subseteq DOMAIN e.fields /\ e.fields["side"] \in Words
  <2>1. /\ numbers \cup texts \cup words \subseteq DOMAIN e.fields
        /\ \A f \in words \ (numbers \cup texts) : f \notin DOMAIN h => e.fields[f] \in Words
        /\ \A f \in DOMAIN h : f \in DOMAIN e.fields /\ (h[f] = Containers => e.fields[f] \in Containers)
    BY <1>2, MoreFieldsPosed
  <2>2. DOMAIN h = {"positions"}
    BY <1>2 DEF Lists
  <2> QED
    BY <1>1, <2>1, <2>2
<1>4. EvidenceOf(e.stream) = {}
  BY DEF EvidenceOf, Evidence
<1>5. CASE Decoded(d["positions"]) \notin {"dict", "list"} \/ Missing(d, {"qty"})
  BY <1>5, LeftOut DEF parse_positions
<1>6. CASE ~(Decoded(d["positions"]) \notin {"dict", "list"} \/ Missing(d, {"qty"}))
  <2>1. PICK model : model = PositionSnapshotModel
    OBVIOUS
  <2>2. PICK fa, fb :
          /\ fa = {"qty", "entry_price", "mark_price", "unrealized_pnl", "realized_pnl", "margin"}
          /\ fb = {"symbol", "venue"}
    OBVIOUS
  <2>3. PICK a, b, c :
          /\ a = Numbers(d, fa)
          /\ b = TextsOrDefault(d, fb)
          /\ c = [side |-> Listed(d["side"]), ts_event_ns |-> Or(Number(d["ts_event_ns"]), "made up")]
    OBVIOUS
  <2>4. parse_positions(d) = Record(model, (a ++ b) ++ c)
    BY <1>6, <2>1, <2>2, <2>3 DEF parse_positions
  <2>5. Fits(e, model, a) /\ DOMAIN a = fa
    <3>1. fa \subseteq DOMAIN e.fields
      BY <1>1, <1>3, <2>2
    <3>2. \A f \in fa \cap model : Number(d[f]) # "none"
      BY <1>6, <2>1, <2>2 DEF Missing, PositionSnapshotModel
    <3>3. Fits(e, model, Numbers(d, fa)) /\ DOMAIN Numbers(d, fa) = fa
      BY <3>1, <3>2, NumbersFit
    <3> QED
      BY <2>3, <3>3
  <2>6. Fits(e, model, b) /\ DOMAIN b = fb
    <3>1. fb \cap EvidenceOf(e.stream) = {}
      BY <1>4, <2>2
    <3> QED
      BY <2>3, <3>1, DefaultsFit
  <2>7. Fits(e, model, c) /\ DOMAIN c = {"side", "ts_event_ns"}
    <3>1. /\ DOMAIN c = {"side", "ts_event_ns"}
          /\ c["side"] = Listed(d["side"])
          /\ c["ts_event_ns"] = Or(Number(d["ts_event_ns"]), "made up")
      BY <2>3
    <3>2. Fit(e, model, "side", Listed(d["side"]))
      BY <1>1, <1>3, <1>4, <1>6, ListedFit
    <3>3. Fit(e, model, "ts_event_ns", Or(Number(d["ts_event_ns"]), "made up"))
      BY <1>4 DEF Fit, Or, Number, Text
    <3> QED
      BY <3>1, <3>2, <3>3 DEF Fits
  <2>8. EvidenceOf(e.stream) \subseteq DOMAIN a \cup DOMAIN b \cup DOMAIN c
    BY <1>4, <2>2, <2>5, <2>6, <2>7
  <2> QED
    BY <2>4, <2>5, <2>6, <2>7, <2>8, ThreeHonest
<1> QED
  BY <1>5, <1>6

LEMMA OpenOrdersHonest ==
  ASSUME NEW e, Posed(e), e.stream = "open_orders", NEW d, Reads(d, e)
  PROVE  Honest(e, parse_open_orders(d))
<1>1. PICK numbers, texts, words :
        /\ numbers = {"price", "qty", "filled_qty", "ts_event_ns"}
        /\ texts = {"order_id", "client_order_id", "symbol", "venue", "order_type", "status"}
        /\ words = {"side"}
  OBVIOUS
<1>2. PICK h : h = Lists({"orders"}) /\ Values[e.stream] = h ++ Field(numbers, texts, words)
  BY <1>1 DEF Values
<1>3. numbers \cup texts \cup words \subseteq DOMAIN e.fields /\ e.fields["side"] \in Words
  <2>1. /\ numbers \cup texts \cup words \subseteq DOMAIN e.fields
        /\ \A f \in words \ (numbers \cup texts) : f \notin DOMAIN h => e.fields[f] \in Words
        /\ \A f \in DOMAIN h : f \in DOMAIN e.fields /\ (h[f] = Containers => e.fields[f] \in Containers)
    BY <1>2, MoreFieldsPosed
  <2>2. DOMAIN h = {"orders"}
    BY <1>2 DEF Lists
  <2> QED
    BY <1>1, <2>1, <2>2
<1>4. EvidenceOf(e.stream) = {}
  BY DEF EvidenceOf, Evidence
<1>5. CASE Decoded(d["orders"]) \notin {"absent", "dict", "list"} \/ Missing(d, {"price", "qty", "ts_event_ns"})
  BY <1>5, LeftOut DEF parse_open_orders
<1>6. CASE ~(Decoded(d["orders"]) \notin {"absent", "dict", "list"} \/ Missing(d, {"price", "qty", "ts_event_ns"}))
  <2>1. PICK model : model = OpenOrderSnapshotModel
    OBVIOUS
  <2>2. PICK fa, fb :
          /\ fa = {"price", "qty", "ts_event_ns"}
          /\ fb = {"order_id", "client_order_id", "symbol", "venue", "order_type", "status"}
    OBVIOUS
  <2>3. PICK a, b, c :
          /\ a = Numbers(d, fa)
          /\ b = TextsOrDefault(d, fb)
          /\ c = [side |-> Listed(d["side"]), filled_qty |-> IF Number(d["filled_qty"]) = "none" THEN "zero" ELSE Number(d["filled_qty"])]
    OBVIOUS
  <2>4. parse_open_orders(d) = Record(model, (a ++ b) ++ c)
    BY <1>6, <2>1, <2>2, <2>3 DEF parse_open_orders
  <2>5. Fits(e, model, a) /\ DOMAIN a = fa
    <3>1. fa \subseteq DOMAIN e.fields
      BY <1>1, <1>3, <2>2
    <3>2. \A f \in fa \cap model : Number(d[f]) # "none"
      BY <1>6, <2>1, <2>2 DEF Missing, OpenOrderSnapshotModel
    <3>3. Fits(e, model, Numbers(d, fa)) /\ DOMAIN Numbers(d, fa) = fa
      BY <3>1, <3>2, NumbersFit
    <3> QED
      BY <2>3, <3>3
  <2>6. Fits(e, model, b) /\ DOMAIN b = fb
    <3>1. fb \cap EvidenceOf(e.stream) = {}
      BY <1>4, <2>2
    <3> QED
      BY <2>3, <3>1, DefaultsFit
  <2>7. Fits(e, model, c) /\ DOMAIN c = {"side", "filled_qty"}
    <3>1. /\ DOMAIN c = {"side", "filled_qty"}
          /\ c["side"] = Listed(d["side"])
          /\ c["filled_qty"] = IF Number(d["filled_qty"]) = "none" THEN "zero" ELSE Number(d["filled_qty"])
      BY <2>3
    <3>2. Fit(e, model, "side", Listed(d["side"]))
      BY <1>1, <1>3, <1>4, <1>6, ListedFit
    <3>3. Fit(e, model, "filled_qty", IF Number(d["filled_qty"]) = "none" THEN "zero" ELSE Number(d["filled_qty"]))
      BY <1>4 DEF Fit, Or, Number, ZeroSent, FilledWithZero
    <3> QED
      BY <3>1, <3>2, <3>3 DEF Fits
  <2>8. EvidenceOf(e.stream) \subseteq DOMAIN a \cup DOMAIN b \cup DOMAIN c
    BY <1>4, <2>2, <2>5, <2>6, <2>7
  <2> QED
    BY <2>4, <2>5, <2>6, <2>7, <2>8, ThreeHonest
<1> QED
  BY <1>5, <1>6

LEMMA TradeHonest ==
  ASSUME NEW e, Posed(e), e.stream = "trade", NEW d, Reads(d, e)
  PROVE  Honest(e, parse_trade(d))
<1>1. PICK numbers, texts, words :
        /\ numbers = {"price", "qty", "notional", "ts_event_ns"}
        /\ texts = {"trade_id", "symbol"}
        /\ words = {"aggressor"}
  OBVIOUS
<1>2. PICK h : h = [side |-> {"BUY", "SELL", "odd", "absent"}, flags |-> {"absent", "long_liq", "short_liq", "large", "sweep"},
                   liq_side |-> {"absent", "long_liq", "short_liq", "odd"}]
                  ++ [f \in {"force_order", "large", "sweep"} |-> {"absent", "yes"}] /\ Values[e.stream] = h ++ Field(numbers, texts, words)
  BY <1>1 DEF Values
<1>3. numbers \cup texts \cup words \subseteq DOMAIN e.fields
  <2>1. /\ numbers \cup texts \cup words \subseteq DOMAIN e.fields
        /\ \A f \in words \ (numbers \cup texts) : f \notin DOMAIN h => e.fields[f] \in Words
        /\ \A f \in DOMAIN h : f \in DOMAIN e.fields /\ (h[f] = Containers => e.fields[f] \in Containers)
    BY <1>2, MoreFieldsPosed
  <2> QED
    BY <1>1, <2>1
<1>4. EvidenceOf(e.stream) = {"price", "qty", "ts_event_ns"}
  BY DEF EvidenceOf, Evidence
<1>5. CASE Missing(d, {"price", "qty", "ts_event_ns"})
  BY <1>5, LeftOut DEF parse_trade
<1>6. CASE ~(Missing(d, {"price", "qty", "ts_event_ns"}))
  <2>1. PICK model : model = MarketTradeModel
    OBVIOUS
  <2>2. PICK fa, fb :
          /\ fa = {"price", "qty", "ts_event_ns"}
          /\ fb = {"trade_id", "symbol"}
    OBVIOUS
  <2>3. PICK a, b, c :
          /\ a = Numbers(d, fa)
          /\ b = TextsOrDefault(d, fb)
          /\ c = [notional |-> Or(Number(d["notional"]), "made up"), side |-> IF d["side"] \in {"BUY", "SELL"} THEN "text" ELSE "made up", aggressor |-> IF d["aggressor"] = "word" THEN "text" ELSE "made up", is_large_trade |-> TradeFlag(d, "large"), is_sweep |-> TradeFlag(d, "sweep"), liq_side |-> Liquidation(d)]
    OBVIOUS
  <2>4. parse_trade(d) = Record(model, (a ++ b) ++ c)
    BY <1>6, <2>1, <2>2, <2>3 DEF parse_trade
  <2>5. Fits(e, model, a) /\ DOMAIN a = fa
    <3>1. fa \subseteq DOMAIN e.fields
      BY <1>1, <1>3, <2>2
    <3>2. \A f \in fa \cap model : Number(d[f]) # "none"
      BY <1>6, <2>1, <2>2 DEF Missing, MarketTradeModel
    <3>3. Fits(e, model, Numbers(d, fa)) /\ DOMAIN Numbers(d, fa) = fa
      BY <3>1, <3>2, NumbersFit
    <3> QED
      BY <2>3, <3>3
  <2>6. Fits(e, model, b) /\ DOMAIN b = fb
    <3>1. fb \cap EvidenceOf(e.stream) = {}
      BY <1>4, <2>2
    <3> QED
      BY <2>3, <3>1, DefaultsFit
  <2>7. Fits(e, model, c) /\ DOMAIN c = {"notional", "side", "aggressor", "is_large_trade", "is_sweep", "liq_side"}
    <3>1. /\ DOMAIN c = {"notional", "side", "aggressor", "is_large_trade", "is_sweep", "liq_side"}
          /\ c["notional"] = Or(Number(d["notional"]), "made up")
          /\ c["side"] = IF d["side"] \in {"BUY", "SELL"} THEN "text" ELSE "made up"
          /\ c["aggressor"] = IF d["aggressor"] = "word" THEN "text" ELSE "made up"
          /\ c["is_large_trade"] = TradeFlag(d, "large")
          /\ c["is_sweep"] = TradeFlag(d, "sweep")
          /\ c["liq_side"] = Liquidation(d)
      BY <2>3
    <3>2. Fit(e, model, "notional", Or(Number(d["notional"]), "made up"))
      BY <1>4 DEF Fit, Or, Number, Text
    <3>3. Fit(e, model, "side", IF d["side"] \in {"BUY", "SELL"} THEN "text" ELSE "made up")
      BY <1>4 DEF Fit, Or, Number, Text
    <3>4. Fit(e, model, "aggressor", IF d["aggressor"] = "word" THEN "text" ELSE "made up")
      BY <1>4 DEF Fit, Or, Number, Text
    <3>5. Fit(e, model, "is_large_trade", TradeFlag(d, "large"))
      BY <1>4 DEF Fit, TradeFlag
    <3>6. Fit(e, model, "is_sweep", TradeFlag(d, "sweep"))
      BY <1>4 DEF Fit, TradeFlag
    <3>7. Fit(e, model, "liq_side", Liquidation(d))
      BY <2>1 DEF Fit, Liquidation, MarketTradeModel
    <3> QED
      BY <3>1, <3>2, <3>3, <3>4, <3>5, <3>6, <3>7 DEF Fits
  <2>8. EvidenceOf(e.stream) \subseteq DOMAIN a \cup DOMAIN b \cup DOMAIN c
    BY <1>4, <2>2, <2>5, <2>6, <2>7
  <2> QED
    BY <2>4, <2>5, <2>6, <2>7, <2>8, ThreeHonest
<1> QED
  BY <1>5, <1>6

LEMMA QuantLevelsHonest ==
  ASSUME NEW e, Posed(e), e.stream = "quant_levels", NEW d, Reads(d, e)
  PROVE  Honest(e, parse_quant_levels(d))
<1>1. PICK numbers, texts, words :
        /\ numbers = {"price", "ts_event_ns"}
        /\ texts = {"symbol"}
        /\ words = {"kind"}
  OBVIOUS
<1>2. PICK h : h = Lists({"levels"}) /\ Values[e.stream] = h ++ Field(numbers, texts, words)
  BY <1>1 DEF Values
<1>3. numbers \cup texts \cup words \subseteq DOMAIN e.fields /\ e.fields["kind"] \in Words /\ "levels" \in DOMAIN e.fields /\ e.fields["levels"] \in Containers
  <2>1. /\ numbers \cup texts \cup words \subseteq DOMAIN e.fields
        /\ \A f \in words \ (numbers \cup texts) : f \notin DOMAIN h => e.fields[f] \in Words
        /\ \A f \in DOMAIN h : f \in DOMAIN e.fields /\ (h[f] = Containers => e.fields[f] \in Containers)
    BY <1>2, MoreFieldsPosed
  <2>2. DOMAIN h = {"levels"} /\ h["levels"] = Containers
    BY <1>2 DEF Lists
  <2> QED
    BY <1>1, <2>1, <2>2
<1>4. EvidenceOf(e.stream) = {}
  BY DEF EvidenceOf, Evidence
<1>7. CASE d["levels"] # "absent" /\ Decoded(d["levels"]) # "list"
  <2>1. OddText(e)
    BY <1>3, <1>7 DEF OddText, Reads, Decoded, Containers
  <2>2. parse_quant_levels(d) = Raised
    BY <1>7 DEF parse_quant_levels
  <2> QED
    BY <2>1, <2>2 DEF Honest, Raised
<1>5. CASE ~(d["levels"] # "absent" /\ Decoded(d["levels"]) # "list") /\ (d["levels"] = "absent" \/ Missing(d, {"ts_event_ns"}))
  <2>1. parse_quant_levels(d) = Dropped
    BY <1>5 DEF parse_quant_levels
  <2> QED
    BY <2>1, LeftOut
<1>6. CASE ~((d["levels"] # "absent" /\ Decoded(d["levels"]) # "list") \/ d["levels"] = "absent" \/ Missing(d, {"ts_event_ns"}))
  <2>1. PICK model : model = QuantLevelsContextModel
    OBVIOUS
  <2>2. PICK fa, fb :
          /\ fa = {"ts_event_ns"}
          /\ fb = {"symbol"}
    OBVIOUS
  <2>3. PICK a, b, c :
          /\ a = Numbers(d, fa)
          /\ b = TextsOrDefault(d, fb)
          /\ c = [levels |-> IF Number(d["price"]) = "none" THEN "empty" ELSE IF Listed(d["kind"]) = "unlisted" THEN "unlisted" ELSE "level"]
    OBVIOUS
  <2>4. parse_quant_levels(d) = Record(model, (a ++ b) ++ c)
    BY <1>6, <2>1, <2>2, <2>3 DEF parse_quant_levels
  <2>5. Fits(e, model, a) /\ DOMAIN a = fa
    <3>1. fa \subseteq DOMAIN e.fields
      BY <1>1, <1>3, <2>2
    <3>2. \A f \in fa \cap model : Number(d[f]) # "none"
      BY <1>6, <2>1, <2>2 DEF Missing, QuantLevelsContextModel
    <3>3. Fits(e, model, Numbers(d, fa)) /\ DOMAIN Numbers(d, fa) = fa
      BY <3>1, <3>2, NumbersFit
    <3> QED
      BY <2>3, <3>3
  <2>6. Fits(e, model, b) /\ DOMAIN b = fb
    <3>1. fb \cap EvidenceOf(e.stream) = {}
      BY <1>4, <2>2
    <3> QED
      BY <2>3, <3>1, DefaultsFit
  <2>7. Fits(e, model, c) /\ DOMAIN c = {"levels"}
    <3>1. /\ DOMAIN c = {"levels"}
          /\ c["levels"] = IF Number(d["price"]) = "none" THEN "empty" ELSE IF Listed(d["kind"]) = "unlisted" THEN "unlisted" ELSE "level"
      BY <2>3
    <3>2. Fit(e, model, "levels", IF Number(d["price"]) = "none" THEN "empty" ELSE IF Listed(d["kind"]) = "unlisted" THEN "unlisted" ELSE "level")
      BY <1>1, <1>3, <1>4 DEF Fit, Listed, OddText, Reads, Words
    <3> QED
      BY <3>1, <3>2 DEF Fits
  <2>8. EvidenceOf(e.stream) \subseteq DOMAIN a \cup DOMAIN b \cup DOMAIN c
    BY <1>4, <2>2, <2>5, <2>6, <2>7
  <2> QED
    BY <2>4, <2>5, <2>6, <2>7, <2>8, ThreeHonest
<1> QED
  BY <1>5, <1>6, <1>7

LEMMA BookL2Honest ==
  ASSUME NEW e, Posed(e), e.stream = "book_l2", NEW d, Reads(d, e)
  PROVE  Honest(e, parse_book_l2(d))
<1>1. PICK numbers, texts, words :
        /\ numbers = {"best_bid", "best_ask", "spread", "spread_bps", "microprice", "top5_imbalance", "ts_event_ns"}
        /\ texts = {"checksum", "instrument_id", "symbol"}
        /\ words = {}
  OBVIOUS
<1>2. PICK h : h = Lists({"bid_depth_top5", "ask_depth_top5", "bids", "asks"}) ++ Sizes /\ Values[e.stream] = h ++ Field(numbers, texts, words)
  BY <1>1 DEF Values
<1>3. numbers \cup texts \cup words \subseteq DOMAIN e.fields
  <2>1. /\ numbers \cup texts \cup words \subseteq DOMAIN e.fields
        /\ \A f \in words \ (numbers \cup texts) : f \notin DOMAIN h => e.fields[f] \in Words
        /\ \A f \in DOMAIN h : f \in DOMAIN e.fields /\ (h[f] = Containers => e.fields[f] \in Containers)
    BY <1>2, MoreFieldsPosed
  <2> QED
    BY <1>1, <2>1
<1>4. EvidenceOf(e.stream) = {}
  BY DEF EvidenceOf, Evidence
<1>7. PICK bids, asks :
        /\ bids = BookSide(d["bid_depth_top5"], d["bids"], d["best_bid"], d["size"] = "number")
        /\ asks = BookSide(d["ask_depth_top5"], d["asks"], d["best_ask"], d["size"] = "number")
  OBVIOUS
<1>8. {bids, asks} \subseteq {"none", "level", "sizeless level"}
  BY <1>7 DEF BookSide, DepthLevels
<1>5. CASE bids = "none" /\ asks = "none"
  BY <1>5, <1>7, LeftOut DEF parse_book_l2
<1>6. CASE ~(bids = "none" /\ asks = "none")
  <2>1. PICK model : model = MarketBookL2Model
    OBVIOUS
  <2>2. PICK fa, fb :
          /\ fa = {"spread_bps", "microprice", "top5_imbalance"}
          /\ fb = {"checksum"}
    OBVIOUS
  <2>3. PICK a, b, c :
          /\ a = Numbers(d, fa)
          /\ b = Texts(d, fb)
          /\ c = [bids |-> IF bids = "none" THEN "empty" ELSE bids, asks |-> IF asks = "none" THEN "empty" ELSE asks, spread |-> Or(Number(d["spread"]), IF {Number(d["best_bid"]), Number(d["best_ask"])} = {"number"} THEN "made up" ELSE "zero"), symbol |-> Or(Text(d["instrument_id"]), Or(Text(d["symbol"]), "made up")), ts_event_ns |-> IF Missing(d, {"ts_event_ns"}) THEN "made up" ELSE Number(d["ts_event_ns"])]
    OBVIOUS
  <2>4. parse_book_l2(d) = Record(model, (a ++ b) ++ c)
    BY <1>6, <2>1, <2>2, <2>3, <1>7 DEF parse_book_l2
  <2>5. Fits(e, model, a) /\ DOMAIN a = fa
    <3>1. fa \subseteq DOMAIN e.fields
      BY <1>1, <1>3, <2>2
    <3>2. \A f \in fa \cap model : Number(d[f]) # "none"
      BY <1>6, <2>1, <2>2 DEF Missing, MarketBookL2Model
    <3>3. Fits(e, model, Numbers(d, fa)) /\ DOMAIN Numbers(d, fa) = fa
      BY <3>1, <3>2, NumbersFit
    <3> QED
      BY <2>3, <3>3
  <2>6. Fits(e, model, b) /\ DOMAIN b = fb
    <3>1. \A f \in fb \cap model : d[f] # "absent"
      BY <1>6, <2>1, <2>2 DEF MarketBookL2Model
    <3> QED
      BY <2>3, <3>1, TextsFit
  <2>7. Fits(e, model, c) /\ DOMAIN c = {"bids", "asks", "spread", "symbol", "ts_event_ns"}
    <3>1. /\ DOMAIN c = {"bids", "asks", "spread", "symbol", "ts_event_ns"}
          /\ c["bids"] = IF bids = "none" THEN "empty" ELSE bids
          /\ c["asks"] = IF asks = "none" THEN "empty" ELSE asks
          /\ c["spread"] = Or(Number(d["spread"]), IF {Number(d["best_bid"]), Number(d["best_ask"])} = {"number"} THEN "made up" ELSE "zero")
          /\ c["symbol"] = Or(Text(d["instrument_id"]), Or(Text(d["symbol"]), "made up"))
          /\ c["ts_event_ns"] = IF Missing(d, {"ts_event_ns"}) THEN "made up" ELSE Number(d["ts_event_ns"])
      BY <2>3
    <3>2. Fit(e, model, "bids", IF bids = "none" THEN "empty" ELSE bids)
      BY <1>4, <1>8 DEF Fit
    <3>3. Fit(e, model, "asks", IF asks = "none" THEN "empty" ELSE asks)
      BY <1>4, <1>8 DEF Fit
    <3>4. Fit(e, model, "spread", Or(Number(d["spread"]), IF {Number(d["best_bid"]), Number(d["best_ask"])} = {"number"} THEN "made up" ELSE "zero"))
      <4>1. ZeroSent(e, "spread")
        BY DEF ZeroSent, FilledWithZero
      <4> QED
        BY <1>4, <4>1 DEF Fit, Or, Number
    <3>5. Fit(e, model, "symbol", Or(Text(d["instrument_id"]), Or(Text(d["symbol"]), "made up")))
      BY <1>4 DEF Fit, Or, Number, Text
    <3>6. Fit(e, model, "ts_event_ns", IF Missing(d, {"ts_event_ns"}) THEN "made up" ELSE Number(d["ts_event_ns"]))
      <4>1. Number(d["ts_event_ns"]) = "zero" => ZeroSent(e, "ts_event_ns")
        BY <1>1, <1>3, ZeroRead, OwnSource
      <4> QED
        BY <1>4, <4>1 DEF Fit, Missing, Number
    <3> QED
      BY <3>1, <3>2, <3>3, <3>4, <3>5, <3>6 DEF Fits
  <2>8. EvidenceOf(e.stream) \subseteq DOMAIN a \cup DOMAIN b \cup DOMAIN c
    BY <1>4, <2>2, <2>5, <2>6, <2>7
  <2> QED
    BY <2>4, <2>5, <2>6, <2>7, <2>8, ThreeHonest
<1> QED
  BY <1>5, <1>6

\* A parser reads a field as it was sent, or not at all.
LEMMA UnwrappedReads == \A e : Reads(Unwrapped(e), e)
BY DEF Reads, Unwrapped

\* Whatever entry has the fields of its stream, its parser shows no zero and no
\* evidence of its own and raises only on a text its model does not list
\* (parse_stream_entry).
THEOREM ParseHonest ==
  ASSUME NEW e, Posed(e)
  PROVE  Honest(e, Parse(e))
<1>1. PICK d : d = Unwrapped(e) /\ Reads(d, e)
  BY UnwrappedReads
<1>2. e.stream \in DOMAIN Values
  BY DEF Posed
<1>3. CASE e.stream \in {"book_top", "book_l2", "trade", "account"}
  <2>1. CASE e.stream = "book_top" BY <1>1, <2>1, BookTopHonest DEF Parse
  <2>2. CASE e.stream = "book_l2" BY <1>1, <2>2, BookL2Honest DEF Parse
  <2>3. CASE e.stream = "trade" BY <1>1, <2>3, TradeHonest DEF Parse
  <2>4. CASE e.stream = "account" BY <1>1, <2>4, AccountHonest DEF Parse
  <2> QED BY <1>3, <2>1, <2>2, <2>3, <2>4
<1>4. CASE e.stream \in {"positions", "open_orders", "signal", "gate"}
  <2>1. CASE e.stream = "positions" BY <1>1, <2>1, PositionsHonest DEF Parse
  <2>2. CASE e.stream = "open_orders" BY <1>1, <2>2, OpenOrdersHonest DEF Parse
  <2>3. CASE e.stream = "signal" BY <1>1, <2>3, SignalHonest DEF Parse
  <2>4. CASE e.stream = "gate" BY <1>1, <2>4, GateHonest DEF Parse
  <2> QED BY <1>4, <2>1, <2>2, <2>3, <2>4
<1>5. CASE e.stream \in {"trade_action", "execution", "quant_levels", "tick_to_trade", "runtime_health"}
  <2>1. CASE e.stream = "trade_action" BY <1>1, <2>1, TradeActionHonest DEF Parse
  <2>2. CASE e.stream = "execution" BY <1>1, <2>2, ExecutionHonest DEF Parse
  <2>3. CASE e.stream = "quant_levels" BY <1>1, <2>3, QuantLevelsHonest DEF Parse
  <2>4. CASE e.stream = "tick_to_trade" BY <1>1, <2>4, TickToTradeHonest DEF Parse
  <2>5. CASE e.stream = "runtime_health" BY <1>1, <2>5, RuntimeHealthHonest DEF Parse
  <2> QED BY <1>5, <2>1, <2>2, <2>3, <2>4, <2>5
<1> QED
  BY <1>2, <1>3, <1>4, <1>5, StreamsAre

\* The usual value of a field is one of its values.
LEMMA UsualListed == Usual(Words) \in Words /\ Usual(Containers) \in Containers
<1>1. \E v \in {"number", "word", "[]", "BUY", "odd", "absent"} : v \in Words /\ \A w \in {"number", "word", "[]", "BUY"} \cap Words : v = w
  BY DEF Words
<1>2. \E v \in {"number", "word", "[]", "BUY", "odd", "absent"} : v \in Containers /\ \A w \in {"number", "word", "[]", "BUY"} \cap Containers : v = w
  BY DEF Containers
<1> QED
  BY <1>1, <1>2 DEF Usual

\* The entries of Init.
LEMMA AskedIsPosed == AskRecord => Posed(input)
<1> SUFFICES ASSUME AskRecord PROVE Posed(input)
  OBVIOUS
<1>1. PICK s \in DOMAIN Values : \E f, g \in DOMAIN Values[s], wrap \in Containers :
        \E a \in Values[s][f], b \in Values[s][g] :
          input = [stream |-> s, wrap |-> wrap, fields |-> [UsualEntry(s) EXCEPT ![f] = a, ![g] = b]]
  BY DEF AskRecord
<1>2. PICK V : V = Values[s]
  OBVIOUS
<1>a. PICK f \in DOMAIN V, g \in DOMAIN V, wrap \in Containers :
        \E a \in V[f], b \in V[g] :
          input = [stream |-> s, wrap |-> wrap, fields |-> [UsualEntry(s) EXCEPT ![f] = a, ![g] = b]]
  BY <1>1, <1>2
<1>3. PICK a \in V[f], b \in V[g] :
        input = [stream |-> s, wrap |-> wrap, fields |-> [UsualEntry(s) EXCEPT ![f] = a, ![g] = b]]
  BY <1>a
<1>4. PICK u : u = UsualEntry(s)
  OBVIOUS
<1>5. DOMAIN u = DOMAIN V /\ \A z \in DOMAIN V : u[z] = Usual(V[z])
  BY <1>2, <1>4 DEF UsualEntry
<1>6. PICK w : w = [u EXCEPT ![f] = a, ![g] = b]
  OBVIOUS
<1>7. DOMAIN w = DOMAIN V /\ \A z \in DOMAIN V : w[z] = IF z = g THEN b ELSE IF z = f THEN a ELSE u[z]
  BY <1>5, <1>6
<1>8. ASSUME NEW z \in DOMAIN V, V[z] \in {Words, Containers} PROVE w[z] \in V[z]
  <2>1. Usual(V[z]) \in V[z]
    BY <1>8, UsualListed
  <2> QED
    BY <1>5, <1>7, <2>1
<1>9. input.stream = s /\ input.fields = w
  BY <1>3, <1>4, <1>6
<1> QED
  BY <1>2, <1>7, <1>8, <1>9 DEF Posed

RecordInv == part = "record" => Posed(input) /\ (answer = <<>> \/ answer = <<Parse(input)>>)
LEMMA RecordInductive == MCSpec => []RecordInv
<1>1. MCInit => RecordInv
  <2> SUFFICES ASSUME MCInit, part = "record" PROVE RecordInv
    BY DEF RecordInv
  <2>1. answer = <<>>
    BY DEF MCInit
  <2>2. AskRecord
    BY DEF MCInit, Pose
  <2> QED
    BY <2>1, <2>2, AskedIsPosed DEF RecordInv
<1>2. RecordInv /\ [MCNext]_mcVars => RecordInv'
  <2> SUFFICES ASSUME RecordInv, [MCNext]_mcVars, part' = "record" PROVE RecordInv'
    BY DEF RecordInv
  <2>1. part = "record"
    BY DEF MCNext, mcVars
  <2>2. input' = input
    BY <2>1 DEF MCNext, mcVars, askVars, Decide
  <2>3. answer' = answer \/ answer' = <<Parse(input)>>
    BY <2>1 DEF MCNext, mcVars, askVars, Decide
  <2>4. Posed(input)' /\ Parse(input)' = Parse(input)
    BY <2>1, <2>2 DEF RecordInv
  <2> QED
    BY <2>1, <2>3, <2>4 DEF RecordInv
<1> QED
  BY <1>1, <1>2, PTL DEF MCSpec

\* The invariant of the records answers what a screen may show.
LEMMA RecordAnswers ==
  ASSUME RecordInv, Answered("record")
  PROVE  Posed(input) /\ Honest(input, Answer)
<1>1. answer = <<Parse(input)>> /\ Posed(input)
  BY DEF RecordInv, Answered
<1>2. Answer = Parse(input)
  BY <1>1 DEF Answer
<1> QED
  BY <1>1, <1>2, ParseHonest

\* A screen shows what was sent, in every state (RecordsShowWhatWasSent).
THEOREM RecordsAlwaysShowWhatWasSent == MCSpec => []RecordsShowWhatWasSent
<1>1. RecordInv => RecordsShowWhatWasSent
  <2> SUFFICES ASSUME RecordInv PROVE RecordsShowWhatWasSent
    OBVIOUS
  <2>1. ShownZeroWasSent
    <3> SUFFICES ASSUME Answered("record"), Answer.outcome = "record", NEW f \in DOMAIN Answer.shown \ ZeroFilled, Answer.shown[f] = "zero"
                 PROVE  \E g \in Sources(f) \cap DOMAIN input.fields : input.fields[g] = "zero"
      BY DEF ShownZeroWasSent
    <3>1. ZeroSent(input, f)
      BY RecordAnswers DEF Honest
    <3>2. f \notin FilledWithZero(input.stream)
      BY DEF FilledWithZero, ZeroFilled
    <3> QED
      BY <3>1, <3>2 DEF ZeroSent
  <2>2. EvidenceAsSent
    <3> SUFFICES ASSUME Answered("record"), Answer.outcome = "record", input.stream \in DOMAIN Evidence, NEW f \in Evidence[input.stream]
                 PROVE  Answer.shown[f] # "made up"
      BY DEF EvidenceAsSent
    <3>1. EvidenceOf(input.stream) = Evidence[input.stream]
      BY DEF EvidenceOf
    <3> QED
      BY <3>1, RecordAnswers DEF Honest
  <2>3. RaisedOnlyByOddText
    BY RecordAnswers DEF RaisedOnlyByOddText, Honest, OddText
  <2> QED
    BY <2>1, <2>2, <2>3 DEF RecordsShowWhatWasSent
<1> QED
  BY <1>1, RecordInductive, PTL

(***************************************************************************)
(* MCDecisions, specifications.  What a validation without errors says     *)
(* about a specification is what the compiler, the pipeline, the migration *)
(* to the second schema and the evaluator need.                            *)
(***************************************************************************)

\* What validation without errors means for a specification.
Sound(p) == /\ p.text = "clean" /\ Flags \subseteq p.flags /\ StrategySpec(p)
            /\ RangeErrors(p) = {} /\ \A c \in ToSet(p.clauses) : ClauseErrors(c) = {}
LEMMA ValidIsSound ==
  ASSUME NEW p, validate_strategy_spec(p) = {}
  PROVE  Sound(p)
<1>1. p.text = "clean" /\ Flags \ p.flags = {} /\ SchemaErrors(p) = {}
  BY DEF validate_strategy_spec
<1>2. StrategySpec(p)
  BY <1>1 DEF SchemaErrors
<1>3. RangeErrors(p) = {} /\ UNION {ClauseErrors(c) : c \in ToSet(p.clauses)} = {}
  BY <1>1, <1>2 DEF SchemaErrors
<1>4. ASSUME NEW c \in ToSet(p.clauses) PROVE ClauseErrors(c) = {}
  BY <1>3
<1> QED
  BY <1>1, <1>2, <1>3, <1>4 DEF Sound

\* A clause without errors has two operands that the evaluator knows.
LEMMA ClauseReads ==
  ASSUME NEW c, ClauseErrors(c) = {}
  PROVE  Len(c.operands) = 2 /\ c.operands[1] # "unknown" /\ c.operands[2] # "unknown"
<1>1. Len(c.operands) = 2
  BY DEF ClauseErrors
<1>2. ~\E i \in 1..2 : c.operands[i] = "unknown"
  BY <1>1 DEF ClauseErrors
<1>3. 1 \in 1..2 /\ 2 \in 1..2
  OBVIOUS
<1> QED
  BY <1>1, <1>2, <1>3

\* The pipeline succeeds, and gets past its first step, only without errors;
\* then its second step succeeds too.
LEMMA PipelineIs ==
  ASSUME NEW p
  PROVE  /\ run_pipeline(p).success \in BOOLEAN
         /\ run_pipeline(p).success => Sound(p)
         /\ run_pipeline(p).steps # <<>> => run_pipeline(p).steps[2] # "failed"
<1>1. PICK errors : errors = validate_strategy_spec(p)
  OBVIOUS
<1>2. PICK r : r = run_pipeline(p)
  OBVIOUS
<1>3. CASE "raises" \in errors
  <2>1. r = [steps |-> <<>>, success |-> FALSE]
    BY <1>1, <1>2, <1>3 DEF run_pipeline
  <2> QED
    BY <1>2, <2>1
<1>4. CASE "raises" \notin errors /\ errors # {}
  <2>1. r = [steps |-> Steps(1, "failed"), success |-> FALSE]
    BY <1>1, <1>2, <1>4 DEF run_pipeline
  <2>2. Steps(1, "failed")[2] = "skipped"
    BY DEF Steps
  <2> QED
    BY <1>2, <2>1, <2>2
<1>5. CASE errors = {}
  <2>1. Sound(p)
    BY <1>1, <1>5, ValidIsSound
  <2>2. p.family = "classic_v1" /\ parse_strategy_spec(p)
    BY <2>1 DEF Sound, StrategySpec, parse_strategy_spec
  <2>3. compile_strategy_spec(p, "backtest").profile = "backtest"
    BY <2>2 DEF compile_strategy_spec
  <2>4. compile_strategy_spec(p, "backtest") # CompileFails
    BY <2>3 DEF CompileFails
  <2>5. r = [steps |-> Steps(4, "succeeded"), success |-> TRUE]
    BY <1>1, <1>2, <1>5, <2>4 DEF run_pipeline
  <2>6. Steps(4, "succeeded")[2] = "succeeded"
    BY DEF Steps
  <2> QED
    BY <1>2, <2>1, <2>5, <2>6
<1> QED
  BY <1>3, <1>4, <1>5

\* The specifications of Init and their answers.
SpecInv == part = "spec" => input \in Classic \cup Micro /\ (answer = <<>> \/ answer = <<AnswerSpec(input)>>)
HealthInv == part = "health" =>
  /\ \E f \in Features, h \in HealthRecords : input = [feature |-> f, health |-> h]
  /\ answer = <<>> \/ answer = <<HealthViolations({input.feature}, [f \in {input.feature} |-> input.health])>>
LEMMA SpecInductive == MCSpec => [](SpecInv /\ HealthInv)
<1>1. MCInit => SpecInv /\ HealthInv
  <2> SUFFICES ASSUME MCInit PROVE SpecInv /\ HealthInv
    OBVIOUS
  <2>1. answer = <<>>
    BY DEF MCInit
  <2>2. part = "spec" => input \in Classic \cup Micro
    BY DEF MCInit, Pose
  <2>3. part = "health" => \E f \in Features, h \in HealthRecords : input = [feature |-> f, health |-> h]
    BY DEF MCInit, Pose
  <2> QED
    BY <2>1, <2>2, <2>3 DEF SpecInv, HealthInv
<1>2. SpecInv /\ HealthInv /\ [MCNext]_mcVars => (SpecInv /\ HealthInv)'
  <2> SUFFICES ASSUME SpecInv, HealthInv, [MCNext]_mcVars PROVE SpecInv' /\ HealthInv'
    OBVIOUS
  <2>1. part' = part
    BY DEF MCNext, mcVars
  <2>2. input' = input
    BY DEF MCNext, mcVars, askVars, Decide
  <2>3. part = "spec" => answer' = answer \/ answer' = <<AnswerSpec(input)>>
    BY DEF MCNext, mcVars, askVars, Decide
  <2>4. part = "health" => answer' = answer \/ answer' = <<HealthViolations({input.feature}, [f \in {input.feature} |-> input.health])>>
    BY DEF MCNext, mcVars, askVars, Decide
  <2>5. SpecInv'
    BY <2>1, <2>2, <2>3 DEF SpecInv
  <2>6. HealthInv'
    BY <2>1, <2>2, <2>4 DEF HealthInv
  <2> QED
    BY <2>5, <2>6
<1> QED
  BY <1>1, <1>2, PTL DEF MCSpec

\* Every clause with operands is kept.
LEMMA AllKept ==
  ASSUME NEW p, NEW n \in Nat, DOMAIN p.clauses = 1..n, \A i \in 1..n : p.clauses[i].operands # <<>>
  PROVE  DOMAIN MigratedConditions(p) = 1..n
<1>1. {i \in DOMAIN p.clauses : p.clauses[i].operands # <<>>} = 1..n
  OBVIOUS
<1>2. Cardinality(1..n) = n
  BY FS_Interval
<1>3. Ascending(1..n) \in [1..n -> 1..n]
  <2>1. 1..n \subseteq 1..n
    OBVIOUS
  <2> QED
    BY <1>2, <2>1, AscendingIs
<1>4. DOMAIN Ascending(1..n) = 1..n
  BY <1>3
<1> QED
  BY <1>1, <1>4 DEF MigratedConditions, Kept

\* The specifications of Init have lists of clauses, and classic ones ranges
\* between two dates.
LEMMA SpecTypes ==
  /\ \A p \in Classic : /\ p.clauses \in Seq(RuleClauses \cup {Usable})
                         /\ DOMAIN p.range = 1..2 /\ p.range[1] \in Dates /\ p.range[2] \in Dates
  /\ \A p \in Micro : p.family = "microstructure_v1"
<1>1. \A p \in Micro : p.family = "microstructure_v1"
  BY DEF Micro
<1>2. ASSUME NEW p \in Classic PROVE p.clauses \in Seq(RuleClauses \cup {Usable})
  <2>1. p.clauses \in {<<>>} \cup {<<c>> : c \in RuleClauses} \cup {<<Usable, c>> : c \in RuleClauses}
    BY DEF Classic
  <2>2. PICK R : R = RuleClauses \cup {Usable}
    OBVIOUS
  <2>3. \A c, u \in R : <<c>> \in Seq(R) /\ <<u, c>> \in Seq(R)
    OBVIOUS
  <2>4. <<>> \in Seq(R)
    OBVIOUS
  <2> QED
    BY <2>1, <2>2, <2>3, <2>4
<1>3. ASSUME NEW p \in Classic PROVE DOMAIN p.range = 1..2 /\ p.range[1] \in Dates /\ p.range[2] \in Dates
  <2>1. p.range \in {<<d, [at |-> 2, zoned |-> TRUE]>> : d \in Dates}
    BY DEF Classic
  <2>2. PICK d \in Dates : p.range = <<d, [at |-> 2, zoned |-> TRUE]>>
    BY <2>1
  <2>3. [at |-> 2, zoned |-> TRUE] \in Dates
    BY DEF Dates
  <2>4. DOMAIN p.range = 1..2 /\ p.range[1] = d /\ p.range[2] = [at |-> 2, zoned |-> TRUE]
    BY <2>2
  <2> QED
    BY <2>3, <2>4
<1> QED
  BY <1>1, <1>2, <1>3

\* A sound specification of Init: its range and its clauses.
LEMMA SoundMeans ==
  ASSUME NEW p \in Classic \cup Micro, Sound(p)
  PROVE  /\ p.range[1] # Junk /\ p.range[1].zoned = p.range[2].zoned /\ p.range[1].at < p.range[2].at
         /\ EvaluatorReads(p)
         /\ p \in Classic /\ \A i \in DOMAIN p.clauses : p.clauses[i].operands # <<>>
<1>1. p \in Classic
  BY SpecTypes DEF Sound, StrategySpec
<1>2. PICK s, u : s = p.range[1] /\ u = p.range[2] /\ s \in Dates /\ u \in Dates
  BY <1>1, SpecTypes
<1>3. s # Junk /\ u # Junk /\ s.zoned = u.zoned /\ ~(s.at >= u.at)
  BY <1>2 DEF Sound, RangeErrors
<1>4. s.at \in Int /\ u.at \in Int
  BY <1>2, <1>3 DEF Dates
<1>5. s.at < u.at
  BY <1>3, <1>4
<1>6. EvaluatorReads(p)
  BY ClauseReads DEF Sound, EvaluatorReads
<1>7. ASSUME NEW i \in DOMAIN p.clauses PROVE p.clauses[i].operands # <<>>
  <2>1. PICK c : c = p.clauses[i] /\ c \in ToSet(p.clauses)
    BY DEF ToSet
  <2>2. Len(c.operands) = 2
    BY <2>1, ClauseReads DEF Sound
  <2>3. ASSUME c.operands = <<>> PROVE FALSE
    <3>1. Len(c.operands) = Len(<<>>)
      BY <2>3, Zenon
    <3> QED
      BY <2>2, <3>1
  <2> QED
    BY <2>1, <2>3
<1> QED
  BY <1>1, <1>2, <1>3, <1>5, <1>6, <1>7

LEMMA SpecAnswers ==
  ASSUME SpecInv, Answered("spec")
  PROVE  input \in Classic \cup Micro /\ Answer = AnswerSpec(input)
<1>1. answer = <<AnswerSpec(input)>>
  BY DEF SpecInv, Answered
<1> QED
  BY <1>1 DEF SpecInv, Answered, Answer

LEMMA AlwaysPromotedIsSound == SpecInv => PromotedIsSound
<1> SUFFICES ASSUME SpecInv, Answered("spec"), Answer.promotion = "requested"
             PROVE  /\ input.range[1] # Junk /\ input.range[1].zoned = input.range[2].zoned /\ input.range[1].at < input.range[2].at
                    /\ Flags \subseteq input.flags /\ input.text = "clean" /\ EvaluatorReads(input)
  BY DEF PromotedIsSound
<1>1. PICK p \in Classic \cup Micro : p = input /\ Answer.promotion = pipeline_promotion(run_pipeline(p))
  BY SpecAnswers DEF AnswerSpec
<1>2. run_pipeline(p).success
  BY <1>1, PipelineIs DEF pipeline_promotion
<1>3. Sound(p)
  BY <1>2, PipelineIs
<1>4. p.text = "clean" /\ Flags \subseteq p.flags
  BY <1>3 DEF Sound
<1> QED
  BY <1>1, <1>3, <1>4, SoundMeans

LEMMA AlwaysValidCompiles == SpecInv => ValidCompiles
<1> SUFFICES ASSUME SpecInv, Answered("spec")
             PROVE  /\ Answer.pipeline.steps # <<>> => Answer.pipeline.steps[2] # "failed"
                    /\ Answer.pipeline.success => Answer.bundle.scan /\ Answer.bundle.risk = "good"
  BY DEF ValidCompiles
<1>1. PICK p : p = input /\ Answer.pipeline = run_pipeline(p) /\ Answer.bundle = compile_strategy_spec_bundle(p, "backtest")
  BY SpecAnswers DEF AnswerSpec
<1>2. Answer.pipeline.steps # <<>> => Answer.pipeline.steps[2] # "failed"
  BY <1>1, PipelineIs
<1>3. ASSUME Answer.pipeline.success PROVE Answer.bundle.scan /\ Answer.bundle.risk = "good"
  <2>1. Sound(p)
    BY <1>1, <1>3, PipelineIs
  <2>2. p.text = "clean" /\ p.risk = "good" /\ p.family = "classic_v1" /\ parse_strategy_spec(p)
    BY <2>1 DEF Sound, StrategySpec, RiskBlock, parse_strategy_spec
  <2>3. StaticScan(p) /\ BundleRisk(p) = "good"
    BY <2>2 DEF StaticScan, BundleRisk
  <2>4. compile_strategy_spec_bundle(p, "backtest").scan = StaticScan(p) /\ compile_strategy_spec_bundle(p, "backtest").risk = BundleRisk(p)
    BY <2>2 DEF compile_strategy_spec_bundle
  <2> QED
    BY <1>1, <2>3, <2>4
<1> QED
  BY <1>2, <1>3

LEMMA AlwaysTimelessHash == SpecInv => TimelessHash
<1> SUFFICES ASSUME SpecInv, Answered("spec") PROVE Cardinality(Answer.hashes) <= 1
  BY DEF TimelessHash
<1>1. PICK p : p = input /\ Answer.hashes = IF parse_strategy_spec(p) THEN {FullArtifactBundle(p, "backtest", t).artifact_hash : t \in 1..2} ELSE {}
  BY SpecAnswers DEF AnswerSpec
<1>2. PICK b : b = [spec |-> p, ir |-> FeatureGraph(p), profile |-> "backtest"]
  OBVIOUS
<1>3. \A t : FullArtifactBundle(p, "backtest", t).artifact_hash = b
  BY <1>2 DEF FullArtifactBundle, BundleHash
<1>4. {FullArtifactBundle(p, "backtest", t).artifact_hash : t \in 1..2} = {b}
  BY <1>3
<1>5. Cardinality({b}) = 1 /\ Cardinality({}) = 0
  BY FS_Singleton, FS_EmptySet
<1>6. Answer.hashes = {b} \/ Answer.hashes = {}
  BY <1>1, <1>4
<1> QED
  BY <1>5, <1>6

LEMMA AlwaysMigrationKeepsClauses == SpecInv => MigrationKeepsClauses
<1> SUFFICES ASSUME SpecInv, Answered("spec"), Answer.errors = {}, Answer.migrated.outcome = "v2"
             PROVE  Len(Answer.migrated.conditions) = Len(input.clauses)
  BY DEF MigrationKeepsClauses
<1>1. PICK p \in Classic \cup Micro :
        /\ p = input /\ Answer.errors = validate_strategy_spec(p)
        /\ Answer.migrated = IF p.family = "classic_v1" /\ StrategySpec(p) THEN migrate_v1_to_v2(p) ELSE [outcome |-> "none"]
  BY SpecAnswers DEF AnswerSpec
<1>2. Sound(p)
  BY <1>1, ValidIsSound
<1>3. p \in Classic /\ \A i \in DOMAIN p.clauses : p.clauses[i].operands # <<>>
  BY <1>2, SoundMeans
<1>4. PICK n \in Nat : n = Len(p.clauses) /\ DOMAIN p.clauses = 1..n
  BY <1>3, SpecTypes, LenProperties
<1>5. DOMAIN MigratedConditions(p) = 1..n
  BY <1>3, <1>4, AllKept
<1>6. Answer.migrated = migrate_v1_to_v2(p)
  BY <1>1, <1>2 DEF Sound, StrategySpec
<1>7. ~(p.version # "1.0.0" \/ p.indicators = {})
  BY <1>6 DEF migrate_v1_to_v2
<1>8. Answer.migrated.conditions = [i \in DOMAIN MigratedConditions(p) |-> [primitive |-> "compare", operands |-> MigratedConditions(p)[i].operands]]
  BY <1>6, <1>7 DEF migrate_v1_to_v2
<1>9. PICK s : s = Answer.migrated.conditions
  OBVIOUS
<1>10. DOMAIN s = 1..n /\ s = [i \in 1..n |-> [primitive |-> "compare", operands |-> MigratedConditions(p)[i].operands]]
  BY <1>5, <1>8, <1>9
<1>11. Len(s) = n
  BY <1>10
<1> QED
  BY <1>1, <1>4, <1>9, <1>11

LEMMA AlwaysHealthFailsClosed == HealthInv => SourceHealthFailsClosed
<1> SUFFICES ASSUME HealthInv, Answered("health"), Answer = {}, input.feature.required, input.feature.failClosed
             PROVE  /\ input.health.known /\ ~input.health.missing /\ ~input.health.synthetic
                    /\ input.health.stale => input.feature.maxStale # 0 /\ input.health.age <= input.feature.maxStale
  BY DEF SourceHealthFailsClosed
<1>1. PICK f \in Features, h \in HealthRecords : input = [feature |-> f, health |-> h]
  BY DEF HealthInv, Answered
<1>2. input.feature = f /\ input.health = h
  BY <1>1
<1>3. answer = <<HealthViolations({f}, [g \in {f} |-> h])>>
  BY <1>2 DEF HealthInv, Answered
<1>4. HealthViolations({f}, [g \in {f} |-> h]) = {}
  BY <1>3 DEF Answer
<1>5. {g \in {f} : g.required} = {f}
  BY <1>2
<1>6. Violations(f, h) = {}
  BY <1>4, <1>5 DEF HealthViolations
<1>7. h.known /\ ~h.missing /\ ~h.synthetic /\ ~(h.stale /\ (f.maxStale = 0 \/ h.age > f.maxStale))
  <2>1. \A v \in {"unknown", "missing", "stale", "synthetic"} :
          ~(\/ v = "unknown" /\ ~h.known /\ f.failClosed
            \/ v = "missing" /\ h.known /\ h.missing /\ f.failClosed
            \/ v = "stale" /\ h.known /\ h.stale /\ (f.maxStale = 0 \/ h.age > f.maxStale)
            \/ v = "synthetic" /\ h.known /\ h.synthetic /\ f.failClosed)
    BY <1>6 DEF Violations
  <2>2. f.failClosed
    BY <1>2
  <2>3. h.known
    BY <2>1, <2>2
  <2> QED
    BY <2>1, <2>2, <2>3
<1>8. h.age \in Int /\ f.maxStale \in Int
  BY DEF Features, HealthRecords
<1> QED
  BY <1>2, <1>7, <1>8

\* Validator, compiler, pipeline, migration and health check agree about every
\* specification posed, in every state (SpecsAreSound).
THEOREM SpecsAlwaysSound == MCSpec => []SpecsAreSound
<1>1. SpecInv /\ HealthInv => SpecsAreSound
  BY AlwaysPromotedIsSound, AlwaysValidCompiles, AlwaysTimelessHash, AlwaysMigrationKeepsClauses, AlwaysHealthFailsClosed DEF SpecsAreSound
<1> QED
  BY <1>1, SpecInductive, PTL

(***************************************************************************)
(* MCDecisions, evidence.  Lists that keep some entries in their order,    *)
(* the release gate case by case, and the evidence summary.                *)
(***************************************************************************)

\* All positions in ascending order are the positions themselves.
LEMMA AscendingAll ==
  ASSUME NEW n \in Nat
  PROVE  DOMAIN Ascending(1..n) = 1..n /\ \A i \in 1..n : Ascending(1..n)[i] = i
<1>1. Cardinality(1..n) = n /\ 1..n \subseteq 1..n
  BY FS_Interval
<1>2. PICK s : s = Ascending(1..n)
  OBVIOUS
<1>3. s \in [1..n -> 1..n] /\ Ascends(s) /\ ToSet(s) = 1..n
  BY <1>1, <1>2, AscendingIs
<1>4. DOMAIN s = 1..n /\ (\A i \in 1..n : s[i] \in 1..n) /\ \A i, j \in 1..n : i < j => s[i] < s[j]
  BY <1>3 DEF Ascends
<1>5. \A v \in 1..n : \E j \in 1..n : s[j] = v
  BY <1>3, <1>4 DEF ToSet
<1> DEFINE T == {i \in Nat : i \in 1..n /\ s[i] # i}
<1>6. ASSUME T # {} PROVE FALSE
  <2>1. PICK i \in T : \A y \in T : i <= y
    BY <1>6, NatMin, Zenon
  <2>2. i \in 1..n /\ s[i] # i /\ \A y \in 1..n : y < i => s[y] = y
    BY <2>1
  <2>3. PICK j \in 1..n : s[j] = i
    BY <1>5, <2>2
  <2>4. i < j
    BY <2>2, <2>3
  <2>5. s[i] < i
    BY <1>4, <2>2, <2>3, <2>4
  <2>6. PICK v \in 1..n : v = s[i]
    BY <1>4, <2>2
  <2>7. s[v] = v /\ v < i
    BY <2>2, <2>5, <2>6
  <2>8. s[v] < s[i]
    BY <1>4, <2>2, <2>7
  <2> QED
    BY <2>6, <2>7, <2>8
<1>7. \A i \in 1..n : s[i] = i
  BY <1>6
<1> QED
  BY <1>2, <1>4, <1>7

\* What is kept: as many as there are positions, each from one of them, and
\* nothing is left out when all are kept.
LEMMA KeptIs ==
  ASSUME NEW list, NEW b \in Nat, NEW P, P \subseteq 1..b
  PROVE  /\ Cardinality(P) \in Nat /\ DOMAIN Kept(list, P) = 1..Cardinality(P)
         /\ \A k \in 1..Cardinality(P) : Ascending(P)[k] \in P /\ Kept(list, P)[k] = list[Ascending(P)[k]]
BY AscendingIs DEF Kept
LEMMA KeptAll ==
  ASSUME NEW s, NEW n \in Nat
  PROVE  DOMAIN Kept(s, 1..n) = 1..n /\ \A k \in 1..n : Kept(s, 1..n)[k] = s[k]
BY AscendingAll DEF Kept
\* The last of the positions in ascending order is the highest.
LEMMA LastIsMax ==
  ASSUME NEW b \in Nat, NEW S, S \subseteq 1..b, S # {}
  PROVE  Cardinality(S) \in Nat \ {0} /\ Ascending(S)[Cardinality(S)] = Max(S)
<1>1. PICK c \in Nat : c = Cardinality(S)
  BY AscendingIs
<1>2. PICK s : s = Ascending(S)
  OBVIOUS
<1>3. s \in [1..c -> S] /\ Ascends(s) /\ ToSet(s) = S
  BY <1>1, <1>2, AscendingIs
<1>4. DOMAIN s = 1..c /\ (\A i \in 1..c : s[i] \in S) /\ \A i, j \in 1..c : i < j => s[i] < s[j]
  BY <1>3 DEF Ascends
<1>5. \A v \in S : \E j \in 1..c : s[j] = v
  BY <1>3, <1>4 DEF ToSet
<1>6. c # 0
  <2>1. PICK v \in S : TRUE
    OBVIOUS
  <2>2. PICK j \in 1..c : s[j] = v
    BY <1>5, <2>1
  <2> QED
    BY <2>2
<1>7. c \in 1..c
  BY <1>1, <1>6
<1>8. \A v \in S : v \in Nat
  OBVIOUS
<1>9. ASSUME NEW v \in S PROVE s[c] >= v
  <2>1. PICK j \in 1..c : s[j] = v
    BY <1>5
  <2>2. j = c \/ j < c
    BY <2>1
  <2>3. s[c] \in Nat /\ v \in Nat
    BY <1>4, <1>7, <1>8
  <2> QED
    BY <1>4, <1>7, <2>1, <2>2, <2>3
<1>10. s[c] \in S
  BY <1>4, <1>7
<1>11. PICK m : m = Max(S)
  OBVIOUS
<1>12. m \in S /\ \A y \in S : m >= y
  BY <1>9, <1>10, <1>11 DEF Max
<1>13. m = s[c]
  <2>1. m \in Nat /\ s[c] \in Nat /\ m >= s[c] /\ s[c] >= m
    BY <1>8, <1>9, <1>10, <1>12
  <2> QED
    BY <2>1
<1> QED
  BY <1>1, <1>2, <1>6, <1>11, <1>13

GateInv == part = "gate" => input.level \in Levels /\ (answer = <<>> \/ answer = <<evaluate(input.evidence, input.level)>>)
SummaryInv == part = "summary" =>
  /\ \E n \in Nat : DOMAIN input.jobs = 1..n
  /\ answer = <<>> \/ answer = <<evidence_summary(input.status, input.flags, input.jobs)>>
ReportInv == part = "report" =>
  /\ \E n \in Nat : DOMAIN input = 1..n /\ \A i \in 1..n : input[i] = Odd \/ \E v \in Int : input[i] = <<v>>
  /\ answer = <<>> \/ answer = <<build_report_summary(input)>>
EvidenceInv == GateInv /\ SummaryInv /\ ReportInv
LEMMA EvidenceInductive == MCSpec => []EvidenceInv
<1>1. MCInit => EvidenceInv
  <2> SUFFICES ASSUME MCInit PROVE EvidenceInv
    OBVIOUS
  <2>1. answer = <<>>
    BY DEF MCInit
  <2>2. ASSUME part = "gate" PROVE input.level \in Levels
    <3>1. PICK evidence \in SUBSET (EvidenceKinds \cup {"synthetic"}), level \in Levels : input = [evidence |-> evidence, level |-> level]
      BY <2>2 DEF MCInit, Pose
    <3> QED
      BY <3>1
  <2>3. ASSUME part = "summary" PROVE \E n \in Nat : DOMAIN input.jobs = 1..n
    <3>1. PICK status \in {"draft", "backtested", "approved"}, flags \in SUBSET BOOLEAN, n \in 0..2 :
            \E jobs \in [1..n -> Jobs] : input = [status |-> status, flags |-> flags, jobs |-> jobs]
      BY <2>3 DEF MCInit, Pose
    <3>2. PICK jobs \in [1..n -> Jobs] : input = [status |-> status, flags |-> flags, jobs |-> jobs]
      BY <3>1
    <3>3. input.jobs = jobs /\ DOMAIN jobs = 1..n /\ n \in Nat
      BY <3>2
    <3> QED
      BY <3>3
  <2>4. ASSUME part = "report" PROVE \E n \in Nat : DOMAIN input = 1..n /\ \A i \in 1..n : input[i] = Odd \/ \E v \in Int : input[i] = <<v>>
    <3>1. PICK n \in 0..4 : input \in [1..n -> {Odd} \cup {<<v>> : v \in Equities}]
      BY <2>4 DEF MCInit, Pose
    <3>2. DOMAIN input = 1..n /\ \A i \in 1..n : input[i] \in {Odd} \cup {<<v>> : v \in Equities}
      BY <3>1
    <3>3. \A v \in Equities : v \in Int
      BY DEF Equities
    <3>4. \A i \in 1..n : input[i] = Odd \/ \E v \in Int : input[i] = <<v>>
      BY <3>2, <3>3
    <3> QED
      BY <3>2, <3>4
  <2> QED
    BY <2>1, <2>2, <2>3, <2>4 DEF EvidenceInv, GateInv, SummaryInv, ReportInv
<1>2. EvidenceInv /\ [MCNext]_mcVars => EvidenceInv'
  <2> SUFFICES ASSUME EvidenceInv, [MCNext]_mcVars PROVE EvidenceInv'
    OBVIOUS
  <2>1. part' = part
    BY DEF MCNext, mcVars
  <2>2. input' = input
    BY DEF MCNext, mcVars, askVars, Decide
  <2>3. part = "gate" => answer' = answer \/ answer' = <<evaluate(input.evidence, input.level)>>
    BY DEF MCNext, mcVars, askVars, Decide
  <2>4. part = "summary" => answer' = answer \/ answer' = <<evidence_summary(input.status, input.flags, input.jobs)>>
    BY DEF MCNext, mcVars, askVars, Decide
  <2>5. part = "report" => answer' = answer \/ answer' = <<build_report_summary(input)>>
    BY DEF MCNext, mcVars, askVars, Decide
  <2> QED
    BY <2>1, <2>2, <2>3, <2>4, <2>5 DEF EvidenceInv, GateInv, SummaryInv, ReportInv
<1> QED
  BY <1>1, <1>2, PTL DEF MCSpec

LEMMA AlwaysGated == EvidenceInv => PolicyEvidenceSuffices /\ GrantedHasEvidence
<1> SUFFICES ASSUME EvidenceInv, Answered("gate") PROVE PolicyEvidenceSuffices /\ GrantedHasEvidence
  BY DEF PolicyEvidenceSuffices, GrantedHasEvidence
<1>1. answer = <<evaluate(input.evidence, input.level)>> /\ input.level \in Levels
  BY DEF EvidenceInv, GateInv, Answered
<1>2. PICK evidence, level : input.evidence = evidence /\ input.level = level /\ level \in Levels
  BY <1>1
<1>3. Answer = evaluate(evidence, level)
  BY <1>1, <1>2 DEF Answer
<1>4. PolicyEvidenceSuffices
  <2> SUFFICES ASSUME level # "live_candidate_external_only", \A k \in RequiredEvidence(level) : Provides(evidence, k)
               PROVE  evaluate(evidence, level) = "allowed"
    BY <1>2, <1>3 DEF PolicyEvidenceSuffices
  <2>1. level \in NeedsCompile => "compile" \in evidence
    BY DEF RequiredEvidence, Provides, NeedsCompile, Levels
  <2>2. level = "shadow_signal_preview" => "validation" \in evidence
    BY DEF RequiredEvidence, Provides
  <2>3. level \in {"backtested_catalog", "shadow_signal_preview"} => "backtest" \in evidence
    BY DEF RequiredEvidence, Provides
  <2>4. level = "backtested_catalog" => "synthetic" \notin evidence
    BY DEF RequiredEvidence, Provides
  <2> QED
    BY <2>1, <2>2, <2>3, <2>4 DEF evaluate
<1>5. GrantedHasEvidence
  <2> SUFFICES ASSUME evaluate(evidence, level) = "allowed"
               PROVE  /\ level = "shadow_signal_preview" => \A k \in RequiredEvidence(level) : Provides(evidence, k)
                      /\ level = "backtested_catalog" => Provides(evidence, "real") /\ Provides(evidence, "compile")
    BY <1>2, <1>3 DEF GrantedHasEvidence
  <2>1. level \in NeedsCompile => "compile" \in evidence
    BY DEF evaluate
  <2>2. level = "shadow_signal_preview" => "validation" \in evidence /\ "backtest" \in evidence
    BY DEF evaluate
  <2>3. level = "backtested_catalog" => "backtest" \in evidence /\ "synthetic" \notin evidence
    BY DEF evaluate
  <2>4. "shadow_signal_preview" \in NeedsCompile /\ "backtested_catalog" \in NeedsCompile
    BY DEF NeedsCompile, Levels
  <2>5. RequiredEvidence("shadow_signal_preview") = {"validation", "compile", "backtest"}
    BY DEF RequiredEvidence
  <2> QED
    BY <2>1, <2>2, <2>3, <2>4, <2>5 DEF Provides
<1> QED
  BY <1>4, <1>5

LEMMA AlwaysPassedMeansSucceeded == EvidenceInv => PassedMeansSucceeded
<1> SUFFICES ASSUME EvidenceInv, Answered("summary"), NEW S, S = {i \in DOMAIN input.jobs : input.jobs[i].mine}
             PROVE  /\ Len(Answer.audit) = Cardinality(S)
                    /\ Answer.replay = "passed" => S # {} /\ input.jobs[Max(S)].status = "succeeded"
  BY DEF PassedMeansSucceeded
<1>1. PICK n \in Nat : DOMAIN input.jobs = 1..n
  BY DEF EvidenceInv, SummaryInv, Answered
<1>2. S \subseteq 1..n
  BY <1>1
<1>3. PICK own : own = OwnJobs(input.jobs)
  OBVIOUS
<1>4. own = Kept(input.jobs, S)
  BY <1>3 DEF OwnJobs
<1>a. PICK jobs : jobs = input.jobs
  OBVIOUS
<1>5. PICK c \in Nat : c = Cardinality(S) /\ DOMAIN own = 1..c /\ \A k \in 1..c : own[k] = jobs[Ascending(S)[k]]
  <2>1. Cardinality(S) \in Nat
    BY <1>2, KeptIs
  <2>2. DOMAIN Kept(jobs, S) = 1..Cardinality(S)
    BY <1>2, KeptIs
  <2>3. \A i \in 1..Cardinality(S) : Kept(jobs, S)[i] = jobs[Ascending(S)[i]]
    BY <1>2, KeptIs
  <2> QED
    BY <1>4, <1>a, <2>1, <2>2, <2>3
<1>6. Answer = evidence_summary(input.status, input.flags, input.jobs)
  <2>1. answer = <<evidence_summary(input.status, input.flags, input.jobs)>>
    BY DEF EvidenceInv, SummaryInv, Answered
  <2> QED
    BY <2>1 DEF Answer
<1>7. /\ Answer.audit = [i \in DOMAIN own |-> ReplayEvent(ReplayStatus(own[i]))]
      /\ Answer.replay = IF own = <<>> THEN "missing" ELSE ReplayStatus(own[Len(own)])
  BY <1>3, <1>6 DEF evidence_summary
<1>8. Len(Answer.audit) = c
  <2>1. PICK a : a = Answer.audit
    OBVIOUS
  <2>2. a = [i \in 1..c |-> ReplayEvent(ReplayStatus(own[i]))]
    BY <1>5, <1>7, <2>1
  <2>3. Len(a) = c
    BY <2>2
  <2> QED
    BY <2>1, <2>3
<1>9. own = [i \in 1..c |-> jobs[Ascending(S)[i]]]
  BY <1>4, <1>5, <1>a DEF Kept
<1>10. Len(own) = c
  BY <1>9
<1>11. ASSUME Answer.replay = "passed" PROVE S # {} /\ input.jobs[Max(S)].status = "succeeded"
  <2>1. own # <<>> /\ ReplayStatus(own[c]) = "passed"
    BY <1>7, <1>10, <1>11
  <2>2. own[c].status = "succeeded"
    BY <2>1 DEF ReplayStatus
  <2>3. S # {}
    <3> SUFFICES ASSUME S = {} PROVE FALSE
      OBVIOUS
    <3>1. c = 0
      BY <1>5, FS_EmptySet
    <3>2. own \in Seq({}) /\ Len(own) = 0
      BY <1>9, <1>10, <3>1
    <3> QED
      BY <2>1, <3>2, EmptySeq
  <2>4. c # 0 /\ Ascending(S)[c] = Max(S)
    BY <1>2, <1>5, <2>3, LastIsMax
  <2>5. own[c] = jobs[Max(S)]
    BY <1>5, <2>4
  <2> QED
    BY <1>a, <2>2, <2>3, <2>5
<1> QED
  BY <1>5, <1>8, <1>11

(***************************************************************************)
(* The metrics of a report, for a curve of any length.  The loop of        *)
(* _max_drawdown is followed value by value: after i values its peak is    *)
(* the highest of them, and its worst the worst loss between two of them.  *)
(***************************************************************************)

\* Multiplying and dividing by what is positive.
LEMMA Scaled == \A a, b \in Int : \A k \in Nat : a <= b => a * k <= b * k
OBVIOUS
LEMMA Unscaled == \A a, b \in Int : \A k \in Nat \ {0} : k * a <= k * b => a <= b
OBVIOUS
Fractions == Int \X (Nat \ {0})
\* The order of fractions.
LEMMA LessTransitive ==
  ASSUME NEW x \in Fractions, NEW y \in Fractions, NEW z \in Fractions, ~Less(y, x), ~Less(z, y)
  PROVE  ~Less(z, x)
<1>1. PICK a, b : a \in Int /\ b \in Nat \ {0} /\ x[1] = a /\ x[2] = b
  BY DEF Fractions
<1>2. PICK c, d : c \in Int /\ d \in Nat \ {0} /\ y[1] = c /\ y[2] = d
  BY DEF Fractions
<1>3. PICK e, f : e \in Int /\ f \in Nat \ {0} /\ z[1] = e /\ z[2] = f
  BY DEF Fractions
<1>4. a * d <= c * b /\ c * f <= e * d
  BY <1>1, <1>2, <1>3 DEF Less
<1>5. (a * d) * f <= (c * b) * f
  BY <1>1, <1>2, <1>3, <1>4, Scaled
<1>6. (c * f) * b <= (e * d) * b
  BY <1>1, <1>2, <1>3, <1>4, Scaled
<1>7. (c * b) * f = (c * f) * b /\ (a * d) * f = d * (a * f) /\ (e * d) * b = d * (e * b)
  BY <1>1, <1>2, <1>3
<1>8. a * f \in Int /\ e * b \in Int /\ (c * b) * f \in Int /\ d * (a * f) \in Int /\ d * (e * b) \in Int
  BY <1>1, <1>2, <1>3
<1>9. d * (a * f) <= d * (e * b)
  BY <1>5, <1>6, <1>7, <1>8
<1>10. a * f <= e * b
  BY <1>2, <1>8, <1>9, Unscaled
<1> QED
  BY <1>1, <1>3, <1>8, <1>10 DEF Less

\* A loop over a list has a state after every turn: the function that
\* max_drawdown and the compounded returns are read from exists.
LEMMA DrawdownLoopIs ==
  ASSUME NEW curve, NEW n \in Nat, n = Len(curve)
  PROVE  LET L == DrawdownLoop(curve) IN
         /\ L[0] = [peak |-> curve[1], worst |-> <<0, 1>>]
         /\ \A i \in 1..n : L[i] = DrawdownStep(L[i - 1], curve[i])
<1>1. PICK base : base = [peak |-> curve[1], worst |-> <<0, 1>>]
  OBVIOUS
<1> DEFINE Runs(g, k) == g = [i \in 0..k |-> IF i = 0 THEN base ELSE DrawdownStep(g[i - 1], curve[i])]
           T == {k \in Nat : ~\E g : Runs(g, k)}
<1>2. ASSUME T # {} PROVE FALSE
  <2>1. PICK m \in T : \A y \in T : m <= y
    BY <1>2, NatMin, Zenon
  <2>2. m \in Nat /\ ~\E g : Runs(g, m)
    OBVIOUS
  <2>3. CASE m = 0
    <3>1. PICK g : g = [i \in 0..0 |-> base]
      OBVIOUS
    <3>2. g = [i \in 0..0 |-> IF i = 0 THEN base ELSE DrawdownStep(g[i - 1], curve[i])]
      BY <3>1
    <3> QED
      BY <2>2, <2>3, <3>2
  <2>4. CASE m # 0
    <3>1. m - 1 \in Nat /\ ~(m <= m - 1)
      BY <2>2, <2>4
    <3>2. PICK g : Runs(g, m - 1)
      BY <2>1, <3>1
    <3>3. PICK h : h = [i \in 0..m |-> IF i = m THEN DrawdownStep(g[m - 1], curve[m]) ELSE g[i]]
      OBVIOUS
    <3>4. ASSUME NEW i \in 0..m PROVE h[i] = IF i = 0 THEN base ELSE DrawdownStep(h[i - 1], curve[i])
      <4>1. CASE i = m
        <5>1. h[i - 1] = g[m - 1]
          BY <2>2, <2>4, <3>3, <4>1
        <5> QED
          BY <2>4, <3>3, <4>1, <5>1
      <4>2. CASE i # m
        <5>1. i \in 0..(m - 1) /\ h[i] = g[i]
          BY <2>2, <3>3, <4>2
        <5>2. g[i] = IF i = 0 THEN base ELSE DrawdownStep(g[i - 1], curve[i])
          BY <3>2, <5>1
        <5>3. i # 0 => h[i - 1] = g[i - 1]
          BY <2>2, <3>3, <4>2
        <5> QED
          BY <5>1, <5>2, <5>3
      <4> QED
        BY <4>1, <4>2
    <3>5. Runs(h, m)
      BY <3>3, <3>4
    <3> QED
      BY <2>2, <3>5
  <2> QED
    BY <2>3, <2>4
<1>3. \E g : Runs(g, n)
  BY <1>2
<1>4. PICK g : g = DrawdownLoop(curve)
  OBVIOUS
<1>5. g = CHOOSE after : after = [i \in 0..Len(curve) |-> IF i = 0 THEN [peak |-> curve[1], worst |-> <<0, 1>>] ELSE DrawdownStep(after[i - 1], curve[i])]
  BY <1>4 DEF DrawdownLoop
<1>6. g = CHOOSE after : Runs(after, n)
  BY <1>1, <1>5, Zenon
<1>7. Runs(g, n)
  BY <1>3, <1>6, Zenon
<1>8. g[0] = base /\ \A i \in 1..n : g[i] = DrawdownStep(g[i - 1], curve[i])
  BY <1>7
<1> QED
  BY <1>1, <1>4, <1>8
LEMMA CompoundedIs ==
  ASSUME NEW rs, NEW n \in Nat, n = Len(rs)
  PROVE  LET L == Compounded(rs) IN
         /\ L[0] = <<1, 1>>
         /\ \A i \in 1..n : L[i] = Times(L[i - 1], Plus(<<1, 1>>, rs[i]))
<1>1. PICK base : base = <<1, 1>>
  OBVIOUS
<1> DEFINE Runs(g, k) == g = [i \in 0..k |-> IF i = 0 THEN base ELSE Times(g[i - 1], Plus(<<1, 1>>, rs[i]))]
           T == {k \in Nat : ~\E g : Runs(g, k)}
<1>2. ASSUME T # {} PROVE FALSE
  <2>1. PICK m \in T : \A y \in T : m <= y
    BY <1>2, NatMin, Zenon
  <2>2. m \in Nat /\ ~\E g : Runs(g, m)
    OBVIOUS
  <2>3. CASE m = 0
    <3>1. PICK g : g = [i \in 0..0 |-> base]
      OBVIOUS
    <3>2. g = [i \in 0..0 |-> IF i = 0 THEN base ELSE Times(g[i - 1], Plus(<<1, 1>>, rs[i]))]
      BY <3>1
    <3> QED
      BY <2>2, <2>3, <3>2
  <2>4. CASE m # 0
    <3>1. m - 1 \in Nat /\ ~(m <= m - 1)
      BY <2>2, <2>4
    <3>2. PICK g : Runs(g, m - 1)
      BY <2>1, <3>1
    <3>3. PICK h : h = [i \in 0..m |-> IF i = m THEN Times(g[m - 1], Plus(<<1, 1>>, rs[m])) ELSE g[i]]
      OBVIOUS
    <3>4. ASSUME NEW i \in 0..m PROVE h[i] = IF i = 0 THEN base ELSE Times(h[i - 1], Plus(<<1, 1>>, rs[i]))
      <4>1. CASE i = m
        <5>1. h[i - 1] = g[m - 1]
          BY <2>2, <2>4, <3>3, <4>1
        <5> QED
          BY <2>4, <3>3, <4>1, <5>1
      <4>2. CASE i # m
        <5>1. i \in 0..(m - 1) /\ h[i] = g[i]
          BY <2>2, <3>3, <4>2
        <5>2. g[i] = IF i = 0 THEN base ELSE Times(g[i - 1], Plus(<<1, 1>>, rs[i]))
          BY <3>2, <5>1
        <5>3. i # 0 => h[i - 1] = g[i - 1]
          BY <2>2, <3>3, <4>2
        <5> QED
          BY <5>1, <5>2, <5>3
      <4> QED
        BY <4>1, <4>2
    <3>5. Runs(h, m)
      BY <3>3, <3>4
    <3> QED
      BY <2>2, <3>5
  <2> QED
    BY <2>3, <2>4
<1>3. \E g : Runs(g, n)
  BY <1>2
<1>4. PICK g : g = Compounded(rs)
  OBVIOUS
<1>5. g = CHOOSE upTo : upTo = [i \in 0..Len(rs) |-> IF i = 0 THEN <<1, 1>> ELSE Times(upTo[i - 1], Plus(<<1, 1>>, rs[i]))]
  BY <1>4 DEF Compounded
<1>6. g = CHOOSE upTo : Runs(upTo, n)
  BY <1>1, <1>5, Zenon
<1>7. Runs(g, n)
  BY <1>3, <1>6, Zenon
<1>8. g[0] = base /\ \A i \in 1..n : g[i] = Times(g[i - 1], Plus(<<1, 1>>, rs[i]))
  BY <1>7
<1> QED
  BY <1>1, <1>4, <1>8

\* The loss from one point of a curve to another, and the state of the loop
\* after i values: the peak is the highest of them, the worst one of the
\* losses, which no other exceeds.
Loss(curve, p, q) == <<curve[q] - curve[p], curve[p]>>
Drawn(curve, n, i, s) ==
  /\ s.peak \in Nat \ {0} /\ s.worst \in Fractions
  /\ \E j \in 1..n : (j <= i \/ j = 1) /\ curve[j] = s.peak
  /\ \A j \in 1..i : curve[j] <= s.peak
  /\ \E p, q \in 1..n : p <= q /\ Equal(Loss(curve, p, q), s.worst)
  /\ \A p, q \in 1..i : p <= q => ~Less(Loss(curve, p, q), s.worst)
LEMMA LossIs ==
  ASSUME NEW n \in Nat, NEW curve, \A k \in 1..n : curve[k] \in Nat \ {0}, NEW p \in 1..n, NEW q \in 1..n
  PROVE  Loss(curve, p, q) \in Fractions
BY DEF Loss, Fractions
\* A loss from a higher point is no smaller.
LEMMA HigherLoss ==
  ASSUME NEW v \in Nat, NEW a \in Nat \ {0}, NEW b \in Nat \ {0}, a <= b
  PROVE  ~Less(<<v - a, a>>, <<v - b, b>>)
<1>1. v * a <= v * b
  BY Scaled
<1>2. (v - b) * a = v * a - b * a /\ (v - a) * b = v * b - a * b /\ a * b = b * a
  OBVIOUS
<1>3. v * a \in Int /\ v * b \in Int /\ a * b \in Int
  OBVIOUS
<1>4. ~((v - a) * b < (v - b) * a)
  BY <1>1, <1>2, <1>3
<1> QED
  BY <1>4 DEF Less
LEMMA LessAsymmetric == ASSUME NEW x \in Fractions, NEW y \in Fractions, Less(x, y) PROVE ~Less(y, x)
<1>1. PICK a, b : a \in Int /\ b \in Nat \ {0} /\ x[1] = a /\ x[2] = b
  BY DEF Fractions
<1>2. PICK c, d : c \in Int /\ d \in Nat \ {0} /\ y[1] = c /\ y[2] = d
  BY DEF Fractions
<1>3. a * d \in Int /\ c * b \in Int
  BY <1>1, <1>2
<1> QED
  BY <1>1, <1>2, <1>3 DEF Less

LEMMA DrawnStep ==
  ASSUME NEW n \in Nat, NEW curve, \A k \in 1..n : curve[k] \in Nat \ {0}, NEW i \in 1..n,
         NEW s, Drawn(curve, n, i - 1, s)
  PROVE  Drawn(curve, n, i, DrawdownStep(s, curve[i]))
<1>1. PICK v \in Nat \ {0} : v = curve[i]
  OBVIOUS
<1>2. PICK P \in Nat \ {0}, W \in Fractions : P = s.peak /\ W = s.worst
  BY DEF Drawn
<1>3. PICK R \in Nat \ {0} : R = Higher(P, v) /\ P <= R /\ v <= R /\ (R = P \/ R = v)
  <2>1. CASE P < v
    <3>1. Higher(P, v) = v
      BY <2>1 DEF Higher
    <3> QED
      BY <2>1, <3>1
  <2>2. CASE ~(P < v)
    <3>1. Higher(P, v) = P
      BY <2>2 DEF Higher
    <3> QED
      BY <2>2, <3>1
  <2> QED
    BY <2>1, <2>2
<1>4. PICK D \in Fractions : D = <<v - R, R>>
  <2>1. PICK d \in Int : d = v - R
    OBVIOUS
  <2>2. <<d, R>> \in Fractions
    BY DEF Fractions
  <2> QED
    BY <2>1, <2>2
<1>5. Drawdown(v, R) = D
  BY <1>4 DEF Drawdown, Fraction
<1>6. PICK X : X = Smaller(W, D)
  OBVIOUS
<1>7. X \in {W, D} /\ ~Less(D, X) /\ ~Less(W, X)
  <2>1. CASE Less(D, W)
    <3>1. X = D /\ ~Less(W, D)
      BY <1>6, <2>1, LessAsymmetric DEF Smaller
    <3>2. ~Less(D, D)
      BY LessAsymmetric
    <3> QED
      BY <3>1, <3>2
  <2>2. CASE ~Less(D, W)
    <3>1. X = W
      BY <1>6, <2>2 DEF Smaller
    <3>2. ~Less(W, W)
      BY LessAsymmetric
    <3> QED
      BY <2>2, <3>1, <3>2
  <2> QED
    BY <2>1, <2>2
<1>8. X \in Fractions
  BY <1>7
<1>9. DrawdownStep(s, curve[i]) = [peak |-> R, worst |-> X]
  BY <1>1, <1>2, <1>3, <1>5, <1>6 DEF DrawdownStep
<1>10. PICK j \in 1..n : j <= i /\ curve[j] = R
  <2>1. CASE R = v
    BY <1>1, <2>1
  <2>2. CASE R = P
    <3>1. PICK k \in 1..n : (k <= i - 1 \/ k = 1) /\ curve[k] = P
      BY <1>2 DEF Drawn
    <3>2. k <= i
      BY <3>1
    <3> QED
      BY <2>2, <3>1, <3>2
  <2> QED
    BY <1>3, <2>1, <2>2
<1>11. ASSUME NEW k \in 1..i PROVE curve[k] <= R
  <2>1. CASE k = i
    BY <1>1, <1>3, <2>1
  <2>2. CASE k # i
    <3>1. k \in 1..(i - 1) /\ k \in 1..n
      BY <2>2
    <3>2. curve[k] <= P
      BY <1>2, <3>1 DEF Drawn
    <3> QED
      BY <1>3, <3>1, <3>2
  <2> QED
    BY <2>1, <2>2
<1>12. \E p, q \in 1..n : p <= q /\ Equal(Loss(curve, p, q), X)
  <2>1. CASE X = W
    BY <1>2, <2>1 DEF Drawn
  <2>2. CASE X = D
    <3>1. Loss(curve, j, i) = D
      BY <1>1, <1>4, <1>10 DEF Loss
    <3>2. Equal(D, D)
      BY DEF Equal
    <3> QED
      BY <1>10, <2>2, <3>1, <3>2
  <2> QED
    BY <1>7, <2>1, <2>2
<1>13. ASSUME NEW p \in 1..i, NEW q \in 1..i, p <= q PROVE ~Less(Loss(curve, p, q), X)
  <2>1. PICK l \in Fractions : l = Loss(curve, p, q)
    <3>1. p \in 1..n /\ q \in 1..n
      OBVIOUS
    <3> QED
      BY <3>1, LossIs
  <2>2. CASE q = i
    <3>1. PICK a \in Nat \ {0} : a = curve[p] /\ a <= R
      <4>1. p \in 1..n
        OBVIOUS
      <4> QED
        BY <1>11, <4>1
    <3>2. l = <<v - a, a>>
      BY <1>1, <2>1, <2>2, <3>1 DEF Loss
    <3>3. ~Less(l, D)
      BY <1>4, <3>1, <3>2, HigherLoss
    <3> QED
      BY <1>7, <1>8, <2>1, <3>3, LessTransitive
  <2>3. CASE q # i
    <3>1. p \in 1..(i - 1) /\ q \in 1..(i - 1)
      BY <1>13, <2>3
    <3>2. ~Less(l, W)
      BY <1>2, <1>13, <2>1, <3>1 DEF Drawn
    <3> QED
      BY <1>7, <1>8, <2>1, <3>2, LessTransitive
  <2> QED
    BY <2>2, <2>3
<1>14. PICK r : r = [peak |-> R, worst |-> X]
  OBVIOUS
<1>15. r.peak = R /\ r.worst = X
  BY <1>14
<1>16. Drawn(curve, n, i, r)
  BY <1>8, <1>10, <1>11, <1>12, <1>13, <1>15 DEF Drawn
<1> QED
  BY <1>9, <1>14, <1>16

\* Before the first value the peak is that value, and no loss the worst.
LEMMA DrawnFirst ==
  ASSUME NEW n \in Nat \ {0}, NEW curve, \A k \in 1..n : curve[k] \in Nat \ {0}
  PROVE  Drawn(curve, n, 0, [peak |-> curve[1], worst |-> <<0, 1>>])
<1>1. PICK v \in Nat \ {0} : v = curve[1]
  OBVIOUS
<1>2. PICK r : r = [peak |-> v, worst |-> <<0, 1>>]
  OBVIOUS
<1>3. r.peak = v /\ r.worst = <<0, 1>>
  BY <1>2
<1>4. <<0, 1>> \in Fractions
  BY DEF Fractions
<1>5. 1 \in 1..n
  OBVIOUS
<1>6. Loss(curve, 1, 1) = <<v - v, v>>
  BY <1>1 DEF Loss
<1>7. Equal(Loss(curve, 1, 1), <<0, 1>>)
  <2>1. v - v = 0
    OBVIOUS
  <2>2. Equal(<<0, v>>, <<0, 1>>)
    BY DEF Equal
  <2> QED
    BY <1>6, <2>1, <2>2
<1>8. Drawn(curve, n, 0, r)
  <2>1. r.peak \in Nat \ {0} /\ r.worst \in Fractions
    BY <1>3, <1>4
  <2>2. \E j \in 1..n : (j <= 0 \/ j = 1) /\ curve[j] = r.peak
    BY <1>1, <1>3, <1>5
  <2>3. \A j \in 1..0 : FALSE
    OBVIOUS
  <2>4. \E p, q \in 1..n : p <= q /\ Equal(Loss(curve, p, q), r.worst)
    BY <1>3, <1>5, <1>7
  <2> QED
    BY <2>1, <2>2, <2>3, <2>4 DEF Drawn
<1> QED
  BY <1>1, <1>2, <1>8

\* The loop of _max_drawdown ends with the worst loss of the curve.
LEMMA DrawnAll ==
  ASSUME NEW n \in Nat \ {0}, NEW curve, n = Len(curve), \A k \in 1..n : curve[k] \in Nat \ {0}
  PROVE  Drawn(curve, n, n, DrawdownLoop(curve)[n])
<1>1. PICK L : L = DrawdownLoop(curve)
  OBVIOUS
<1>2. L[0] = [peak |-> curve[1], worst |-> <<0, 1>>] /\ \A i \in 1..n : L[i] = DrawdownStep(L[i - 1], curve[i])
  BY <1>1, DrawdownLoopIs
<1> DEFINE T == {i \in 0..n : ~Drawn(curve, n, i, L[i])}
<1>3. ASSUME T # {} PROVE FALSE
  <2>1. T \subseteq Nat
    OBVIOUS
  <2>2. PICK m \in T : \A y \in T : m <= y
    BY <1>3, <2>1, NatMin, Zenon
  <2>3. m \in 0..n /\ ~Drawn(curve, n, m, L[m])
    OBVIOUS
  <2>4. CASE m = 0
    BY <1>2, <2>3, <2>4, DrawnFirst
  <2>5. CASE m # 0
    <3>1. m \in 1..n /\ m - 1 \in 0..n /\ ~(m <= m - 1)
      BY <2>3, <2>5
    <3>2. Drawn(curve, n, m - 1, L[m - 1])
      BY <2>2, <3>1
    <3>3. L[m] = DrawdownStep(L[m - 1], curve[m])
      BY <1>2, <3>1
    <3>4. Drawn(curve, n, m, DrawdownStep(L[m - 1], curve[m]))
      BY <3>1, <3>2, DrawnStep
    <3> QED
      BY <2>3, <3>3, <3>4
  <2> QED
    BY <2>4, <2>5
<1>4. n \in 0..n
  OBVIOUS
<1> QED
  BY <1>1, <1>3, <1>4

\* One more than the return from a to b is b over a.
LEMMA OneMore ==
  ASSUME NEW a \in Nat \ {0}, NEW b \in Nat \ {0}
  PROVE  Plus(<<1, 1>>, <<b - a, a>>) = <<b, a>>
<1>1. 1 * a + (b - a) * 1 = b /\ 1 * a = a
  OBVIOUS
<1>2. Plus(<<1, 1>>, <<b - a, a>>) = <<1 * a + (b - a) * 1, 1 * a>>
  BY DEF Plus
<1> QED
  BY <1>1, <1>2

\* Compounding the returns of a curve so far: the last value over the first.
Grown(curve, i, x) == \E a, b \in Nat \ {0} : x = <<a, b>> /\ a * curve[1] = b * curve[i + 1]
LEMMA CompoundedAll ==
  ASSUME NEW m \in Nat, NEW curve, \A k \in 1..(m + 1) : curve[k] \in Nat \ {0},
         NEW rs, m = Len(rs), \A k \in 1..m : rs[k] = <<curve[k + 1] - curve[k], curve[k]>>
  PROVE  Grown(curve, m, Compounded(rs)[m])
<1>1. PICK L : L = Compounded(rs)
  OBVIOUS
<1>2. L[0] = <<1, 1>> /\ \A i \in 1..m : L[i] = Times(L[i - 1], Plus(<<1, 1>>, rs[i]))
  BY <1>1, CompoundedIs
<1> DEFINE T == {i \in 0..m : ~Grown(curve, i, L[i])}
<1>3. ASSUME T # {} PROVE FALSE
  <2>1. T \subseteq Nat
    OBVIOUS
  <2>2. PICK k \in T : \A y \in T : k <= y
    BY <1>3, <2>1, NatMin, Zenon
  <2>3. k \in 0..m /\ ~Grown(curve, k, L[k])
    OBVIOUS
  <2>4. CASE k = 0
    <3>1. 1 \in 1..(m + 1)
      OBVIOUS
    <3>2. PICK v \in Nat \ {0} : v = curve[1]
      BY <3>1
    <3>3. 1 * curve[1] = 1 * curve[0 + 1]
      OBVIOUS
    <3> QED
      BY <1>2, <2>3, <2>4, <3>3 DEF Grown
  <2>5. CASE k # 0
    <3>1. k \in 1..m /\ k - 1 \in 0..m /\ ~(k <= k - 1) /\ (k - 1) + 1 = k
      BY <2>3, <2>5
    <3>2. Grown(curve, k - 1, L[k - 1])
      BY <2>2, <3>1
    <3>3. PICK a, b \in Nat \ {0} : L[k - 1] = <<a, b>> /\ a * curve[1] = b * curve[k]
      BY <3>1, <3>2 DEF Grown
    <3>4. PICK x \in Nat \ {0}, y \in Nat \ {0}, z \in Nat \ {0} : x = curve[1] /\ y = curve[k] /\ z = curve[k + 1]
      <4>1. 1 \in 1..(m + 1) /\ k \in 1..(m + 1) /\ k + 1 \in 1..(m + 1)
        BY <3>1
      <4> QED
        BY <4>1
    <3>5. Plus(<<1, 1>>, rs[k]) = <<z, y>>
      <4>1. rs[k] = <<z - y, y>>
        BY <3>1, <3>4
      <4> QED
        BY <4>1, OneMore
    <3>6. L[k] = <<a * z, b * y>>
      <4>1. L[k] = Times(<<a, b>>, <<z, y>>)
        BY <1>2, <3>1, <3>3, <3>5
      <4> QED
        BY <4>1 DEF Times
    <3>7. a * z \in Nat \ {0} /\ b * y \in Nat \ {0}
      OBVIOUS
    <3>8. (a * z) * x = (b * y) * z
      <4>1. a * x = b * y
        BY <3>3, <3>4
      <4>2. (a * z) * x = (a * x) * z
        OBVIOUS
      <4> QED
        BY <4>1, <4>2
    <3>9. PICK c, d \in Nat \ {0} : c = a * z /\ d = b * y
      BY <3>7
    <3>10. L[k] = <<c, d>> /\ c * curve[1] = d * curve[k + 1]
      BY <3>4, <3>6, <3>8, <3>9
    <3>11. Grown(curve, k, L[k])
      BY <3>10 DEF Grown
    <3> QED
      BY <2>3, <3>11
  <2> QED
    BY <2>4, <2>5
<1>4. m \in 0..m
  OBVIOUS
<1> QED
  BY <1>1, <1>3, <1>4

\* The numbers of a curve that is positive where it has numbers.
LEMMA NumbersPositive ==
  ASSUME ReportInv, PositiveCurve
  PROVE  \E n \in Nat : /\ numeric_list(input) \in [1..n -> Nat \ {0}]
                        /\ Len(numeric_list(input)) = n
<1>1. PICK top \in Nat : DOMAIN input = 1..top /\ \A i \in 1..top : input[i] = Odd \/ \E v \in Int : input[i] = <<v>>
  BY DEF ReportInv, PositiveCurve, Answered
<1>2. PICK S : S = {i \in DOMAIN input : input[i] # Odd}
  OBVIOUS
<1>3. S \subseteq 1..top
  BY <1>1, <1>2
<1>4. PICK K : K = Kept(input, S)
  OBVIOUS
<1>a. PICK given : given = input
  OBVIOUS
<1>5. PICK n \in Nat : n = Cardinality(S) /\ DOMAIN K = 1..n /\ \A k \in 1..n : Ascending(S)[k] \in S /\ K[k] = given[Ascending(S)[k]]
  <2>1. Cardinality(S) \in Nat
    BY <1>3, KeptIs
  <2>2. DOMAIN Kept(given, S) = 1..Cardinality(S)
    BY <1>3, KeptIs
  <2>3. \A i \in 1..Cardinality(S) : Ascending(S)[i] \in S
    BY <1>3, KeptIs
  <2>4. \A i \in 1..Cardinality(S) : Kept(given, S)[i] = given[Ascending(S)[i]]
    <3>1. DOMAIN Ascending(S) = 1..Cardinality(S)
      BY <2>2 DEF Kept
    <3> QED
      BY <3>1 DEF Kept
  <2>5. K = Kept(given, S)
    BY <1>4, <1>a, Zenon
  <2>6. PICK n \in Nat : n = Cardinality(S)
    BY <2>1
  <2>7. DOMAIN K = 1..n
    BY <2>2, <2>5, <2>6
  <2>8. \A k \in 1..n : Ascending(S)[k] \in S
    BY <2>3, <2>6
  <2>9. \A k \in 1..n : K[k] = given[Ascending(S)[k]]
    BY <2>4, <2>5, <2>6
  <2> QED
    BY <2>6, <2>7, <2>8, <2>9
<1>6. numeric_list(input) = [k \in 1..n |-> K[k][1]]
  BY <1>2, <1>4, <1>5 DEF numeric_list
<1>7. ASSUME NEW k \in 1..n PROVE K[k][1] \in Nat \ {0}
  <2>1. PICK i \in S : i = Ascending(S)[k]
    BY <1>5
  <2>2. i \in 1..top /\ input[i] # Odd
    BY <1>1, <1>2, <2>1
  <2>3. PICK v \in Int : input[i] = <<v>>
    BY <1>1, <2>2
  <2>4. input[i][1] > 0
    BY <1>1, <2>2 DEF PositiveCurve
  <2>5. K[k] = <<v>>
    BY <1>5, <1>a, <2>1, <2>3
  <2> QED
    BY <2>3, <2>4, <2>5
<1>8. PICK curve : curve = [k \in 1..n |-> K[k][1]]
  OBVIOUS
<1>9. curve \in [1..n -> Nat \ {0}]
  BY <1>7, <1>8
<1>10. Len(curve) = n
  BY <1>8
<1> QED
  BY <1>6, <1>8, <1>9, <1>10
LEMMA AlwaysWorst == ReportInv => DrawdownIsWorst
<1> SUFFICES ASSUME ReportInv, PositiveCurve, Answer.max_drawdown # <<>>,
                    NEW curve, curve = numeric_list(input), NEW losses,
                    losses = {Fraction(curve[p[2]] - curve[p[1]], curve[p[1]]) : p \in {q \in (DOMAIN curve) \X (DOMAIN curve) : q[1] <= q[2]}}
             PROVE  /\ \E x \in losses : Equal(x, Answer.max_drawdown[1])
                    /\ \A x \in losses : ~Less(x, Answer.max_drawdown[1])
  BY DEF DrawdownIsWorst
<1>1. PICK n \in Nat : curve \in [1..n -> Nat \ {0}] /\ Len(curve) = n
  BY NumbersPositive
<1>2. Answer = build_report_summary(input)
  <2>1. answer = <<build_report_summary(input)>>
    BY DEF ReportInv, PositiveCurve, Answered
  <2> QED
    BY <2>1 DEF Answer
<1>3. Answer.max_drawdown = IF curve # <<>> THEN <<max_drawdown(curve)>> ELSE <<>>
  BY <1>2 DEF build_report_summary
<1>4. curve # <<>> /\ Answer.max_drawdown = <<max_drawdown(curve)>>
  BY <1>3
<1>5. n # 0
  <2>1. curve \in Seq(Nat)
    BY <1>1
  <2> QED
    BY <1>1, <1>4, <2>1, EmptySeq
<1>6. PICK s : s = DrawdownLoop(curve)[n]
  OBVIOUS
<1>7. Answer.max_drawdown[1] = s.worst
  BY <1>1, <1>4, <1>6 DEF max_drawdown
<1>8. Drawn(curve, n, n, s)
  <2>1. n \in Nat \ {0} /\ \A k \in 1..n : curve[k] \in Nat \ {0}
    BY <1>1, <1>5
  <2> QED
    BY <1>1, <1>6, <2>1, DrawnAll
<1>9. ASSUME NEW p \in 1..n, NEW q \in 1..n PROVE Fraction(curve[q] - curve[p], curve[p]) = Loss(curve, p, q)
  <2>1. curve[p] \in Nat \ {0}
    BY <1>1
  <2> QED
    BY <2>1 DEF Fraction, Loss
<1>10. \E x \in losses : Equal(x, s.worst)
  <2>1. PICK p, q \in 1..n : p <= q /\ Equal(Loss(curve, p, q), s.worst)
    BY <1>8 DEF Drawn
  <2>2. Loss(curve, p, q) \in losses
    <3>1. <<p, q>> \in (DOMAIN curve) \X (DOMAIN curve) /\ <<p, q>>[1] <= <<p, q>>[2]
      BY <1>1, <2>1
    <3>2. PICK t : t = <<p, q>>
      OBVIOUS
    <3>3. t \in {r \in (DOMAIN curve) \X (DOMAIN curve) : r[1] <= r[2]} /\ t[1] = p /\ t[2] = q
      BY <3>1, <3>2
    <3>4. Fraction(curve[t[2]] - curve[t[1]], curve[t[1]]) \in losses
      BY <3>3
    <3> QED
      BY <1>9, <3>3, <3>4
  <2> QED
    BY <2>1, <2>2
<1>11. ASSUME NEW x \in losses PROVE ~Less(x, s.worst)
  <2>1. PICK t \in {r \in (DOMAIN curve) \X (DOMAIN curve) : r[1] <= r[2]} : x = Fraction(curve[t[2]] - curve[t[1]], curve[t[1]])
    BY <1>11
  <2>2. PICK p, q : p = t[1] /\ q = t[2] /\ p \in 1..n /\ q \in 1..n /\ p <= q
    BY <1>1, <2>1
  <2>3. x = Loss(curve, p, q)
    BY <1>9, <2>1, <2>2
  <2> QED
    BY <1>8, <2>2, <2>3 DEF Drawn
<1> QED
  BY <1>7, <1>10, <1>11
LEMMA AlwaysCompound == ReportInv => ReturnsCompound
<1> SUFFICES ASSUME ReportInv, PositiveCurve, Answer.total_return # <<>>
             PROVE  Equal(Compounded(Answer.returns)[Len(Answer.returns)], Plus(<<1, 1>>, Answer.total_return[1]))
  BY DEF ReturnsCompound
<1>0. PICK curve : curve = numeric_list(input)
  OBVIOUS
<1>1. PICK n \in Nat : curve \in [1..n -> Nat \ {0}] /\ Len(curve) = n
  BY <1>0, NumbersPositive
<1>2. Answer = build_report_summary(input)
  <2>1. answer = <<build_report_summary(input)>>
    BY DEF ReportInv, PositiveCurve, Answered
  <2> QED
    BY <2>1 DEF Answer
<1>3. /\ Answer.total_return = IF curve # <<>> /\ curve[1] # 0 THEN <<Fraction(curve[Len(curve)] - curve[1], curve[1])>> ELSE <<>>
      /\ Answer.returns = returns(curve)
  BY <1>0, <1>2 DEF build_report_summary
<1>4. curve # <<>> /\ Answer.total_return[1] = Fraction(curve[n] - curve[1], curve[1])
  BY <1>1, <1>3
<1>5. n # 0
  <2>1. curve \in Seq(Nat)
    BY <1>1
  <2> QED
    BY <1>1, <1>4, <2>1, EmptySeq
<1>6. PICK m \in Nat : m = n - 1 /\ m + 1 = n
  BY <1>5
<1>7. \A k \in 1..(m + 1) : curve[k] \in Nat \ {0}
  BY <1>1, <1>6
<1>8. PICK f : f = [i \in 1..m |-> Fraction(curve[i + 1] - curve[i], curve[i])]
  OBVIOUS
<1>9. {i \in 1..m : curve[i] # 0} = 1..m
  <2>1. \A i \in 1..m : i \in 1..(m + 1)
    BY <1>6
  <2> QED
    BY <1>7, <2>1
<1>10. returns(curve) = Kept(f, 1..m)
  BY <1>1, <1>6, <1>8, <1>9 DEF returns
<1>11. PICK rs : rs = Kept(f, 1..m)
  OBVIOUS
<1>12. DOMAIN rs = 1..m /\ \A k \in 1..m : rs[k] = f[k]
  BY <1>11, KeptAll
<1>13. Len(rs) = m
  <2>1. rs = [k \in DOMAIN Ascending(1..m) |-> f[Ascending(1..m)[k]]]
    BY <1>11 DEF Kept
  <2>2. rs = [k \in 1..m |-> f[Ascending(1..m)[k]]]
    BY <1>12, <2>1
  <2> QED
    BY <2>2
<1>14. ASSUME NEW k \in 1..m PROVE rs[k] = <<curve[k + 1] - curve[k], curve[k]>>
  <2>1. curve[k] \in Nat \ {0}
    BY <1>6, <1>7
  <2>2. Fraction(curve[k + 1] - curve[k], curve[k]) = <<curve[k + 1] - curve[k], curve[k]>>
    BY <2>1 DEF Fraction
  <2> QED
    BY <1>8, <1>12, <2>2
<1>15. PICK x : x = Compounded(rs)[m]
  OBVIOUS
<1>16. Grown(curve, m, x)
  BY <1>7, <1>13, <1>14, <1>15, CompoundedAll
<1>17. PICK a, b \in Nat \ {0} : x = <<a, b>> /\ a * curve[1] = b * curve[n]
  BY <1>6, <1>16 DEF Grown
<1>18. PICK u \in Nat \ {0}, v \in Nat \ {0} : u = curve[1] /\ v = curve[n]
  <2>1. 1 \in 1..n /\ n \in 1..n
    BY <1>1, <1>5
  <2> QED
    BY <1>1, <2>1
<1>19. Answer.total_return[1] = <<v - u, u>>
  BY <1>4, <1>18 DEF Fraction
<1>20. Plus(<<1, 1>>, Answer.total_return[1]) = <<v, u>>
  BY <1>19, OneMore
<1>21. Equal(<<a, b>>, <<v, u>>)
  <2>1. a * u = v * b
    BY <1>17, <1>18
  <2> QED
    BY <2>1 DEF Equal
<1> QED
  BY <1>3, <1>10, <1>11, <1>13, <1>15, <1>17, <1>20, <1>21

\* Over any curve of positive values the reported drawdown is the loss between
\* some point and a later one, and no such loss is worse (_max_drawdown).
THEOREM DrawdownOfAnyCurve ==
  ASSUME NEW n \in Nat \ {0}, NEW curve, n = Len(curve), \A k \in 1..n : curve[k] \in Nat \ {0}
  PROVE  /\ \E p, q \in 1..n : p <= q /\ Equal(Loss(curve, p, q), max_drawdown(curve))
         /\ \A p, q \in 1..n : p <= q => ~Less(Loss(curve, p, q), max_drawdown(curve))
<1>1. PICK s : s = DrawdownLoop(curve)[n]
  OBVIOUS
<1>2. Drawn(curve, n, n, s)
  BY <1>1, DrawnAll
<1>3. max_drawdown(curve) = s.worst
  BY <1>1 DEF max_drawdown
<1> QED
  BY <1>2, <1>3 DEF Drawn

\* What the release gate, the evidence summary and a report say of the evidence
\* they were given holds of it, in every state (EvidenceIsSound).
THEOREM EvidenceAlwaysSound == MCSpec => []EvidenceIsSound
<1>1. EvidenceInv => EvidenceIsSound
  <2>1. EvidenceInv => ReportInv
    BY DEF EvidenceInv
  <2> QED
    BY <2>1, AlwaysGated, AlwaysPassedMeansSucceeded, AlwaysWorst, AlwaysCompound DEF EvidenceIsSound
<1> QED
  BY <1>1, EvidenceInductive, PTL

(***************************************************************************)
(* MCDecisions, types.  A behaviour of MCDecisions is a behaviour of each  *)
(* of its state machines; what their types say of counters and of the      *)
(* audit needs invariants of their own.                                    *)
(***************************************************************************)

LEMMA RunsDrafts == MCSpec => DraftSpec
<1>1. MCInit => DraftInit
  BY DEF MCInit
<1>2. [MCNext]_mcVars => [DraftNext]_draftVars
  BY DEF MCNext, mcVars
<1> QED
  BY <1>1, <1>2, PTL DEF MCSpec, DraftSpec
LEMMA RunsMigrations == MCSpec => MigrationSpec
<1>1. MCInit => MigrationInit
  BY DEF MCInit
<1>2. [MCNext]_mcVars => [MigrationNext]_migrationVars
  BY DEF MCNext, mcVars
<1> QED
  BY <1>1, <1>2, PTL DEF MCSpec, MigrationSpec
LEMMA RunsRules == MCSpec => RuleInit /\ [][RuleNext]_ruleVars
<1>1. MCInit => RuleInit
  BY DEF MCInit
<1>2. [MCNext]_mcVars => [RuleNext]_ruleVars
  BY DEF MCNext, mcVars
<1> QED
  BY <1>1, <1>2, PTL DEF MCSpec

AllAdds == UNION {MIGRATIONS[v].adds : v \in Versions}
SchemaKnown == schema \subseteq AllAdds
LEMMA SchemaIsKnown == MigrationSpec => []SchemaKnown
<1>1. MigrationInit => SchemaKnown
  BY DEF MigrationInit, SchemaKnown
<1>2. "schema_migrations" \in AllAdds
  <2>1. MIGRATIONS[1] = InitialSchema /\ 1 \in Versions
    BY DEF MIGRATIONS, Versions
  <2>2. "schema_migrations" \in InitialSchema.adds
    BY DEF InitialSchema, Migration
  <2>3. \A v \in Versions : MIGRATIONS[v].adds \subseteq AllAdds
    BY DEF AllAdds
  <2>4. InitialSchema.adds \subseteq AllAdds
    BY <2>1, <2>3
  <2> QED
    BY <2>2, <2>4
<1>3. \A v \in Versions : MIGRATIONS[v].adds \subseteq AllAdds
  BY DEF AllAdds
<1>4. SchemaKnown /\ [MigrationNext]_migrationVars => SchemaKnown'
  <2> SUFFICES ASSUME schema \subseteq AllAdds, [MigrationNext]_migrationVars PROVE schema' \subseteq AllAdds
    BY DEF SchemaKnown
  <2>1. CASE UNCHANGED migrationVars
    BY <2>1 DEF migrationVars
  <2>2. ASSUME NEW r \in Runners, StartApply(r) PROVE schema' \subseteq AllAdds
    BY <1>2, <2>2 DEF StartApply
  <2>3. ASSUME NEW r \in Runners, ApplyUp(r) PROVE schema' \subseteq AllAdds
    <3>1. schema' = schema \/ (runner[r].next \in Versions /\ schema' = schema \cup MIGRATIONS[runner[r].next].adds)
      BY <2>3 DEF ApplyUp, Fails
    <3>2. runner[r].next \in Versions => MIGRATIONS[runner[r].next].adds \subseteq AllAdds
      BY <1>3
    <3> QED
      BY <3>1, <3>2
  <2>4. ASSUME NEW r \in Runners, RecordUp(r) \/ FinishApply(r) \/ Die(r) PROVE schema' \subseteq AllAdds
    BY <2>4 DEF RecordUp, FinishApply, Die, Fails
  <2>5. ASSUME NEW r \in Runners, StartRollback(r) PROVE schema' \subseteq AllAdds
    BY <1>2, <2>5 DEF StartRollback
  <2>6. ASSUME NEW r \in Runners, RunDown(r) PROVE schema' \subseteq AllAdds
    <3>1. schema' = schema \/ schema' = schema \ MIGRATIONS[runner[r].next].drops
      BY <2>6 DEF RunDown, Fails
    <3> QED
      BY <3>1
  <2>7. CASE MigrationNext
    <3>1. PICK r \in Runners : StartApply(r) \/ ApplyUp(r) \/ RecordUp(r) \/ FinishApply(r) \/ StartRollback(r) \/ RunDown(r) \/ Die(r)
      BY <2>7 DEF MigrationNext
    <3> QED
      BY <3>1, <2>2, <2>3, <2>4, <2>5, <2>6
  <2> QED
    BY <2>1, <2>7
<1> QED
  BY <1>1, <1>4, PTL DEF MigrationSpec
LEMMA MigrationsTyped == MigrationSpec => []MigrationTypeOK
<1>1. MigrationInv /\ SchemaKnown => MigrationTypeOK
  <2> SUFFICES ASSUME MigrationInv, SchemaKnown PROVE MigrationTypeOK
    OBVIOUS
  <2>1. recorded \subseteq Versions
    BY SevenVersions DEF MigrationInv, RunnersTyped
  <2>2. \A r \in Runners : runner[r].next \in 0..8
    BY DEF MigrationInv, RunnersTyped, RunnerStates
  <2>3. Len(MIGRATIONS) + 1 = 8
    BY SevenVersions
  <2> QED
    BY <2>1, <2>2, <2>3 DEF MigrationTypeOK, SchemaKnown, AllAdds
<1> QED
  BY <1>1, MigrationInductive, SchemaIsKnown, PTL

\* Requests: how often the model was asked, and how many records there are.
LEMMA SameAttempts ==
  ASSUME NEW u \in CallStates, NEW v,
         \/ \E at : IsGoes(v, u, at)
         \/ \E at, status : IsEnds(v, u, at, status)
         \/ \E at, spec : IsDrafts(v, u, at, spec)
         \/ \E at : IsAnswered(v, u, at)
         \/ \E at, b : IsJudged(v, u, at, b)
         \/ \E op, B : IsAsks(v, u, op, B)
  PROVE  v.attempts = u.attempts
<1>1. ASSUME NEW at, IsGoes(v, u, at) PROVE v.attempts = u.attempts
  BY <1>1 DEF IsGoes, CallStates
<1>2. ASSUME NEW at, NEW status, IsEnds(v, u, at, status) PROVE v.attempts = u.attempts
  BY <1>2 DEF IsEnds, CallStates
<1>3. ASSUME NEW at, NEW spec, IsDrafts(v, u, at, spec) PROVE v.attempts = u.attempts
  BY <1>3 DEF IsDrafts, CallStates
<1>4. ASSUME NEW at, IsAnswered(v, u, at) PROVE v.attempts = u.attempts
  BY <1>4 DEF IsAnswered, CallStates
<1>5. ASSUME NEW at, NEW b, IsJudged(v, u, at, b) PROVE v.attempts = u.attempts
  BY <1>5 DEF IsJudged, CallStates
<1>6. ASSUME NEW op, NEW B, IsAsks(v, u, op, B) PROVE v.attempts = u.attempts
  BY <1>6 DEF IsAsks, CallStates
<1> QED
  BY <1>1, <1>2, <1>3, <1>4, <1>5, <1>6

Retried(a, b) == b = a \/ (b = a + 1 /\ b # MaxRetries)
\* A step of request c to state v, as far as attempts and records go.
CountedStep(c, v) ==
  /\ draft' = [draft EXCEPT ![c] = v] /\ draft[c].pc # "done"
  /\ Retried(draft[c].attempts, v.attempts)
  /\ \/ audit' = audit
     \/ /\ audit' = Append(audit, DraftRecord(c)) /\ draft[c].pc = "record"
     \/ /\ audit' = Append(audit, AppliedRecord(c)) /\ draft[c].pc = "apply" /\ v.pc = "done"
LEMMA DraftStepCounted == ASSUME DraftInv, DraftNext PROVE \E c \in Calls : \E v : CountedStep(c, v)
<1>1. PICK c \in Calls : \/ Ask(c) \/ DraftFixture(c) \/ Post(c) \/ KeepMetadata(c) \/ ParseContent(c)
                          \/ EnsureClient(c) \/ Attempt(c) \/ Judge(c) \/ RecordDraft(c) \/ CheckDraft(c)
                          \/ JudgeSpec(c) \/ RecordApplied(c)
  BY DEF DraftNext
<1>2. PICK u \in CallStates : u = draft[c] /\ u.attempts \in Nat
  BY DEF DraftInv, DraftsTyped, CallStates
<1>3. SUFFICES ASSUME \A v : ~CountedStep(c, v) PROVE FALSE
  OBVIOUS
\* A step that asks the model no other time and records nothing.
<1>4. ASSUME NEW v, draft' = [draft EXCEPT ![c] = v], v.attempts = u.attempts, u.pc # "done", audit' = audit PROVE FALSE
  <2>1. CountedStep(c, v)
    BY <1>2, <1>4 DEF CountedStep, Retried
  <2> QED
    BY <1>3, <2>1
<1>5. ASSUME NEW at, Goes(c, at), u.pc # "done", audit' = audit PROVE FALSE
  <2>1. PICK v : IsGoes(v, u, at)
    BY DEF IsGoes
  <2>2. draft' = [draft EXCEPT ![c] = v]
    BY <1>2, <1>5, <2>1 DEF Goes, Update, IsGoes
  <2> QED
    BY <1>4, <1>5, <2>1, <2>2, SameAttempts
<1>6. ASSUME NEW status, Ends(c, status), u.pc # "done", audit' = audit PROVE FALSE
  <2>1. PICK v : IsEnds(v, u, "done", status)
    BY DEF IsEnds
  <2>2. draft' = [draft EXCEPT ![c] = v]
    BY <1>2, <1>6, <2>1 DEF Ends, Update, IsEnds
  <2> QED
    BY <1>4, <1>6, <2>1, <2>2, SameAttempts
<1>7. ASSUME NEW spec, Drafts(c, spec), u.pc # "done", audit' = audit PROVE FALSE
  <2>1. PICK v : IsDrafts(v, u, "judge", spec)
    BY DEF IsDrafts
  <2>2. draft' = [draft EXCEPT ![c] = v]
    BY <1>2, <1>7, <2>1 DEF Drafts, Update, IsDrafts
  <2> QED
    BY <1>4, <1>7, <2>1, <2>2, SameAttempts
<1>8. ProviderFails(c) => Drafts(c, "none")
  BY DEF ProviderFails, Drafts
<1>9. CASE Ask(c)
  <2>0. u.pc # "done" /\ audit' = audit
    BY <1>2, <1>9 DEF Ask
  <2>1. PICK op \in {"draft", "apply", "apply spec"}, refused \in BOOLEAN, spec \in Specs :
          LET asked == [draft[c] EXCEPT !.op = op, !.before = {b \in Calls : draft[b].pc = "done"}] IN
          Update(c, CASE refused -> [asked EXCEPT !.pc = "done", !.status = IF op = "draft" THEN 500 ELSE 422]
                      [] ~refused /\ op = "apply spec" -> [asked EXCEPT !.pc = "judge spec", !.spec = spec]
                      [] OTHER -> [asked EXCEPT !.pc = provider])
    BY <1>9 DEF Ask
  <2>2. PICK B \in CallSets : B = {b \in Calls : draft[b].pc = "done"}
    BY DEF CallSets
  <2>3. PICK asked : IsAsks(asked, u, op, B)
    BY DEF IsAsks
  <2>4. asked \in CallStates
    BY <2>3 DEF IsAsks, CallStates, DraftOps
  <2>5. asked.attempts = u.attempts
    BY <2>3, SameAttempts
  <2>6. CASE refused
    <3>1. PICK code : code = IF op = "draft" THEN 500 ELSE 422
      OBVIOUS
    <3>2. PICK v : IsEnds(v, asked, "done", code)
      BY DEF IsEnds
    <3>3. draft' = [draft EXCEPT ![c] = v]
      BY <1>2, <2>1, <2>2, <2>3, <2>6, <3>1, <3>2 DEF Update, IsEnds, IsAsks
    <3>4. v.attempts = asked.attempts
      BY <2>4, <3>2, SameAttempts
    <3> QED
      BY <1>4, <2>0, <2>5, <3>3, <3>4
  <2>7. CASE ~refused /\ op = "apply spec"
    <3>1. PICK v : IsDrafts(v, asked, "judge spec", spec)
      BY DEF IsDrafts
    <3>2. draft' = [draft EXCEPT ![c] = v]
      BY <1>2, <2>1, <2>2, <2>3, <2>7, <3>1 DEF Update, IsDrafts, IsAsks
    <3>3. v.attempts = asked.attempts
      BY <2>4, <3>1, SameAttempts
    <3> QED
      BY <1>4, <2>0, <2>5, <3>2, <3>3
  <2>8. CASE ~refused /\ op # "apply spec"
    <3>1. PICK v : IsGoes(v, asked, provider)
      BY DEF IsGoes
    <3>2. draft' = [draft EXCEPT ![c] = v]
      BY <1>2, <2>1, <2>2, <2>3, <2>8, <3>1 DEF Update, IsGoes, IsAsks
    <3>3. v.attempts = asked.attempts
      BY <2>4, <3>1, SameAttempts
    <3> QED
      BY <1>4, <2>0, <2>5, <3>2, <3>3
  <2> QED
    BY <2>6, <2>7, <2>8
<1>10. CASE DraftFixture(c) \/ ParseContent(c)
  <2>1. audit' = audit /\ u.pc # "done" /\ \E spec : Drafts(c, spec)
    BY <1>2, <1>8, <1>10 DEF DraftFixture, ParseContent
  <2> QED
    BY <1>7, <2>1
<1>11. CASE Post(c)
  <2>1. audit' = audit /\ u.pc # "done"
    BY <1>2, <1>11 DEF Post
  <2>2. CASE ProviderFails(c)
    BY <1>7, <1>8, <2>1, <2>2
  <2>3. CASE Update(c, [draft[c] EXCEPT !.pc = "received", !.responded = TRUE])
    <3>1. PICK v : IsAnswered(v, u, "received")
      BY DEF IsAnswered
    <3>2. draft' = [draft EXCEPT ![c] = v]
      BY <1>2, <2>3, <3>1 DEF Update, IsAnswered
    <3> QED
      BY <1>4, <2>1, <3>1, <3>2, SameAttempts
  <2> QED
    BY <1>11, <2>2, <2>3 DEF Post
<1>12. CASE KeepMetadata(c)
  BY <1>2, <1>5, <1>12 DEF KeepMetadata
<1>13. CASE EnsureClient(c)
  <2>1. audit' = audit /\ u.pc # "done"
    BY <1>2, <1>13 DEF EnsureClient
  <2> QED
    BY <1>5, <1>7, <1>8, <1>13, <2>1 DEF EnsureClient
<1>14. CASE Attempt(c)
  <2>1. audit' = audit /\ u.pc # "done"
    BY <1>2, <1>14 DEF Attempt
  <2>2. CASE \E spec : Drafts(c, spec)
    BY <1>7, <2>1, <2>2
  <2>3. CASE u.attempts + 1 # MaxRetries /\ Update(c, [draft[c] EXCEPT !.attempts = @ + 1])
    <3>1. PICK v : IsRetries(v, u, u.attempts + 1)
      BY DEF IsRetries
    <3>2. draft' = [draft EXCEPT ![c] = v]
      BY <1>2, <2>3, <3>1 DEF Update, IsRetries
    <3>3. v.attempts = u.attempts + 1
      BY <3>1 DEF IsRetries, CallStates
    <3>4. CountedStep(c, v)
      BY <1>2, <2>1, <2>3, <3>2, <3>3 DEF CountedStep, Retried
    <3> QED
      BY <1>3, <3>4
  <2> QED
    BY <1>2, <1>8, <1>14, <2>2, <2>3 DEF Attempt
<1>15. CASE Judge(c)
  <2>1. audit' = audit /\ u.pc # "done"
    BY <1>2, <1>15 DEF Judge
  <2>2. CASE Ends(c, 500)
    BY <1>6, <2>1, <2>2
  <2>3. CASE Update(c, [draft[c] EXCEPT !.pc = "record", !.accepted = draft[c].spec = "valid"])
    <3>1. PICK b : b = (u.spec = "valid")
      OBVIOUS
    <3>2. PICK v : IsJudged(v, u, "record", b)
      BY DEF IsJudged
    <3>3. draft' = [draft EXCEPT ![c] = v]
      BY <1>2, <2>3, <3>1, <3>2 DEF Update, IsJudged
    <3> QED
      BY <1>4, <2>1, <3>2, <3>3, SameAttempts
  <2> QED
    BY <1>15, <2>2, <2>3 DEF Judge
<1>16. CASE CheckDraft(c) \/ JudgeSpec(c)
  <2>1. audit' = audit /\ u.pc # "done"
    BY <1>2, <1>16 DEF CheckDraft, JudgeSpec
  <2>2. (\E status : Ends(c, status)) \/ \E at : Goes(c, at)
    BY <1>16 DEF CheckDraft, JudgeSpec
  <2> QED
    BY <1>5, <1>6, <2>1, <2>2
<1>17. CASE RecordDraft(c)
  <2>1. u.pc = "record"
    BY <1>2, <1>17 DEF RecordDraft
  <2>2. CASE SaveRaises(c)
    BY <1>6, <2>1, <2>2 DEF SaveRaises
  <2>3. CASE Saves(DraftRecord(c)) /\ Ends(c, 200)
    <3>1. PICK v : IsEnds(v, u, "done", 200)
      BY DEF IsEnds
    <3>2. draft' = [draft EXCEPT ![c] = v]
      BY <1>2, <2>3, <3>1 DEF Ends, Update, IsEnds
    <3>3. v.attempts = u.attempts
      BY <3>1, SameAttempts
    <3>4. CountedStep(c, v)
      BY <1>2, <2>1, <2>3, <3>2, <3>3 DEF CountedStep, Retried, Saves
    <3> QED
      BY <1>3, <3>4
  <2>4. CASE Saves(DraftRecord(c)) /\ Goes(c, "check")
    <3>1. PICK v : IsGoes(v, u, "check")
      BY DEF IsGoes
    <3>2. draft' = [draft EXCEPT ![c] = v]
      BY <1>2, <2>4, <3>1 DEF Goes, Update, IsGoes
    <3>3. v.attempts = u.attempts
      BY <3>1, SameAttempts
    <3>4. CountedStep(c, v)
      BY <1>2, <2>1, <2>4, <3>2, <3>3 DEF CountedStep, Retried, Saves
    <3> QED
      BY <1>3, <3>4
  <2> QED
    BY <1>17, <2>2, <2>3, <2>4 DEF RecordDraft
<1>18. CASE RecordApplied(c)
  <2>1. u.pc = "apply"
    BY <1>2, <1>18 DEF RecordApplied
  <2>2. CASE SaveRaises(c)
    BY <1>6, <2>1, <2>2 DEF SaveRaises
  <2>3. CASE Saves(AppliedRecord(c)) /\ Ends(c, 200)
    <3>1. PICK v : IsEnds(v, u, "done", 200)
      BY DEF IsEnds
    <3>2. draft' = [draft EXCEPT ![c] = v]
      BY <1>2, <2>3, <3>1 DEF Ends, Update, IsEnds
    <3>3. v.attempts = u.attempts
      BY <3>1, SameAttempts
    <3>4. v.pc = "done"
      BY <3>1 DEF IsEnds, CallStates
    <3>5. CountedStep(c, v)
      BY <1>2, <2>1, <2>3, <3>2, <3>3, <3>4 DEF CountedStep, Retried, Saves
    <3> QED
      BY <1>3, <3>5
  <2> QED
    BY <1>18, <2>2, <2>3 DEF RecordApplied
<1> QED
  BY <1>1, <1>9, <1>10, <1>11, <1>12, <1>13, <1>14, <1>15, <1>16, <1>17, <1>18

Bounded(k) == k \in 0..MaxRetries - 1
AppliedIsDone == \A i \in DOMAIN audit : audit[i].kind = "applied" => draft[audit[i].call].pc = "done"
OnceEach == \A i, j \in DOMAIN audit : audit[i].call = audit[j].call /\ audit[i].kind = audit[j].kind => i = j
CountInv == (\A c \in Calls : Bounded(draft[c].attempts)) /\ AppliedIsDone /\ OnceEach
LEMMA CountInductive == DraftSpec => [](DraftInv /\ CountInv)
<1>1. DraftInit => CountInv
  <2> SUFFICES ASSUME DraftInit PROVE CountInv
    OBVIOUS
  <2>1. \A c \in Calls : draft[c].attempts = 0
    <3>1. \A c \in Calls : draft[c] = Idle
      BY DEF DraftInit
    <3>2. Idle.attempts = 0
      BY DEF Idle
    <3> QED
      BY <3>1, <3>2
  <2>2. DOMAIN audit = {}
    BY DEF DraftInit
  <2>3. 0 \in 0..MaxRetries - 1
    BY RetriesAssumption
  <2> QED
    BY <2>1, <2>2, <2>3 DEF CountInv, Bounded, AppliedIsDone, OnceEach
<1>2. DraftInv /\ CountInv /\ [DraftNext]_draftVars => CountInv'
  <2> SUFFICES ASSUME DraftInv, CountInv, [DraftNext]_draftVars PROVE CountInv'
    OBVIOUS
  <2>1. CASE UNCHANGED draftVars
    BY <2>1 DEF draftVars, CountInv, Bounded, AppliedIsDone, OnceEach
  <2>2. CASE DraftNext
    <3>1. PICK c \in Calls : \E v : CountedStep(c, v)
      BY <2>2, DraftStepCounted
    <3>2. PICK v : CountedStep(c, v)
      BY <3>1
    <3>3. /\ draft' = [draft EXCEPT ![c] = v] /\ draft[c].pc # "done" /\ Retried(draft[c].attempts, v.attempts)
          /\ draft \in [Calls -> CallStates] /\ audit \in Seq(AuditRecords)
      BY <3>2 DEF CountedStep, DraftInv, DraftsTyped
    <3>4. draft'[c] = v /\ \A d \in Calls : d # c => draft'[d] = draft[d]
      BY <3>3
    <3>5. ASSUME NEW d \in Calls PROVE Bounded(draft[d].attempts)'
      <4>1. CASE d = c
        <5>1. PICK a \in Nat : a = draft[c].attempts /\ a \in 0..MaxRetries - 1
          BY DEF CountInv, Bounded
        <5>2. PICK b : b = v.attempts
          OBVIOUS
        <5>3. b \in 0..MaxRetries - 1
          BY <3>3, <5>1, <5>2, RetriesAssumption DEF Retried
        <5> QED
          BY <3>4, <4>1, <5>2, <5>3 DEF Bounded
      <4>2. CASE d # c
        BY <3>4, <4>2 DEF CountInv, Bounded
      <4> QED
        BY <4>1, <4>2
    <3>6. ASSUME NEW i \in DOMAIN audit PROVE audit[i].call \in Calls
      <4>1. audit[i] \in AuditRecords
        BY <3>3
      <4> QED
        BY <4>1 DEF AuditRecords
    <3>7. ASSUME NEW i \in DOMAIN audit, audit[i].kind = "applied" PROVE draft'[audit[i].call].pc = "done"
      <4>1. audit[i].call \in Calls /\ draft[audit[i].call].pc = "done"
        BY <3>6, <3>7 DEF CountInv, AppliedIsDone
      <4>2. audit[i].call # c
        BY <3>3, <4>1
      <4> QED
        BY <3>4, <4>1, <4>2
    <3>8. CASE audit' = audit
      <4>1. AppliedIsDone'
        BY <3>7, <3>8 DEF AppliedIsDone
      <4>2. OnceEach'
        BY <3>8 DEF CountInv, OnceEach
      <4> QED
        BY <3>5, <4>1, <4>2 DEF CountInv
    <3>9. ASSUME NEW r, audit' = Append(audit, r), r.call = c, r.kind = "applied" => v.pc = "done",
                 \A i \in DOMAIN audit : ~(audit[i].call = c /\ audit[i].kind = r.kind)
          PROVE  CountInv'
      <4>1. PICK n \in Nat : n = Len(audit)
        BY <3>3
      <4>2. /\ DOMAIN audit = 1..n /\ DOMAIN audit' = 1..(n + 1)
            /\ audit'[n + 1] = r /\ \A i \in 1..n : audit'[i] = audit[i]
        BY <3>3, <3>9, <4>1
      <4>3. \A i \in DOMAIN audit' : (i \in DOMAIN audit /\ audit'[i] = audit[i]) \/ (i = n + 1 /\ audit'[i] = r)
        BY <4>2
      <4>4. AppliedIsDone'
        <5> SUFFICES ASSUME NEW i \in DOMAIN audit', audit'[i].kind = "applied" PROVE draft'[audit'[i].call].pc = "done"
          BY DEF AppliedIsDone
        <5>1. CASE i \in DOMAIN audit /\ audit'[i] = audit[i]
          BY <3>7, <5>1
        <5>2. CASE audit'[i] = r
          BY <3>4, <3>9, <5>2
        <5> QED
          BY <4>3, <5>1, <5>2
      <4>5. OnceEach'
        <5> SUFFICES ASSUME NEW i \in DOMAIN audit', NEW j \in DOMAIN audit', audit'[i].call = audit'[j].call, audit'[i].kind = audit'[j].kind
                     PROVE  i = j
          BY DEF OnceEach
        <5>1. CASE i \in DOMAIN audit /\ audit'[i] = audit[i] /\ j \in DOMAIN audit /\ audit'[j] = audit[j]
          BY <5>1 DEF CountInv, OnceEach
        <5>2. CASE i = n + 1 /\ audit'[i] = r /\ j \in DOMAIN audit /\ audit'[j] = audit[j]
          BY <3>9, <5>2
        <5>3. CASE j = n + 1 /\ audit'[j] = r /\ i \in DOMAIN audit /\ audit'[i] = audit[i]
          BY <3>9, <5>3
        <5> QED
          BY <4>3, <5>1, <5>2, <5>3
      <4> QED
        BY <3>5, <4>4, <4>5 DEF CountInv
    <3>10. CASE audit' = Append(audit, DraftRecord(c)) /\ draft[c].pc = "record"
      <4>1. PICK r : r = DraftRecord(c)
        OBVIOUS
      <4>2. r.call = c /\ r.kind = "draft"
        BY <4>1 DEF DraftRecord
      <4>3. \A i \in DOMAIN audit : audit[i].call # c
        BY <3>10 DEF DraftInv, RecordedIsPast
      <4> QED
        BY <3>9, <3>10, <4>1, <4>2, <4>3
    <3>11. CASE audit' = Append(audit, AppliedRecord(c)) /\ draft[c].pc = "apply" /\ v.pc = "done"
      <4>1. PICK r : r = AppliedRecord(c)
        OBVIOUS
      <4>2. r.call = c /\ r.kind = "applied"
        BY <4>1 DEF AppliedRecord
      <4>3. \A i \in DOMAIN audit : ~(audit[i].call = c /\ audit[i].kind = "applied")
        BY <3>3 DEF CountInv, AppliedIsDone
      <4> QED
        BY <3>9, <3>11, <4>1, <4>2, <4>3
    <3> QED
      BY <3>2, <3>8, <3>10, <3>11 DEF CountedStep
  <2> QED
    BY <2>1, <2>2
<1> QED
  BY <1>1, <1>2, DraftInitInv, DraftNextInv, PTL DEF DraftSpec
\* A set of at most one element.
LEMMA AtMostOne ==
  ASSUME NEW S, \A i, j \in S : i = j
  PROVE  Cardinality(S) <= 1
<1>1. CASE S = {}
  BY <1>1, FS_EmptySet
<1>2. CASE S # {}
  <2>1. PICK x \in S : TRUE
    BY <1>2
  <2>2. S = {x}
    BY <2>1
  <2>3. Cardinality(S) = 1
    BY <2>2, FS_Singleton
  <2> QED
    BY <2>3
<1> QED
  BY <1>1, <1>2
LEMMA DraftsKeepTypes == DraftSpec => []DraftTypeOK
<1>1. DraftInv /\ CountInv => DraftTypeOK
  <2> SUFFICES ASSUME DraftInv, CountInv PROVE DraftTypeOK
    OBVIOUS
  <2>1. metadata \in Calls \cup {"config"} /\ draft \in [Calls -> CallStates]
    BY DEF DraftInv, DraftsTyped
  <2>2. \A c \in Calls : draft[c].status \in {0, 200, 422, 500}
    BY <2>1 DEF CallStates, Codes
  <2>3. \A c \in Calls : draft[c].attempts \in 0..MaxRetries - 1
    BY DEF CountInv, Bounded
  <2>4. ASSUME NEW c \in Calls, NEW kind PROVE Cardinality(Records(c, kind)) <= 1
    <3>1. \A i, j \in Records(c, kind) : i = j
      BY DEF CountInv, OnceEach, Records
    <3> QED
      BY <3>1, AtMostOne
  <2> QED
    BY <2>1, <2>2, <2>3, <2>4 DEF DraftTypeOK
<1> QED
  BY <1>1, CountInductive, PTL

\* The rule graph.
LEMMA BlockClauses == ASSUME NEW b \in Blocks PROVE \E n \in Nat : DOMAIN b.clauses = 1..n /\ Len(b.clauses) = n
<1>1. (\E x : b.clauses = <<x>>) \/ (\E x, y : b.clauses = <<x, y>>) \/ b.clauses = <<>>
  BY DEF Blocks
<1> QED
  BY <1>1
LEMMA EvaluatedBound ==
  ASSUME block \in Blocks, NEW a, NEW b
  PROVE  Evaluated(a, b) \in 0..Len(block.clauses) /\ Len(block.clauses) \in Nat
<1>1. PICK n \in Nat : DOMAIN block.clauses = 1..n /\ Len(block.clauses) = n
  BY BlockClauses
<1>2. PICK S : S = {i \in DOMAIN block.clauses : \A j \in 1..i - 1 : Holds(j, a, b) = (block.form = "all")}
  OBVIOUS
<1>3. S \subseteq 1..n
  BY <1>1, <1>2
<1>4. IsFiniteSet(1..n) /\ Cardinality(1..n) = n
  BY FS_Interval
<1>5. IsFiniteSet(S) /\ Cardinality(S) <= n
  BY <1>3, <1>4, FS_Subset
<1>6. Cardinality(S) \in Nat
  BY <1>5, FS_CardinalityType
<1>7. Evaluated(a, b) = Cardinality(S)
  BY <1>2, Zenon DEF Evaluated
<1>8. PICK m \in Nat : m = Cardinality(S) /\ m <= n
  BY <1>5, <1>6
<1> QED
  BY <1>1, <1>7, <1>8
LEMMA TicksBounded ==
  ASSUME NEW s
  PROVE  s \in BoundedSeq(Prices, MaxTicks) <=> s \in Seq(Prices) /\ Len(s) <= MaxTicks
<1>1. ASSUME s \in BoundedSeq(Prices, MaxTicks) PROVE s \in Seq(Prices) /\ Len(s) <= MaxTicks
  <2>1. PICK m \in 0..MaxTicks : s \in [1..m -> Prices]
    BY <1>1 DEF BoundedSeq, SeqOf
  <2>2. m \in Nat /\ m <= MaxTicks
    BY PeriodsAssumption
  <2> QED
    BY <2>1, <2>2
<1>2. ASSUME s \in Seq(Prices), Len(s) <= MaxTicks PROVE s \in BoundedSeq(Prices, MaxTicks)
  <2>1. PICK m \in Nat : m = Len(s)
    BY <1>2
  <2>2. m \in 0..MaxTicks /\ s \in [1..m -> Prices]
    BY <1>2, <2>1, PeriodsAssumption
  <2> QED
    BY <2>2 DEF BoundedSeq, SeqOf
<1> QED
  BY <1>1, <1>2
LEMMA RulesTyped == RuleInit /\ [][RuleNext]_ruleVars => []RuleTypeOK
<1>1. RuleInit => RuleTypeOK
  <2> SUFFICES ASSUME RuleInit PROVE RuleTypeOK
    OBVIOUS
  <2>1. block \in Blocks /\ graph.ticks = <<>> /\ graph.trueCount = 0 /\ graph.evaluations = 0
    BY DEF RuleInit
  <2>2. <<>> \in Seq(Prices) /\ Len(<<>>) = 0 /\ 0 <= MaxTicks
    BY PeriodsAssumption
  <2>3. PICK n \in Nat : Len(block.clauses) = n
    BY <2>1, BlockClauses
  <2>4. 0 * n = 0
    BY <2>3
  <2>5. <<>> \in BoundedSeq(Prices, MaxTicks)
    BY <2>2, TicksBounded
  <2> QED
    BY <2>1, <2>2, <2>3, <2>4, <2>5 DEF RuleTypeOK
<1>2. RuleTypeOK /\ [RuleNext]_ruleVars => RuleTypeOK'
  <2> SUFFICES ASSUME RuleTypeOK, [RuleNext]_ruleVars PROVE RuleTypeOK'
    OBVIOUS
  <2>1. CASE UNCHANGED ruleVars
    BY <2>1 DEF ruleVars, RuleTypeOK
  <2>2. CASE RuleNext
    <3>1. PICK tick \in Prices : UpdatePrice(tick)
      BY <2>2 DEF RuleNext
    <3>2. block' = block /\ Len(graph.ticks) < MaxTicks
      BY <3>1 DEF UpdatePrice
    <3>3. /\ graph'.ticks = Append(graph.ticks, tick)
          /\ \E x : graph'.trueCount = graph.trueCount + (IF x THEN 1 ELSE 0)
          /\ \E a, b : graph'.evaluations = graph.evaluations + Evaluated(a, b)
      BY <3>1 DEF UpdatePrice
    <3>4. PICK s : s = graph.ticks /\ s \in Seq(Prices) /\ Len(s) <= MaxTicks
      BY TicksBounded DEF RuleTypeOK
    <3>5. PICK m \in Nat : m = Len(s) /\ m < MaxTicks
      BY <3>2, <3>4
    <3>6. Append(s, tick) \in Seq(Prices) /\ Len(Append(s, tick)) = m + 1
      BY <3>4, <3>5
    <3>7. Append(s, tick) \in BoundedSeq(Prices, MaxTicks)
      <4>1. PICK t : t = Append(s, tick)
        OBVIOUS
      <4>2. t \in Seq(Prices) /\ Len(t) <= MaxTicks
        BY <3>5, <3>6, <4>1, PeriodsAssumption
      <4>3. t \in BoundedSeq(Prices, MaxTicks)
        BY <4>2, TicksBounded
      <4> QED
        BY <4>1, <4>3
    <3>8. graph'.trueCount \in 0..(m + 1)
      <4>1. PICK t \in 0..m : t = graph.trueCount
        BY <3>4, <3>5 DEF RuleTypeOK
      <4>2. graph'.trueCount = t \/ graph'.trueCount = t + 1
        BY <3>3, <4>1
      <4> QED
        BY <4>1, <4>2
    <3>9. PICK n \in Nat : n = Len(block.clauses)
      BY EvaluatedBound DEF RuleTypeOK
    <3>10. graph'.evaluations \in 0..(m + 1) * n
      <4>1. PICK e : e = graph.evaluations /\ e \in 0..m * n
        BY <3>4, <3>5, <3>9 DEF RuleTypeOK
      <4>2. PICK a, b : graph'.evaluations = e + Evaluated(a, b)
        BY <3>3, <4>1
      <4>3. PICK d \in 0..n : d = Evaluated(a, b)
        BY <3>9, EvaluatedBound DEF RuleTypeOK
      <4>4. (m + 1) * n = m * n + n /\ m * n \in Nat
        OBVIOUS
      <4>5. PICK p \in Nat : p = m * n
        BY <4>4
      <4>6. e + d \in 0..(p + n)
        BY <4>1, <4>3, <4>5
      <4> QED
        BY <4>2, <4>3, <4>4, <4>5, <4>6
    <3> QED
      BY <3>2, <3>3, <3>4, <3>6, <3>7, <3>8, <3>9, <3>10 DEF RuleTypeOK
  <2> QED
    BY <2>1, <2>2
<1> QED
  BY <1>1, <1>2, PTL

(***************************************************************************)
(* RuleGraph, for any prices and any number of ticks: what the evaluator   *)
(* keeps is the trace of the ticks it was fed, the last `period` of their  *)
(* prices, gains and losses, and every value it computes from them lies    *)
(* where IndicatorsInRange says.                                           *)
(***************************************************************************)

LEMMA DivBounds ==
  ASSUME NEW a \in Nat, NEW b \in Nat \ {0}
  PROVE  /\ a \div b \in Nat
         /\ \A c \in Nat : a <= c * b => a \div b <= c
         /\ a >= b => a \div b >= 1
<1>1. PICK q \in Int : q = a \div b /\ b * q <= a /\ a < b * q + b
  OBVIOUS
<1>2. q >= 0
  <2> SUFFICES ASSUME q <= -1 PROVE FALSE
    BY <1>1
  <2>1. b * q <= b * (-1)
    BY Scaled, <1>1
  <2> QED
    BY <1>1, <2>1
<1>3. ASSUME NEW c \in Nat, a <= c * b PROVE q <= c
  <2> SUFFICES ASSUME q >= c + 1 PROVE FALSE
    BY <1>1
  <2>1. (c + 1) * b <= q * b
    BY Scaled, <1>1
  <2> QED
    BY <1>1, <1>3, <2>1
<1>4. a >= b => q >= 1
  BY <1>1, <1>2
<1> QED
  BY <1>1, <1>2, <1>3, <1>4
LEMMA MaxZero == \A d \in Int : Max({d, 0}) = IF d > 0 THEN d ELSE 0
<1> SUFFICES ASSUME NEW d \in Int PROVE Max({d, 0}) = IF d > 0 THEN d ELSE 0
  OBVIOUS
<1>1. PICK m : m = Max({d, 0})
  OBVIOUS
<1>2. \E x \in {d, 0} : \A y \in {d, 0} : x >= y
  OBVIOUS
<1>3. m \in {d, 0} /\ \A y \in {d, 0} : m >= y
  BY <1>1, <1>2 DEF Max
<1>4. m = IF d > 0 THEN d ELSE 0
  BY <1>3
<1> QED
  BY <1>1, <1>4

\* The sum of a list of numbers, none above B.
LEMMA SumIs ==
  ASSUME NEW s, NEW n \in Nat, n = Len(s)
  PROVE  \E U : U[0] = 0 /\ (\A i \in 1..n : U[i] = U[i - 1] + s[i]) /\ SumOf(s) = U[n]
<1> DEFINE Runs(g, k) == g = [i \in 0..k |-> IF i = 0 THEN 0 ELSE g[i - 1] + s[i]]
           T == {k \in Nat : ~\E g : Runs(g, k)}
<1>2. ASSUME T # {} PROVE FALSE
  <2>1. PICK m \in T : \A y \in T : m <= y
    BY <1>2, NatMin, Zenon
  <2>2. m \in Nat /\ ~\E g : Runs(g, m)
    OBVIOUS
  <2>3. CASE m = 0
    <3>1. PICK g : g = [i \in 0..0 |-> 0]
      OBVIOUS
    <3>2. g = [i \in 0..0 |-> IF i = 0 THEN 0 ELSE g[i - 1] + s[i]]
      BY <3>1
    <3> QED
      BY <2>2, <2>3, <3>2
  <2>4. CASE m # 0
    <3>1. m - 1 \in Nat /\ ~(m <= m - 1)
      BY <2>2, <2>4
    <3>2. PICK g : Runs(g, m - 1)
      BY <2>1, <3>1
    <3>3. PICK h : h = [i \in 0..m |-> IF i = m THEN g[m - 1] + s[m] ELSE g[i]]
      OBVIOUS
    <3>4. ASSUME NEW i \in 0..m PROVE h[i] = IF i = 0 THEN 0 ELSE h[i - 1] + s[i]
      <4>1. CASE i = m
        <5>1. h[i - 1] = g[m - 1]
          BY <2>2, <2>4, <3>3, <4>1
        <5> QED
          BY <2>4, <3>3, <4>1, <5>1
      <4>2. CASE i # m
        <5>1. i \in 0..(m - 1) /\ h[i] = g[i]
          BY <2>2, <3>3, <4>2
        <5>2. g[i] = IF i = 0 THEN 0 ELSE g[i - 1] + s[i]
          BY <3>2, <5>1
        <5>3. i # 0 => h[i - 1] = g[i - 1]
          BY <2>2, <3>3, <4>2
        <5> QED
          BY <5>1, <5>2, <5>3
      <4> QED
        BY <4>1, <4>2
    <3>5. Runs(h, m)
      BY <3>3, <3>4
    <3> QED
      BY <2>2, <3>5
  <2> QED
    BY <2>3, <2>4
<1>3. \E g : Runs(g, n)
  BY <1>2
<1>4. PICK g : g = CHOOSE upTo : upTo = [i \in 0..Len(s) |-> IF i = 0 THEN 0 ELSE upTo[i - 1] + s[i]]
  OBVIOUS
<1>5. g = CHOOSE upTo : Runs(upTo, n)
  BY <1>4, Zenon
<1>6. Runs(g, n)
  BY <1>3, <1>5, Zenon
<1>7. g[0] = 0 /\ \A i \in 1..n : g[i] = g[i - 1] + s[i]
  BY <1>6
<1>8. SumOf(s) = g[n]
  BY <1>4 DEF SumOf
<1> QED
  BY <1>7, <1>8
LEMMA SumBounds ==
  ASSUME NEW s, NEW n \in Nat, n = Len(s), NEW B \in Nat, \A k \in 1..n : s[k] \in 0..B
  PROVE  SumOf(s) \in Nat /\ SumOf(s) <= n * B /\ \A k \in 1..n : s[k] <= SumOf(s)
<1>1. PICK U : U[0] = 0 /\ (\A i \in 1..n : U[i] = U[i - 1] + s[i]) /\ SumOf(s) = U[n]
  BY SumIs
<1> DEFINE Good(i) == U[i] \in Nat /\ U[i] <= i * B /\ \A k \in 1..i : s[k] <= U[i]
           T == {i \in 0..n : ~Good(i)}
<1>2. ASSUME T # {} PROVE FALSE
  <2>1. T \subseteq Nat
    OBVIOUS
  <2>2. PICK m \in T : \A y \in T : m <= y
    BY <1>2, <2>1, NatMin, Zenon
  <2>3. m \in 0..n /\ ~Good(m)
    OBVIOUS
  <2>4. CASE m = 0
    <3>1. 0 * B = 0
      OBVIOUS
    <3> QED
      BY <1>1, <2>3, <2>4, <3>1
  <2>5. CASE m # 0
    <3>1. m \in 1..n /\ m - 1 \in 0..n /\ ~(m <= m - 1)
      BY <2>3, <2>5
    <3>2. Good(m - 1)
      BY <2>2, <3>1
    <3>3. PICK u \in Nat, v \in 0..B : u = U[m - 1] /\ v = s[m]
      BY <3>1, <3>2
    <3>4. U[m] = u + v
      BY <1>1, <3>1, <3>3
    <3>5. (m - 1) * B + B = m * B /\ (m - 1) * B \in Nat
      BY <3>1
    <3>6. U[m] \in Nat /\ U[m] <= m * B
      BY <3>2, <3>3, <3>4, <3>5
    <3>7. ASSUME NEW k \in 1..m PROVE s[k] <= U[m]
      <4>1. CASE k = m
        BY <3>3, <3>4, <4>1
      <4>2. CASE k # m
        <5>1. k \in 1..(m - 1) /\ k \in 1..n
          BY <3>1, <4>2
        <5>2. s[k] <= u /\ s[k] \in Nat
          BY <3>2, <3>3, <5>1
        <5> QED
          BY <3>3, <3>4, <5>2
      <4> QED
        BY <4>1, <4>2
    <3> QED
      BY <2>3, <3>6, <3>7
  <2> QED
    BY <2>4, <2>5
<1>3. Good(n)
  <2>1. n \in 0..n
    OBVIOUS
  <2>2. SUFFICES ASSUME ~Good(n) PROVE FALSE
    OBVIOUS
  <2>3. n \in T
    BY <2>1, <2>2
  <2> QED
    BY <1>2, <2>3, Zenon
<1>4. n * B \in Nat
  OBVIOUS
<1> QED
  BY <1>1, <1>3, <1>4
LEMMA SumOfTwo ==
  ASSUME NEW s, NEW n \in 1..2, n = Len(s), \A k \in 1..n : s[k] \in Nat
  PROVE  SumOf(s) = IF n = 1 THEN s[1] ELSE s[1] + s[2]
<1>1. PICK U : U[0] = 0 /\ (\A i \in 1..n : U[i] = U[i - 1] + s[i]) /\ SumOf(s) = U[n]
  BY SumIs
<1>2. U[1] = s[1]
  <2>1. U[1] = U[1 - 1] + s[1] /\ s[1] \in Nat /\ 1 - 1 = 0
    BY <1>1
  <2> QED
    BY <1>1, <2>1
<1>3. n = 2 => U[2] = s[1] + s[2]
  <2>1. n = 2 => U[2] = U[2 - 1] + s[2]
    BY <1>1
  <2>2. 2 - 1 = 1
    OBVIOUS
  <2> QED
    BY <1>2, <2>1, <2>2
<1> QED
  BY <1>1, <1>2, <1>3

\* A window holds the last of a list of values.
Trails(w, f, n, period) ==
  LET m == IF n < period THEN n ELSE period IN
  w \in Seq(Int) /\ Len(w) = m /\ \A j \in 1..m : w[j] = f[n - m + j]
LEMMA WindowTrails ==
  ASSUME NEW n \in Nat, NEW period \in Nat \ {0}, NEW w, NEW f, Trails(w, f, n, period), NEW v \in Int,
         NEW h, \A i \in 1..n : h[i] = f[i], h[n + 1] = v
  PROVE  Trails(Window(w, v, period), h, n + 1, period)
<1>1. PICK m \in Nat : m = IF n < period THEN n ELSE period
  OBVIOUS
<1>2. w \in Seq(Int) /\ Len(w) = m /\ \A j \in 1..m : w[j] = f[n - m + j]
  BY <1>1 DEF Trails
<1>3. PICK t : t = Append(w, v)
  OBVIOUS
<1>4. t \in Seq(Int) /\ Len(t) = m + 1 /\ t[m + 1] = v /\ \A j \in 1..m : t[j] = w[j]
  BY <1>2, <1>3
<1>5. ASSUME NEW j \in 1..(m + 1) PROVE t[j] = h[n - m + j]
  <2>1. CASE j = m + 1
    <3>1. n - m + (m + 1) = n + 1
      BY <1>1
    <3> QED
      BY <1>4, <2>1, <3>1
  <2>2. CASE j # m + 1
    <3>1. j \in 1..m /\ n - m + j \in 1..n
      BY <1>1, <2>2
    <3> QED
      BY <1>2, <1>4, <3>1
  <2> QED
    BY <2>1, <2>2
<1>6. CASE n < period
  <2>1. m = n /\ ~(m + 1 > period) /\ (IF n + 1 < period THEN n + 1 ELSE period) = m + 1
    BY <1>1, <1>6
  <2>2. Window(w, v, period) = t
    BY <1>3, <1>4, <2>1 DEF Window
  <2>3. \A j \in 1..(m + 1) : t[j] = h[(n + 1) - (m + 1) + j]
    <3>1. \A j \in 1..(m + 1) : n - m + j = (n + 1) - (m + 1) + j
      BY <1>1
    <3> QED
      BY <1>5, <3>1
  <2> QED
    BY <1>4, <2>1, <2>2, <2>3 DEF Trails
<1>7. CASE ~(n < period)
  <2>1. m = period /\ m + 1 > period /\ (IF n + 1 < period THEN n + 1 ELSE period) = m
    BY <1>1, <1>7
  <2>2. Window(w, v, period) = Tail(t)
    BY <1>3, <1>4, <2>1 DEF Window
  <2>3. PICK r : r = Tail(t)
    OBVIOUS
  <2>4. r \in Seq(Int) /\ Len(r) = m /\ \A j \in 1..m : r[j] = t[j + 1]
    BY <1>4, <2>3
  <2>5. ASSUME NEW j \in 1..m PROVE r[j] = h[(n + 1) - m + j]
    <3>1. j + 1 \in 1..(m + 1) /\ n - m + (j + 1) = (n + 1) - m + j
      BY <1>1
    <3> QED
      BY <1>5, <2>4, <3>1
  <2> QED
    BY <2>1, <2>2, <2>3, <2>4, <2>5 DEF Trails
<1> QED
  BY <1>6, <1>7

\* The values of a list have a bound, and a bounded set a lowest and a highest.
LEMMA ListBounded ==
  ASSUME NEW n \in Nat, NEW f, \A i \in 1..n : f[i] \in Nat
  PROVE  \E B \in Nat : \A i \in 1..n : f[i] <= B
<1> DEFINE Good(k) == \E B \in Nat : \A i \in 1..k : f[i] <= B
           T == {k \in 0..n : ~Good(k)}
<1>1. ASSUME T # {} PROVE FALSE
  <2>1. T \subseteq Nat
    OBVIOUS
  <2>2. PICK m \in T : \A y \in T : m <= y
    BY <1>1, <2>1, NatMin, Zenon
  <2>3. m \in 0..n /\ ~Good(m)
    OBVIOUS
  <2>4. CASE m = 0
    BY <2>3, <2>4
  <2>5. CASE m # 0
    <3>1. m \in 1..n /\ m - 1 \in 0..n /\ ~(m <= m - 1)
      BY <2>3, <2>5
    <3>2. PICK B \in Nat : \A i \in 1..(m - 1) : f[i] <= B
      BY <2>2, <3>1
    <3>3. PICK v \in Nat : v = f[m]
      BY <3>1
    <3>4. \A i \in 1..m : f[i] <= B + v
      <4> SUFFICES ASSUME NEW i \in 1..m PROVE f[i] <= B + v
        OBVIOUS
      <4>1. f[i] \in Nat
        BY <3>1
      <4>2. i = m \/ i \in 1..(m - 1)
        BY <3>1
      <4> QED
        BY <3>2, <3>3, <4>1, <4>2
    <3>5. B + v \in Nat
      OBVIOUS
    <3> QED
      BY <2>3, <3>4, <3>5
  <2> QED
    BY <2>4, <2>5
<1>2. n \in 0..n
  OBVIOUS
<1>3. SUFFICES ASSUME ~Good(n) PROVE FALSE
  OBVIOUS
<1>4. n \in T
  BY <1>2, <1>3
<1> QED
  BY <1>1, <1>4, Zenon
LEMMA LowestHighest ==
  ASSUME NEW S, S \subseteq Nat, S # {}, NEW B \in Nat, \A x \in S : x <= B
  PROVE  /\ Min(S) \in S /\ \A x \in S : Min(S) <= x
         /\ Max(S) \in S /\ \A x \in S : x <= Max(S)
<1>1. \E x \in S : \A y \in S : x <= y
  BY NatMin, Zenon
<1>2. PICK a : a = Min(S)
  OBVIOUS
<1>3. a \in S /\ \A x \in S : a <= x
  BY <1>1, <1>2 DEF Min
<1> DEFINE T == {B - x : x \in S}
<1>4. T \subseteq Nat /\ T # {}
  <2>1. PICK x \in S : TRUE
    OBVIOUS
  <2>2. B - x \in T
    OBVIOUS
  <2>3. ASSUME NEW y \in S PROVE B - y \in Nat
    BY <2>3
  <2> QED
    BY <2>2, <2>3
<1>5. PICK d \in T : \A e \in T : d <= e
  BY <1>4, NatMin, Zenon
<1>6. PICK h \in S : d = B - h
  OBVIOUS
<1>7. ASSUME NEW x \in S PROVE h >= x
  <2>1. B - x \in T
    OBVIOUS
  <2>2. B - h <= B - x
    BY <1>5, <1>6, <2>1
  <2>3. h \in Nat /\ x \in Nat
    BY <1>6, <1>7
  <2> QED
    BY <2>2, <2>3
<1>8. PICK b : b = Max(S)
  OBVIOUS
<1>9. b \in S /\ \A x \in S : b >= x
  BY <1>7, <1>8 DEF Max
<1> QED
  BY <1>2, <1>3, <1>8, <1>9
\* A value between two of them is in their range.
LEMMA InTheRange ==
  ASSUME NEW S, S \subseteq Nat, NEW B \in Nat, \A x \in S : x <= B, NEW v \in Int, NEW a \in S, NEW b \in S, a <= v, v <= b
  PROVE  v \in Min(S)..Max(S)
<1>1. PICK lo : lo = Min(S)
  OBVIOUS
<1>2. PICK hi : hi = Max(S)
  OBVIOUS
<1>3. lo \in S /\ lo <= a
  BY <1>1, LowestHighest
<1>4. hi \in S /\ b <= hi
  BY <1>2, LowestHighest
<1>5. v \in lo..hi
  BY <1>3, <1>4
<1> QED
  BY <1>1, <1>2, <1>5

\* The prices of the ticks, their gains and their losses.
Rise(d) == IF d > 0 THEN d ELSE 0
PriceOf(t) == [i \in 1..Len(t) |-> t[i] * Scale]
GainOf(t) == [i \in 1..(Len(t) - 1) |-> Rise(t[i + 1] * Scale - t[i] * Scale)]
LossOf(t) == [i \in 1..(Len(t) - 1) |-> Rise(-(t[i + 1] * Scale - t[i] * Scale))]
RecentOf(t, k) == {t[i] * Scale : i \in {j \in DOMAIN t : j > Len(t) - k}}
Between(t, v) == v \in Int /\ \E i, j \in 1..Len(t) : t[i] * Scale <= v /\ v <= t[j] * Scale
LEMMA PriceNat == ASSUME NEW p \in Prices PROVE p \in Nat /\ p * Scale \in Nat
<1>1. PICK c \in Nat : c = Scale
  BY ScaleAssumption
<1>2. p \in Nat
  BY ScaleAssumption
<1>3. p * c \in Nat
  BY <1>2
<1> QED
  BY <1>1, <1>2, <1>3
\* A value between two recent prices is in their range.
LEMMA RecentRange ==
  ASSUME NEW t \in Seq(Prices), NEW k, NEW v \in Int, NEW a \in RecentOf(t, k), NEW b \in RecentOf(t, k), a <= v, v <= b
  PROVE  v \in Min(RecentOf(t, k))..Max(RecentOf(t, k))
<1>1. PICK n \in Nat : n = Len(t) /\ DOMAIN t = 1..n
  OBVIOUS
<1>2. PICK f : f = [i \in 1..n |-> t[i] * Scale]
  OBVIOUS
<1>3. \A i \in 1..n : f[i] \in Nat /\ f[i] = t[i] * Scale
  <2> SUFFICES ASSUME NEW i \in 1..n PROVE t[i] * Scale \in Nat
    BY <1>2
  <2>1. t[i] \in Prices
    BY <1>1
  <2> QED
    BY <2>1, PriceNat
<1>4. PICK B \in Nat : \A i \in 1..n : f[i] <= B
  BY <1>3, ListBounded
<1>5. PICK S : S = RecentOf(t, k)
  OBVIOUS
<1>6. \A x \in S : \E i \in 1..n : x = f[i]
  BY <1>1, <1>3, <1>5 DEF RecentOf
<1>7. S \subseteq Nat /\ \A x \in S : x <= B
  BY <1>3, <1>4, <1>6
<1> QED
  BY <1>5, <1>7, InTheRange
\* One more tick.
LEMMA TicksOn ==
  ASSUME NEW t \in Seq(Prices), NEW n \in Nat, n = Len(t), NEW tick \in Prices
  PROVE  /\ Append(t, tick) \in Seq(Prices) /\ Len(Append(t, tick)) = n + 1
         /\ Append(t, tick)[n + 1] = tick /\ \A i \in 1..n : Append(t, tick)[i] = t[i]
OBVIOUS
LEMMA SmaStep ==
  ASSUME NEW t \in Seq(Prices), NEW n \in Nat, n = Len(t), NEW tick \in Prices, NEW w, Trails(w, PriceOf(t), n, SmaPeriod)
  PROVE  Trails(Window(w, tick * Scale, SmaPeriod), PriceOf(Append(t, tick)), n + 1, SmaPeriod)
<1>1. PICK v \in Int : v = tick * Scale
  BY PriceNat
<1>2. PICK u : u = Append(t, tick)
  OBVIOUS
<1>3. u \in Seq(Prices) /\ Len(u) = n + 1 /\ u[n + 1] = tick /\ \A i \in 1..n : u[i] = t[i]
  BY <1>2, TicksOn
<1>4. PICK f, h : f = PriceOf(t) /\ h = PriceOf(u)
  OBVIOUS
<1>5. \A i \in 1..n : h[i] = f[i]
  BY <1>3, <1>4 DEF PriceOf
<1>6. h[n + 1] = v
  BY <1>1, <1>3, <1>4 DEF PriceOf
<1>7. SmaPeriod \in Nat \ {0}
  BY PeriodsAssumption
<1>8. Trails(w, f, n, SmaPeriod)
  BY <1>4
<1>9. Trails(Window(w, v, SmaPeriod), h, n + 1, SmaPeriod)
  BY <1>5, <1>6, <1>7, <1>8, WindowTrails
<1> QED
  BY <1>1, <1>2, <1>4, <1>9
\* The moving average of one or two prices lies between them.
LEMMA SmaBetween ==
  ASSUME NEW t \in Seq(Prices), NEW n \in Nat \ {0}, n = Len(t), NEW w, Trails(w, PriceOf(t), n, SmaPeriod)
  PROVE  Sma(w) \in Int /\ \E a, b \in RecentOf(t, SmaPeriod) : a <= Sma(w) /\ Sma(w) <= b
<1>1. PICK m : m = IF n < SmaPeriod THEN n ELSE SmaPeriod
  OBVIOUS
<1>2. m \in 1..2 /\ m <= n /\ m <= SmaPeriod /\ SmaPeriod \in Nat
  BY <1>1, PeriodsAssumption
<1>3. Len(w) = m /\ \A j \in 1..m : w[j] = PriceOf(t)[n - m + j]
  BY <1>1 DEF Trails
<1>4. PICK R : R = RecentOf(t, SmaPeriod)
  OBVIOUS
<1>5. ASSUME NEW j \in 1..m PROVE w[j] \in Nat /\ w[j] \in R
  <2>0. n - m + j \in 1..n /\ n - m + j > n - SmaPeriod
    BY <1>2
  <2>1. PICK i \in 1..n : i = n - m + j /\ i > n - SmaPeriod
    BY <2>0
  <2>2. w[j] = t[i] * Scale
    BY <1>3, <2>1 DEF PriceOf
  <2>3. t[i] \in Prices /\ i \in DOMAIN t
    BY <2>1
  <2>4. t[i] * Scale \in Nat
    BY <2>3, PriceNat
  <2>5. t[i] * Scale \in R
    BY <1>4, <2>1, <2>3 DEF RecentOf
  <2> QED
    BY <2>2, <2>4, <2>5
<1>6. SumOf(w) = IF m = 1 THEN w[1] ELSE w[1] + w[2]
  BY <1>2, <1>3, <1>5, SumOfTwo
<1>7. Sma(w) = SumOf(w) \div m
  BY <1>3 DEF Sma
<1>8. CASE m = 1
  <2>1. PICK a \in R : a = w[1] /\ a \in Nat
    BY <1>5, <1>8
  <2>2. Sma(w) = a
    BY <1>6, <1>7, <1>8, <2>1
  <2>3. a <= a
    BY <2>1
  <2> QED
    BY <1>4, <2>1, <2>2, <2>3
<1>9. CASE m = 2
  <2>1. PICK a \in R : a = w[1] /\ a \in Nat
    BY <1>5, <1>9
  <2>2. PICK b \in R : b = w[2] /\ b \in Nat
    BY <1>5, <1>9
  <2>3. PICK q \in Int : q = (a + b) \div 2 /\ (a <= q \/ b <= q) /\ (q <= a \/ q <= b)
    BY <2>1, <2>2
  <2>4. Sma(w) = q
    BY <1>6, <1>7, <1>9, <2>1, <2>2, <2>3
  <2> QED
    BY <1>4, <2>1, <2>2, <2>3, <2>4
<1> QED
  BY <1>2, <1>8, <1>9
\* The exponential average stays between the prices seen.
LEMMA EmaBetween ==
  ASSUME NEW t \in Seq(Prices), NEW n \in Nat, n = Len(t), NEW tick \in Prices, NEW e, IF n = 0 THEN e = None ELSE Between(t, e) /\ e # None
  PROVE  Between(Append(t, tick), Ema(e, tick * Scale))
<1>1. PICK p \in Nat : p = tick * Scale
  BY PriceNat
<1>2. PICK u : u = Append(t, tick)
  OBVIOUS
<1>3. u \in Seq(Prices) /\ Len(u) = n + 1 /\ u[n + 1] = tick /\ \A i \in 1..n : u[i] = t[i]
  BY <1>2, TicksOn
<1>4. n + 1 \in 1..(n + 1) /\ u[n + 1] * Scale = p
  BY <1>1, <1>3
<1>5. CASE n = 0
  <2>1. Ema(e, p) = p
    BY <1>5 DEF Ema
  <2>2. p <= p
    OBVIOUS
  <2>3. Between(u, p)
    BY <1>3, <1>4, <2>2 DEF Between
  <2> QED
    BY <1>1, <1>2, <2>1, <2>3
<1>6. CASE n # 0
  <2>1. e \in Int /\ e # None
    BY <1>6 DEF Between
  <2>2. PICK i, j \in 1..n : t[i] * Scale <= e /\ e <= t[j] * Scale
    BY <1>6 DEF Between
  <2>3. PICK a \in Nat, b \in Nat : a = t[i] * Scale /\ b = t[j] * Scale
    <3>1. t[i] \in Prices /\ t[j] \in Prices
      BY <2>2
    <3> QED
      BY <3>1, PriceNat
  <2>4. PICK q : q = Ema(e, p)
    OBVIOUS
  <2>5. q = e + (2 * (p - e)) \div (EmaPeriod + 1)
    BY <2>1, <2>4 DEF Ema
  <2>6. q \in Int /\ (e <= q \/ p <= q) /\ (q <= e \/ q <= p)
    <3>1. CASE EmaPeriod = 1
      BY <2>1, <2>5, <3>1
    <3>2. CASE EmaPeriod = 3
      <4>1. EmaPeriod + 1 = 4
        BY <3>2
      <4>2. PICK d \in Int : d = p - e
        BY <2>1
      <4>3. PICK h \in Int : h = (2 * d) \div 4 /\ 4 * h <= 2 * d /\ 2 * d < 4 * h + 4
        OBVIOUS
      <4>4. q = e + h
        BY <2>5, <4>1, <4>2, <4>3
      <4> QED
        BY <2>1, <4>2, <4>3, <4>4
    <3> QED
      BY <3>1, <3>2, PeriodsAssumption
  <2>7. u[i] * Scale = a /\ u[j] * Scale = b /\ i \in 1..(n + 1) /\ j \in 1..(n + 1)
    BY <1>3, <2>2, <2>3
  <2>8. (a <= q \/ p <= q) /\ (q <= b \/ q <= p)
    BY <2>1, <2>2, <2>3, <2>6
  <2>9. \E x \in 1..(n + 1) : u[x] * Scale <= q
    BY <1>4, <2>7, <2>8
  <2>10. \E x \in 1..(n + 1) : q <= u[x] * Scale
    BY <1>4, <2>7, <2>8
  <2>11. Between(u, q)
    BY <1>3, <2>6, <2>9, <2>10 DEF Between
  <2> QED
    BY <1>1, <1>2, <2>4, <2>11
<1> QED
  BY <1>5, <1>6

LEMMA DivLower ==
  ASSUME NEW a \in Nat, NEW b \in Nat \ {0}
  PROVE  /\ a \div b \in Nat /\ b * (a \div b) <= a
         /\ \A c \in Int : b * c <= a => c <= a \div b
<1>1. PICK q \in Int : q = a \div b /\ b * q <= a /\ a < b * q + b
  OBVIOUS
<1>2. q \in Nat
  BY <1>1, DivBounds
<1>3. ASSUME NEW c \in Int, b * c <= a PROVE c <= q
  <2> SUFFICES ASSUME q + 1 <= c PROVE FALSE
    BY <1>1
  <2>1. (q + 1) * b <= c * b
    BY Scaled
  <2>2. (q + 1) * b = b * q + b /\ c * b = b * c
    OBVIOUS
  <2> QED
    BY <1>1, <1>3, <2>1, <2>2
<1> QED
  BY <1>1, <1>2, <1>3

\* The widest change of a price that the scale leaves room for.
Widest == (100 * Scale - 1) \div RsiPeriod
LEMMA WidestIs ==
  /\ Widest \in Nat /\ RsiPeriod * Widest <= 100 * Scale - 1 /\ Widest * Scale \in Nat
  /\ \A p, q \in Prices : p - q <= Widest
<1>1. PICK c \in Nat \ {0} : c = Scale
  BY ScaleAssumption
<1>2. PICK k \in Nat \ {0} : k = RsiPeriod
  BY PeriodsAssumption
<1>3. PICK a \in Nat : a = 100 * c - 1
  OBVIOUS
<1>4. PICK w : w = a \div k
  OBVIOUS
<1>5. w \in Nat /\ k * w <= a
  BY <1>4, DivLower
<1>6. \A d \in Int : k * d <= a => d <= w
  BY <1>4, DivLower
<1>7. ASSUME NEW p \in Prices, NEW q \in Prices PROVE p - q <= w
  <2>1. PICK d \in Int : d = p - q
    <3>1. p \in Nat /\ q \in Nat
      BY PriceNat
    <3> QED
      BY <3>1
  <2>2. RsiPeriod * (p - q) < 100 * Scale
    BY ScaleAssumption
  <2>3. k * d < 100 * c
    BY <1>1, <1>2, <2>1, <2>2, Zenon
  <2>4. k * d \in Int
    OBVIOUS
  <2>5. k * d <= a
    BY <1>3, <2>3, <2>4
  <2> QED
    BY <1>6, <2>1, <2>5
<1>8. Widest = w
  BY <1>1, <1>2, <1>3, <1>4 DEF Widest
<1>9. w * c \in Nat
  BY <1>5
<1> QED
  BY <1>1, <1>2, <1>3, <1>5, <1>7, <1>8, <1>9

\* A change from price q to price p, scaled: what rises, and how far.
LEMMA RiseIs ==
  ASSUME NEW p \in Prices, NEW q \in Prices
  PROVE  /\ Rise(p * Scale - q * Scale) \in 0..(Widest * Scale)
         /\ Rise(p * Scale - q * Scale) > 0 <=> p > q
         /\ Rise(p * Scale - q * Scale) > 0 => Rise(p * Scale - q * Scale) >= Scale
<1>1. PICK c \in Nat \ {0} : c = Scale
  BY ScaleAssumption
<1>2. p \in Nat /\ q \in Nat
  BY PriceNat
<1>3. PICK w \in Nat : w = Widest /\ p - q <= w
  BY WidestIs
<1>4. PICK d \in Int : d = p - q
  BY <1>2
<1>5. p * c - q * c = d * c /\ d * c \in Int
  BY <1>2, <1>4
<1>6. d * c <= w * c
  BY <1>3, <1>4, Scaled
<1>7. CASE d > 0
  <2>1. 1 * c <= d * c
    BY <1>4, <1>7, Scaled
  <2>2. d * c >= c /\ d * c > 0
    BY <2>1, <1>5
  <2>3. Rise(p * Scale - q * Scale) = d * c
    BY <1>1, <1>5, <2>2 DEF Rise
  <2>4. p > q
    BY <1>2, <1>4, <1>7
  <2>5. d * c \in 0..(w * c)
    BY <1>3, <1>5, <1>6, <2>2
  <2> QED
    BY <1>1, <1>3, <2>2, <2>3, <2>4, <2>5
<1>8. CASE ~(d > 0)
  <2>1. d * c <= 0 * c
    BY <1>4, <1>8, Scaled
  <2>2. ~(d * c > 0)
    BY <1>5, <2>1
  <2>3. Rise(p * Scale - q * Scale) = 0
    BY <1>1, <1>5, <2>2 DEF Rise
  <2>4. ~(p > q)
    BY <1>2, <1>4, <1>8
  <2>5. 0 \in 0..(w * c)
    BY <1>3
  <2> QED
    BY <1>1, <1>3, <2>3, <2>4, <2>5
<1> QED
  BY <1>7, <1>8

LEMMA GainIs ==
  ASSUME NEW t \in Seq(Prices), NEW n \in Nat, n = Len(t), NEW i \in 1..(n - 1)
  PROVE  /\ GainOf(t)[i] \in 0..(Widest * Scale) /\ (GainOf(t)[i] > 0 <=> t[i + 1] > t[i])
         /\ LossOf(t)[i] \in 0..(Widest * Scale) /\ (LossOf(t)[i] > 0 <=> t[i] > t[i + 1])
         /\ LossOf(t)[i] > 0 => LossOf(t)[i] >= Scale
<1>1. PICK p \in Prices, q \in Prices : p = t[i + 1] /\ q = t[i]
  <2>1. i \in 1..n /\ i + 1 \in 1..n
    OBVIOUS
  <2> QED
    BY <2>1
<1>2. GainOf(t)[i] = Rise(p * Scale - q * Scale)
  BY <1>1 DEF GainOf
<1>3. LossOf(t)[i] = Rise(q * Scale - p * Scale)
  <2>1. LossOf(t)[i] = Rise(-(p * Scale - q * Scale))
    BY <1>1 DEF LossOf
  <2>2. p * Scale \in Nat /\ q * Scale \in Nat
    BY PriceNat
  <2>3. -(p * Scale - q * Scale) = q * Scale - p * Scale
    BY <2>2
  <2> QED
    BY <2>1, <2>3
<1>4. /\ Rise(p * Scale - q * Scale) \in 0..(Widest * Scale)
      /\ Rise(p * Scale - q * Scale) > 0 <=> p > q
  BY RiseIs
<1>5. /\ Rise(q * Scale - p * Scale) \in 0..(Widest * Scale)
      /\ Rise(q * Scale - p * Scale) > 0 <=> q > p
      /\ Rise(q * Scale - p * Scale) > 0 => Rise(q * Scale - p * Scale) >= Scale
  BY RiseIs
<1> QED
  BY <1>1, <1>2, <1>3, <1>4, <1>5

\* The windows of gains and losses go on with the next change.
LEMMA ChangesStep ==
  ASSUME NEW t \in Seq(Prices), NEW n \in Nat \ {0}, n = Len(t), NEW tick \in Prices, NEW gains, NEW losses,
         Trails(gains, GainOf(t), n - 1, RsiPeriod), Trails(losses, LossOf(t), n - 1, RsiPeriod),
         NEW delta, delta = tick * Scale - t[n] * Scale
  PROVE  /\ Trails(Window(gains, Max({delta, 0}), RsiPeriod), GainOf(Append(t, tick)), n, RsiPeriod)
         /\ Trails(Window(losses, Max({-delta, 0}), RsiPeriod), LossOf(Append(t, tick)), n, RsiPeriod)
<1>1. PICK u : u = Append(t, tick)
  OBVIOUS
<1>2. u \in Seq(Prices) /\ Len(u) = n + 1 /\ u[n + 1] = tick /\ \A i \in 1..n : u[i] = t[i]
  BY <1>1, TicksOn
<1>3. PICK k \in Nat : k = n - 1 /\ k + 1 = n
  OBVIOUS
<1>4. t[n] \in Prices
  OBVIOUS
<1>5. tick * Scale \in Nat /\ t[n] * Scale \in Nat
  BY <1>4, PriceNat
<1>6. delta \in Int
  BY <1>5
<1>7. PICK x \in Int : x = Max({delta, 0}) /\ x = Rise(delta)
  BY <1>6, MaxZero DEF Rise
<1>8. PICK y \in Int : y = Max({-delta, 0}) /\ y = Rise(-delta)
  <2>1. PICK d \in Int : d = -delta
    BY <1>6
  <2> QED
    BY <2>1, MaxZero DEF Rise
<1>9. RsiPeriod \in Nat \ {0}
  BY PeriodsAssumption
<1>10. PICK f, h : f = GainOf(t) /\ h = GainOf(u)
  OBVIOUS
<1>11. \A i \in 1..k : h[i] = f[i]
  <2> SUFFICES ASSUME NEW i \in 1..k PROVE h[i] = f[i]
    OBVIOUS
  <2>1. i \in 1..n /\ i + 1 \in 1..n /\ i \in 1..(n - 1) /\ i \in 1..((n + 1) - 1)
    BY <1>3
  <2> QED
    BY <1>2, <1>10, <2>1 DEF GainOf
<1>12. h[k + 1] = x
  <2>1. n \in 1..((n + 1) - 1)
    OBVIOUS
  <2>2. h[n] = Rise(tick * Scale - t[n] * Scale)
    BY <1>2, <1>10, <2>1 DEF GainOf
  <2> QED
    BY <1>3, <1>7, <2>2
<1>13. Trails(gains, f, k, RsiPeriod)
  BY <1>3, <1>10
<1>14. Trails(Window(gains, x, RsiPeriod), h, k + 1, RsiPeriod)
  BY <1>9, <1>11, <1>12, <1>13, WindowTrails
<1>15. PICK e, g : e = LossOf(t) /\ g = LossOf(u)
  OBVIOUS
<1>16. \A i \in 1..k : g[i] = e[i]
  <2> SUFFICES ASSUME NEW i \in 1..k PROVE g[i] = e[i]
    OBVIOUS
  <2>1. i \in 1..n /\ i + 1 \in 1..n /\ i \in 1..(n - 1) /\ i \in 1..((n + 1) - 1)
    BY <1>3
  <2> QED
    BY <1>2, <1>15, <2>1 DEF LossOf
<1>17. g[k + 1] = y
  <2>1. n \in 1..((n + 1) - 1)
    OBVIOUS
  <2>2. g[n] = Rise(-(tick * Scale - t[n] * Scale))
    BY <1>2, <1>15, <2>1 DEF LossOf
  <2> QED
    BY <1>3, <1>8, <2>2
<1>18. Trails(losses, e, k, RsiPeriod)
  BY <1>3, <1>15
<1>19. Trails(Window(losses, y, RsiPeriod), g, k + 1, RsiPeriod)
  BY <1>9, <1>16, <1>17, <1>18, WindowTrails
<1>20. Trails(Window(gains, Max({delta, 0}), RsiPeriod), GainOf(Append(t, tick)), n, RsiPeriod)
  BY <1>1, <1>3, <1>7, <1>10, <1>14
<1>21. Trails(Window(losses, Max({-delta, 0}), RsiPeriod), LossOf(Append(t, tick)), n, RsiPeriod)
  BY <1>1, <1>3, <1>8, <1>15, <1>19
<1> QED
  BY <1>20, <1>21

SeenOf(t) == {i \in 2..Len(t) : i > Len(t) - RsiPeriod}
RoseOnly(t) == (\A i \in SeenOf(t) : t[i] >= t[i - 1]) /\ \E i \in SeenOf(t) : t[i] > t[i - 1]
\* The RSI is within its range, and at its upper end exactly when the prices
\* it looks at rose without ever falling.
LEMMA RsiRange ==
  ASSUME NEW t \in Seq(Prices), NEW n \in Nat, n = Len(t), n >= 2, NEW gains, NEW losses, NEW previous, previous # None,
         Trails(gains, GainOf(t), n - 1, RsiPeriod), Trails(losses, LossOf(t), n - 1, RsiPeriod)
  PROVE  /\ Rsi(previous, gains, losses) \in 0..100 * Scale
         /\ Rsi(previous, gains, losses) = 100 * Scale <=> RoseOnly(t)
<1>1. PICK c \in Nat \ {0} : c = Scale
  BY ScaleAssumption
<1>2. PICK k \in Nat \ {0} : k = RsiPeriod
  BY PeriodsAssumption
<1>3. PICK m \in Nat : m = (IF n - 1 < k THEN n - 1 ELSE k) /\ m <= k /\ m <= n - 1 /\ (m = n - 1 \/ m = k)
  <2>1. n - 1 \in Nat
    OBVIOUS
  <2> QED
    BY <2>1
<1>a. m <= k /\ m <= n - 1 /\ (m = n - 1 \/ m = k)
  BY <1>3
<1>4. Len(gains) = m /\ \A j \in 1..m : gains[j] = GainOf(t)[(n - 1) - m + j]
  BY <1>2, <1>3 DEF Trails
<1>5. Len(losses) = m /\ \A j \in 1..m : losses[j] = LossOf(t)[(n - 1) - m + j]
  BY <1>2, <1>3 DEF Trails
<1>6. PICK B \in Nat : B = Widest * Scale
  BY WidestIs
<1>7. ASSUME NEW j \in 1..m
      PROVE  /\ gains[j] \in 0..B /\ losses[j] \in 0..B /\ (losses[j] > 0 => losses[j] >= c)
             /\ \E i \in SeenOf(t) : (gains[j] > 0 <=> t[i] > t[i - 1]) /\ (losses[j] > 0 <=> t[i - 1] > t[i])
  <2>0. (n - 1) - m + j \in Int
    OBVIOUS
  <2>1. PICK a \in Int : a = (n - 1) - m + j
    BY <2>0
  <2>2. a \in 1..(n - 1) /\ a + 1 \in 2..n /\ a + 1 > n - k /\ (a + 1) - 1 = a
    <3>1. a >= 1 /\ a <= n - 1
      BY <1>a, <2>1
    <3>2. a + 1 > n - k
      BY <1>a, <2>1
    <3> QED
      BY <3>1, <3>2
  <2>3. /\ GainOf(t)[a] \in 0..B /\ (GainOf(t)[a] > 0 <=> t[a + 1] > t[a])
        /\ LossOf(t)[a] \in 0..B /\ (LossOf(t)[a] > 0 <=> t[a] > t[a + 1])
        /\ LossOf(t)[a] > 0 => LossOf(t)[a] >= c
    <3>1. GainOf(t)[a] \in 0..(Widest * Scale)
      BY <2>2, GainIs
    <3>2. GainOf(t)[a] > 0 <=> t[a + 1] > t[a]
      BY <2>2, GainIs
    <3>3. LossOf(t)[a] \in 0..(Widest * Scale)
      BY <2>2, GainIs
    <3>4. LossOf(t)[a] > 0 <=> t[a] > t[a + 1]
      BY <2>2, GainIs
    <3>5. LossOf(t)[a] > 0 => LossOf(t)[a] >= Scale
      BY <2>2, GainIs
    <3> QED
      BY <1>1, <1>6, <3>1, <3>2, <3>3, <3>4, <3>5
  <2>4. gains[j] = GainOf(t)[a] /\ losses[j] = LossOf(t)[a]
    BY <1>4, <1>5, <2>1
  <2>5. PICK i \in SeenOf(t) : i = a + 1 /\ i - 1 = a
    BY <1>2, <2>2 DEF SeenOf
  <2> QED
    BY <2>3, <2>4, <2>5
<1>8. ASSUME NEW i \in SeenOf(t)
      PROVE  \E j \in 1..m : (gains[j] > 0 <=> t[i] > t[i - 1]) /\ (losses[j] > 0 <=> t[i - 1] > t[i])
  <2>1. i \in 2..n /\ i > n - k
    BY <1>2 DEF SeenOf
  <2>2. PICK j \in Int : j = i - n + m
    BY <2>1
  <2>3. j \in 1..m /\ (n - 1) - m + j = i - 1 /\ i - 1 \in 1..(n - 1) /\ (i - 1) + 1 = i
    <3>1. j <= m
      BY <2>1, <2>2
    <3>2. j >= 1
      BY <1>a, <2>1, <2>2
    <3>3. (n - 1) - m + j = i - 1 /\ i - 1 \in 1..(n - 1) /\ (i - 1) + 1 = i
      BY <2>1, <2>2
    <3> QED
      BY <3>1, <3>2, <3>3
  <2>4. (GainOf(t)[i - 1] > 0 <=> t[(i - 1) + 1] > t[i - 1]) /\ (LossOf(t)[i - 1] > 0 <=> t[i - 1] > t[(i - 1) + 1])
    <3>1. PICK a \in 1..(n - 1) : a = i - 1
      BY <2>3
    <3>2. GainOf(t)[a] > 0 <=> t[a + 1] > t[a]
      BY GainIs
    <3>3. LossOf(t)[a] > 0 <=> t[a] > t[a + 1]
      BY GainIs
    <3> QED
      BY <3>1, <3>2, <3>3
  <2>5. gains[j] = GainOf(t)[i - 1] /\ losses[j] = LossOf(t)[i - 1]
    BY <1>4, <1>5, <2>3
  <2> QED
    BY <2>3, <2>4, <2>5
<1>9. \A i \in SeenOf(t) : t[i] \in Nat /\ t[i - 1] \in Nat
  <2> SUFFICES ASSUME NEW i \in SeenOf(t) PROVE t[i] \in Nat /\ t[i - 1] \in Nat
    OBVIOUS
  <2>1. i \in 1..n /\ i - 1 \in 1..n
    BY DEF SeenOf
  <2>2. t[i] \in Prices /\ t[i - 1] \in Prices
    BY <2>1
  <2> QED
    BY <2>2, PriceNat
<1>10. PICK g : g = SumOf(gains)
  OBVIOUS
<1>11. PICK l : l = SumOf(losses)
  OBVIOUS
<1>12. g \in Nat /\ g <= m * B /\ \A j \in 1..m : gains[j] <= g
  BY <1>4, <1>7, <1>10, SumBounds
<1>13. l \in Nat /\ \A j \in 1..m : losses[j] <= l
  BY <1>5, <1>7, <1>11, SumBounds
<1>14. g > 0 => \E j \in 1..m : gains[j] > 0
  <2> SUFFICES ASSUME \A j \in 1..m : ~(gains[j] > 0) PROVE ~(g > 0)
    OBVIOUS
  <2>1. \A j \in 1..m : gains[j] \in 0..0
    BY <1>7
  <2>2. SumOf(gains) <= m * 0
    BY <1>4, <2>1, SumBounds
  <2>3. m * 0 = 0
    OBVIOUS
  <2> QED
    BY <1>10, <1>12, <2>2, <2>3
<1>15. l > 0 => \E j \in 1..m : losses[j] > 0
  <2> SUFFICES ASSUME \A j \in 1..m : ~(losses[j] > 0) PROVE ~(l > 0)
    OBVIOUS
  <2>1. \A j \in 1..m : losses[j] \in 0..0
    BY <1>7
  <2>2. SumOf(losses) <= m * 0
    BY <1>5, <2>1, SumBounds
  <2>3. m * 0 = 0
    OBVIOUS
  <2> QED
    BY <1>11, <1>13, <2>2, <2>3
<1>16. RoseOnly(t) <=> l = 0 /\ g > 0
  <2>1. ASSUME l = 0, g > 0 PROVE RoseOnly(t)
    <3>1. ASSUME NEW i \in SeenOf(t) PROVE t[i] >= t[i - 1]
      <4>1. PICK j \in 1..m : losses[j] > 0 <=> t[i - 1] > t[i]
        BY <1>8
      <4>2. ~(losses[j] > 0)
        BY <1>7, <1>13, <2>1
      <4> QED
        BY <1>9, <4>1, <4>2
    <3>2. PICK j \in 1..m : gains[j] > 0
      BY <1>14, <2>1
    <3>3. PICK i \in SeenOf(t) : gains[j] > 0 <=> t[i] > t[i - 1]
      BY <1>7
    <3> QED
      BY <3>1, <3>2, <3>3 DEF RoseOnly
  <2>2. ASSUME RoseOnly(t) PROVE l = 0 /\ g > 0
    <3>1. ~(l > 0)
      <4> SUFFICES ASSUME l > 0 PROVE FALSE
        OBVIOUS
      <4>1. PICK j \in 1..m : losses[j] > 0
        BY <1>15
      <4>2. PICK i \in SeenOf(t) : losses[j] > 0 <=> t[i - 1] > t[i]
        BY <1>7
      <4>3. t[i] >= t[i - 1]
        BY <2>2 DEF RoseOnly
      <4> QED
        BY <1>9, <4>1, <4>2, <4>3
    <3>2. PICK i \in SeenOf(t) : t[i] > t[i - 1]
      BY <2>2 DEF RoseOnly
    <3>3. PICK j \in 1..m : gains[j] > 0 <=> t[i] > t[i - 1]
      BY <1>8
    <3>4. gains[j] > 0 /\ gains[j] <= g /\ gains[j] \in Nat
      BY <1>7, <1>12, <3>2, <3>3
    <3> QED
      BY <1>12, <1>13, <3>1, <3>4
  <2> QED
    BY <2>1, <2>2
<1>17. PICK r : r = Rsi(previous, gains, losses)
  OBVIOUS
<1>18. r = IF l = 0 THEN IF g > 0 THEN 100 * c ELSE 50 * c ELSE 100 * c - (100 * c * l) \div (g + l)
  BY <1>1, <1>10, <1>11, <1>17 DEF Rsi
<1>19. CASE l = 0
  <2>1. r = IF g > 0 THEN 100 * c ELSE 50 * c
    BY <1>18, <1>19
  <2>2. r \in 0..100 * c /\ (r = 100 * c <=> g > 0)
    BY <1>12, <2>1
  <2> QED
    BY <1>1, <1>16, <1>17, <1>19, <2>2
<1>20. CASE l # 0
  <2>1. l >= c
    <3>1. PICK j \in 1..m : losses[j] > 0
      BY <1>13, <1>15, <1>20
    <3>2. losses[j] >= c /\ losses[j] <= l /\ losses[j] \in Nat
      BY <1>7, <1>13, <3>1
    <3> QED
      BY <1>13, <3>2
  <2>2. PICK h \in Nat : h = 100 * c - 1
    OBVIOUS
  <2>3. PICK w \in Nat : w = Widest /\ k * w <= h /\ B = w * c
    BY <1>1, <1>2, <1>6, <2>2, WidestIs
  <2>4. m * B <= k * B
    BY <1>3, Scaled
  <2>5. k * B = (k * w) * c
    BY <2>3
  <2>6. (k * w) * c <= h * c
    BY <2>3, Scaled
  <2>7. c * h <= l * h
    BY <2>1, <1>13, Scaled
  <2>8. c * h = h * c /\ l * h = 100 * c * l - l
    BY <1>13, <2>2
  <2>9. PICK x \in Nat : x = 100 * c * l
    BY <1>13
  <2>10. m * B \in Nat /\ k * B \in Nat /\ h * c \in Nat /\ l * h \in Nat
    BY <1>13
  <2>11. x >= g + l
    BY <1>12, <1>13, <2>4, <2>5, <2>6, <2>7, <2>8, <2>9, <2>10
  <2>12. PICK b \in Nat \ {0} : b = g + l
    BY <1>12, <1>13, <1>20
  <2>13. PICK y \in Nat : y = 100 * c
    OBVIOUS
  <2>14. x <= y * b
    <3>1. y * b = y * g + y * l /\ y * l = 100 * c * l /\ y * g \in Nat /\ y * l \in Nat
      BY <1>12, <1>13, <2>12, <2>13
    <3> QED
      BY <2>9, <3>1
  <2>15. PICK q : q = x \div b
    OBVIOUS
  <2>16. q \in Nat
    BY <2>15, DivBounds
  <2>17. q <= y
    BY <2>14, <2>15, DivBounds
  <2>18. q >= 1
    BY <2>11, <2>12, <2>15, DivBounds
  <2>19. r = y - q
    BY <1>18, <1>20, <2>9, <2>12, <2>13, <2>15
  <2>20. r \in 0..y /\ r # y
    BY <2>16, <2>17, <2>18, <2>19
  <2> QED
    BY <1>1, <1>16, <1>17, <1>20, <2>13, <2>20
<1> QED
  BY <1>19, <1>20

InRange(t, v) ==
  /\ v["sma"] \in Min(RecentOf(t, SmaPeriod)) .. Max(RecentOf(t, SmaPeriod))
  /\ v["ema"] \in Min(RecentOf(t, MaxTicks)) .. Max(RecentOf(t, MaxTicks))
  /\ v["rsi"] \in 0 .. 100 * Scale
  /\ v["rsi"] = 100 * Scale <=> RoseOnly(t)
\* What the evaluator keeps, by the ticks it was fed.
GraphOK(g) ==
  /\ g.ticks \in Seq(Prices) /\ Len(g.ticks) <= MaxTicks
  /\ g.previousPrice = IF Len(g.ticks) = 0 THEN None ELSE g.ticks[Len(g.ticks)] * Scale
  /\ Trails(g.window, PriceOf(g.ticks), Len(g.ticks), SmaPeriod)
  /\ Len(g.ticks) # 0 => /\ Trails(g.gains, GainOf(g.ticks), Len(g.ticks) - 1, RsiPeriod)
                         /\ Trails(g.losses, LossOf(g.ticks), Len(g.ticks) - 1, RsiPeriod)
  /\ IF Len(g.ticks) = 0 THEN g.ema = None ELSE Between(g.ticks, g.ema)
  /\ Len(g.ticks) = 0 => \A x \in Names : g.now[x] = None
  /\ Len(g.ticks) # 0 => InRange(g.ticks, g.now) /\ \A x \in Names : g.now[x] \in Int
  /\ g.now["vwap"] = None
\* The next state of the evaluator, field by field.
Updated(g, h, tick) ==
  /\ h.window = Window(g.window, tick * Scale, SmaPeriod)
  /\ h.gains = IF g.previousPrice = None THEN <<>> ELSE Window(g.gains, Max({tick * Scale - g.previousPrice, 0}), RsiPeriod)
  /\ h.losses = IF g.previousPrice = None THEN <<>> ELSE Window(g.losses, Max({-(tick * Scale - g.previousPrice), 0}), RsiPeriod)
  /\ h.ema = Ema(g.ema, tick * Scale) /\ h.previousPrice = tick * Scale
  /\ h.now = [close |-> tick * Scale, sma |-> Sma(h.window), ema |-> h.ema, rsi |-> Rsi(g.previousPrice, h.gains, h.losses), vwap |-> None]
  /\ h.before = g.now /\ h.ticks = Append(g.ticks, tick)
LEMMA UpdateIs ==
  ASSUME NEW tick, UpdatePrice(tick)
  PROVE  /\ Len(graph.ticks) < MaxTicks /\ block' = block /\ Updated(graph, graph', tick)
         /\ graph'.holds = BlockHolds(graph'.now, graph'.before)
         /\ graph'.trueCount = graph.trueCount + (IF graph'.holds THEN 1 ELSE 0)
<1>1. PICK window : window = Window(graph.window, tick * Scale, SmaPeriod)
  OBVIOUS
<1>2. PICK gains : gains = IF graph.previousPrice = None THEN <<>> ELSE Window(graph.gains, Max({tick * Scale - graph.previousPrice, 0}), RsiPeriod)
  OBVIOUS
<1>3. PICK losses : losses = IF graph.previousPrice = None THEN <<>> ELSE Window(graph.losses, Max({-(tick * Scale - graph.previousPrice), 0}), RsiPeriod)
  OBVIOUS
<1>4. PICK vals : vals = [close |-> tick * Scale, sma |-> Sma(window), ema |-> Ema(graph.ema, tick * Scale),
                          rsi |-> Rsi(graph.previousPrice, gains, losses), vwap |-> None]
  OBVIOUS
<1>5. PICK holds : holds = BlockHolds(vals, graph.now)
  OBVIOUS
<1>6. PICK evaluations : evaluations = graph.evaluations + Evaluated(vals, graph.now)
  OBVIOUS
<1>7. vals.ema = Ema(graph.ema, tick * Scale)
  BY <1>4
<1>8. graph' = [window |-> window, ema |-> vals.ema, previousPrice |-> tick * Scale, gains |-> gains, losses |-> losses,
                now |-> vals, before |-> graph.now, holds |-> holds,
                trueCount |-> graph.trueCount + (IF holds THEN 1 ELSE 0),
                evaluations |-> evaluations, ticks |-> Append(graph.ticks, tick)]
  BY <1>1, <1>2, <1>3, <1>4, <1>5, <1>6 DEF UpdatePrice, Unsupported
<1>9. /\ graph'.window = window /\ graph'.ema = vals.ema /\ graph'.previousPrice = tick * Scale /\ graph'.gains = gains
      /\ graph'.losses = losses /\ graph'.now = vals /\ graph'.before = graph.now /\ graph'.holds = holds
      /\ graph'.trueCount = graph.trueCount + (IF holds THEN 1 ELSE 0) /\ graph'.ticks = Append(graph.ticks, tick)
  BY <1>8
<1>10. Len(graph.ticks) < MaxTicks /\ block' = block
  BY DEF UpdatePrice
<1>11. Updated(graph, graph', tick)
  BY <1>1, <1>2, <1>3, <1>4, <1>7, <1>9 DEF Updated
<1> QED
  BY <1>5, <1>9, <1>10, <1>11

LEMMA RecentPrices ==
  ASSUME NEW t \in Seq(Prices), NEW n \in Nat, n = Len(t), n <= MaxTicks, NEW i \in 1..n
  PROVE  t[i] * Scale \in RecentOf(t, MaxTicks)
<1>1. i \in DOMAIN t /\ i > n - MaxTicks
  BY PeriodsAssumption
<1> QED
  BY <1>1 DEF RecentOf
LEMMA BetweenNat == ASSUME NEW t \in Seq(Prices), NEW v, Between(t, v) PROVE v \in Nat
<1>1. PICK i \in 1..Len(t) : t[i] * Scale <= v
  BY DEF Between
<1>2. t[i] \in Prices
  BY <1>1
<1>3. t[i] * Scale \in Nat
  BY <1>2, PriceNat
<1> QED
  BY <1>1, <1>3 DEF Between
LEMMA GraphStep ==
  ASSUME NEW g, GraphOK(g), NEW tick \in Prices, Len(g.ticks) < MaxTicks, NEW h, Updated(g, h, tick)
  PROVE  GraphOK(h)
<1>1. PICK t \in Seq(Prices) : t = g.ticks
  BY DEF GraphOK
<1>2. PICK n \in Nat : n = Len(t) /\ n < MaxTicks
  BY <1>1
<1>3. PICK u : u = Append(t, tick)
  OBVIOUS
<1>4. u \in Seq(Prices) /\ Len(u) = n + 1 /\ u[n + 1] = tick /\ \A i \in 1..n : u[i] = t[i]
  BY <1>2, <1>3, TicksOn
<1>5. h.ticks = u
  BY <1>1, <1>3 DEF Updated
<1>6. PICK p \in Nat : p = tick * Scale
  BY PriceNat
<1>7. PICK c \in Nat \ {0} : c = Scale
  BY ScaleAssumption
<1>8. n + 1 \in Nat /\ n + 1 # 0 /\ n + 1 <= MaxTicks
  BY <1>2, PeriodsAssumption
<1>9. h.previousPrice = u[n + 1] * Scale
  BY <1>4 DEF Updated
<1>10. Trails(h.window, PriceOf(u), n + 1, SmaPeriod)
  BY <1>1, <1>2, <1>3, SmaStep DEF GraphOK, Updated
<1>11. PICK w : w = h.window
  OBVIOUS
<1>12. Sma(w) \in Int /\ \E a, b \in RecentOf(u, SmaPeriod) : a <= Sma(w) /\ Sma(w) <= b
  BY <1>4, <1>8, <1>10, <1>11, SmaBetween
<1>13. Sma(w) \in Min(RecentOf(u, SmaPeriod))..Max(RecentOf(u, SmaPeriod))
  BY <1>4, <1>12, RecentRange
<1>14. PICK e : e = h.ema
  OBVIOUS
<1>15. Between(u, e)
  <2>1. e = Ema(g.ema, tick * Scale)
    BY <1>14 DEF Updated
  <2>2. IF n = 0 THEN g.ema = None ELSE Between(t, g.ema)
    BY <1>1, <1>2 DEF GraphOK
  <2>3. n # 0 => g.ema # None
    <3>1. n # 0 => g.ema \in Nat
      BY <2>2, BetweenNat
    <3> QED
      BY <3>1 DEF None
  <2>4. IF n = 0 THEN g.ema = None ELSE Between(t, g.ema) /\ g.ema # None
    BY <2>2, <2>3
  <2> QED
    BY <1>2, <1>3, <2>1, <2>4, EmaBetween
<1>16. e \in Int /\ \E a, b \in RecentOf(u, MaxTicks) : a <= e /\ e <= b
  <2>1. e \in Int
    BY <1>15 DEF Between
  <2>2. PICK i, j \in 1..(n + 1) : u[i] * Scale <= e /\ e <= u[j] * Scale
    BY <1>4, <1>15 DEF Between
  <2>3. u[i] * Scale \in RecentOf(u, MaxTicks) /\ u[j] * Scale \in RecentOf(u, MaxTicks)
    BY <1>4, <1>8, <2>2, RecentPrices
  <2> QED
    BY <2>1, <2>2, <2>3
<1>17. e \in Min(RecentOf(u, MaxTicks))..Max(RecentOf(u, MaxTicks))
  BY <1>4, <1>16, RecentRange
<1>18. PICK r : r = Rsi(g.previousPrice, h.gains, h.losses)
  OBVIOUS
<1>19. /\ Trails(h.gains, GainOf(u), n, RsiPeriod) /\ Trails(h.losses, LossOf(u), n, RsiPeriod)
       /\ r \in 0..100 * Scale /\ (r = 100 * Scale <=> RoseOnly(u))
  <2>1. CASE n = 0
    <3>1. g.previousPrice = None
      BY <1>1, <1>2, <2>1 DEF GraphOK
    <3>2. h.gains = <<>> /\ h.losses = <<>>
      BY <3>1 DEF Updated
    <3>3. \A f : Trails(<<>>, f, 0, RsiPeriod)
      <4>1. (IF 0 < RsiPeriod THEN 0 ELSE RsiPeriod) = 0
        BY PeriodsAssumption
      <4> QED
        BY <4>1 DEF Trails
    <3>4. r = 50 * c
      BY <1>7, <1>18, <3>1 DEF Rsi
    <3>5. r \in 0..100 * c /\ r # 100 * c
      BY <3>4
    <3>6. SeenOf(u) = {}
      BY <1>4, <2>1 DEF SeenOf
    <3>7. ~RoseOnly(u)
      BY <3>6 DEF RoseOnly
    <3> QED
      BY <1>7, <2>1, <3>2, <3>3, <3>5, <3>7
  <2>2. CASE n # 0
    <3>1. g.previousPrice = t[n] * Scale /\ Trails(g.gains, GainOf(t), n - 1, RsiPeriod) /\ Trails(g.losses, LossOf(t), n - 1, RsiPeriod)
      BY <1>1, <1>2, <2>2 DEF GraphOK
    <3>2. t[n] * Scale \in Nat
      <4>1. t[n] \in Prices
        BY <1>2, <2>2
      <4> QED
        BY <4>1, PriceNat
    <3>3. g.previousPrice # None
      BY <3>1, <3>2 DEF None
    <3>4. PICK delta : delta = tick * Scale - t[n] * Scale
      OBVIOUS
    <3>5. h.gains = Window(g.gains, Max({delta, 0}), RsiPeriod) /\ h.losses = Window(g.losses, Max({-delta, 0}), RsiPeriod)
      BY <3>1, <3>3, <3>4 DEF Updated
    <3>6. Trails(Window(g.gains, Max({delta, 0}), RsiPeriod), GainOf(Append(t, tick)), n, RsiPeriod)
      BY <1>2, <2>2, <3>1, <3>4, ChangesStep
    <3>7. Trails(Window(g.losses, Max({-delta, 0}), RsiPeriod), LossOf(Append(t, tick)), n, RsiPeriod)
      BY <1>2, <2>2, <3>1, <3>4, ChangesStep
    <3>8. Trails(h.gains, GainOf(u), n, RsiPeriod) /\ Trails(h.losses, LossOf(u), n, RsiPeriod)
      BY <1>3, <3>5, <3>6, <3>7
    <3>9. PICK k \in Nat : k = n + 1 /\ k >= 2 /\ k - 1 = n
      BY <2>2
    <3>10. r \in 0..100 * Scale
      BY <1>4, <1>18, <3>3, <3>8, <3>9, RsiRange
    <3>11. r = 100 * Scale <=> RoseOnly(u)
      BY <1>4, <1>18, <3>3, <3>8, <3>9, RsiRange
    <3> QED
      BY <3>8, <3>10, <3>11
  <2> QED
    BY <2>1, <2>2
<1>20. PICK v : v = h.now
  OBVIOUS
<1>21. v = [close |-> p, sma |-> Sma(w), ema |-> e, rsi |-> r, vwap |-> None]
  BY <1>6, <1>11, <1>14, <1>18, <1>20 DEF Updated
<1>22. v["close"] = p /\ v["sma"] = Sma(w) /\ v["ema"] = e /\ v["rsi"] = r /\ v["vwap"] = None
  BY <1>21
<1>23. InRange(u, v)
  BY <1>13, <1>17, <1>19, <1>22 DEF InRange
<1>24. \A x \in Names : v[x] \in Int
  <2>1. r \in Int
    BY <1>7, <1>19
  <2>2. None \in Int
    BY DEF None
  <2> QED
    BY <1>12, <1>16, <1>22, <2>1, <2>2 DEF Names
<1>25. PICK k \in Nat : k = n + 1 /\ k = Len(u) /\ k # 0 /\ k - 1 = n /\ k <= MaxTicks
  BY <1>4, <1>8
<1>26. Trails(h.window, PriceOf(u), k, SmaPeriod) /\ Trails(h.gains, GainOf(u), k - 1, RsiPeriod) /\ Trails(h.losses, LossOf(u), k - 1, RsiPeriod)
  BY <1>10, <1>19, <1>25
<1>27. h.previousPrice = u[k] * Scale
  BY <1>9, <1>25
<1> QED
  BY <1>4, <1>5, <1>14, <1>15, <1>20, <1>22, <1>23, <1>24, <1>25, <1>26, <1>27 DEF GraphOK

\* A block holds over two sets of values; a crossing among them.
HoldsOn(b, v, u) ==
  IF b.form = "all" THEN \A i \in DOMAIN b.clauses : ClauseHolds(b.clauses[i], v, u)
  ELSE \E i \in DOMAIN b.clauses : ClauseHolds(b.clauses[i], v, u)
IsCrossing(b) == Len(b.clauses) = 1 /\ b.clauses[1].op \in {"crossed_above", "crossed_below"}
NeedsVwap(b) == b.form = "all" /\ \E i \in DOMAIN b.clauses : "vwap" \in {b.clauses[i].left, b.clauses[i].right}
Operand(x) == x \in Names \/ x = "fifty"
LEMMA BlockNames ==
  ASSUME NEW b \in Blocks, NEW i \in DOMAIN b.clauses
  PROVE  b.clauses[i].left \in Names /\ Operand(b.clauses[i].right)
BY DEF Blocks, Clause, Operand, Names, Operators
LEMMA BlockDomain == ASSUME NEW b \in Blocks PROVE Len(b.clauses) = 1 => DOMAIN b.clauses = {1}
<1> SUFFICES ASSUME Len(b.clauses) = 1 PROVE DOMAIN b.clauses = {1}
  OBVIOUS
<1>1. PICK s : s = b.clauses
  OBVIOUS
<1>2. (\E c : s = <<c>>) \/ (\E c, d : s = <<c, d>>) \/ s = <<>>
  BY <1>1 DEF Blocks
<1>3. (\E c : s = <<c>>) => DOMAIN s = {1}
  OBVIOUS
<1>4. Len(s) = 1 => ~(\E c, d : s = <<c, d>>) /\ s # <<>>
  OBVIOUS
<1> QED
  BY <1>1, <1>2, <1>3, <1>4
LEMMA ResolvesInt ==
  ASSUME NEW v, \A x \in Names : v[x] \in Int, NEW x, Operand(x)
  PROVE  Resolve(x, v) \in Int
<1>1. PICK c \in Nat : c = Scale
  BY ScaleAssumption
<1>2. 50 * c \in Int
  OBVIOUS
<1> QED
  BY <1>1, <1>2 DEF Resolve, Operand
\* What was above on one tick was not below on the next.
LEMMA CrossedOnce ==
  ASSUME NEW c, c.op \in {"crossed_above", "crossed_below"}, NEW v, NEW u, NEW w,
         Resolve(c.left, v) \in Int, Resolve(c.right, v) \in Int, ClauseHolds(c, v, u)
  PROVE  ~ClauseHolds(c, w, v)
<1>1. PICK l \in Int : l = Resolve(c.left, v)
  OBVIOUS
<1>2. PICK r \in Int : r = Resolve(c.right, v)
  OBVIOUS
<1>3. CASE c.op = "crossed_above"
  <2>1. l > r
    BY <1>1, <1>2, <1>3 DEF ClauseHolds
  <2>2. ClauseHolds(c, w, v) => l <= r
    BY <1>1, <1>2, <1>3 DEF ClauseHolds
  <2> QED
    BY <2>1, <2>2
<1>4. CASE c.op = "crossed_below"
  <2>1. l < r
    BY <1>1, <1>2, <1>4 DEF ClauseHolds
  <2>2. ClauseHolds(c, w, v) => l >= r
    BY <1>1, <1>2, <1>4 DEF ClauseHolds
  <2> QED
    BY <2>1, <2>2
<1> QED
  BY <1>3, <1>4
LEMMA CrossesSeen ==
  ASSUME NEW c, c.op \in {"crossed_above", "crossed_below"}, NEW v, NEW u, ClauseHolds(c, v, u)
  PROVE  Resolve(c.left, u) # None
BY DEF ClauseHolds
LEMMA CrossingIs == ASSUME NEW b \in Blocks, IsCrossing(b), NEW v, NEW u PROVE HoldsOn(b, v, u) <=> ClauseHolds(b.clauses[1], v, u)
<1>1. DOMAIN b.clauses = {1}
  BY BlockDomain DEF IsCrossing
<1> QED
  BY <1>1, Zenon DEF HoldsOn
LEMMA SilentOn == ASSUME NEW b, NeedsVwap(b), NEW v, NEW u, v["vwap"] = None PROVE ~HoldsOn(b, v, u)
<1>1. PICK i \in DOMAIN b.clauses : "vwap" \in {b.clauses[i].left, b.clauses[i].right}
  BY DEF NeedsVwap
<1>2. Resolve("vwap", v) = None
  BY DEF Resolve
<1>3. ~ClauseHolds(b.clauses[i], v, u)
  BY <1>1, <1>2 DEF ClauseHolds
<1> QED
  BY <1>3 DEF HoldsOn, NeedsVwap

\* The inductive invariant of the evaluator: what it keeps is the trace of its
\* ticks, and a block that holds now holds by its current and previous values.
RuleInv ==
  /\ block \in Blocks /\ GraphOK(graph)
  /\ graph.holds => Len(graph.ticks) # 0 /\ HoldsOn(block, graph.now, graph.before)
  /\ graph.trueCount \in Nat
  /\ NeedsVwap(block) => graph.trueCount = 0
LEMMA RuleStarts == RuleInit => RuleInv
<1> SUFFICES ASSUME RuleInit PROVE RuleInv
  OBVIOUS
<1>1. PICK g : g = graph
  OBVIOUS
<1>2. PICK vals : vals = [x \in Names |-> None]
  OBVIOUS
<1>3. g = [window |-> <<>>, ema |-> None, previousPrice |-> None, gains |-> <<>>, losses |-> <<>>,
              now |-> vals, before |-> vals,
              holds |-> FALSE, trueCount |-> 0, evaluations |-> 0, ticks |-> <<>>]
  BY <1>1, <1>2 DEF RuleInit
<1>4. g.window = <<>> /\ g.ema = None /\ g.previousPrice = None /\ g.now = vals /\ g.holds = FALSE /\ g.trueCount = 0 /\ g.ticks = <<>>
  BY <1>3
<1>5. Len(g.ticks) = 0 /\ g.ticks \in Seq(Prices)
  BY <1>4
<1>6. Len(g.ticks) <= MaxTicks
  BY <1>5, PeriodsAssumption
<1>7. Trails(g.window, PriceOf(g.ticks), Len(g.ticks), SmaPeriod)
  <2>1. (IF 0 < SmaPeriod THEN 0 ELSE SmaPeriod) = 0
    BY PeriodsAssumption
  <2>2. \A f : Trails(<<>>, f, 0, SmaPeriod)
    BY <2>1 DEF Trails
  <2> QED
    BY <1>4, <1>5, <2>2
<1>8. \A x \in Names : g.now[x] = None
  BY <1>2, <1>4
<1>9. g.now["vwap"] = None
  BY <1>8 DEF Names
<1>10. GraphOK(g)
  BY <1>4, <1>5, <1>6, <1>7, <1>8, <1>9 DEF GraphOK
<1>11. block \in Blocks
  BY DEF RuleInit
<1> QED
  BY <1>1, <1>4, <1>10, <1>11 DEF RuleInv
LEMMA RuleTick ==
  ASSUME RuleInv, NEW tick \in Prices, UpdatePrice(tick)
  PROVE  RuleInv' /\ NoRepeatedCrossing /\ Len(graph'.ticks) # 0
<1>1. /\ Len(graph.ticks) < MaxTicks /\ block' = block /\ Updated(graph, graph', tick)
      /\ graph'.holds = BlockHolds(graph'.now, graph'.before)
      /\ graph'.trueCount = graph.trueCount + (IF graph'.holds THEN 1 ELSE 0)
  BY UpdateIs
<1>2. GraphOK(graph) /\ block \in Blocks
  BY DEF RuleInv
<1>3. PICK b \in Blocks : b = block
  BY <1>2
<1>4. PICK g : g = graph
  OBVIOUS
<1>5. PICK h : h = graph'
  OBVIOUS
<1>6. GraphOK(g) /\ Updated(g, h, tick) /\ Len(g.ticks) < MaxTicks
  BY <1>1, <1>2, <1>4, <1>5
<1>7. GraphOK(h)
  BY <1>6, GraphStep
<1>8. h.ticks = Append(g.ticks, tick) /\ h.before = g.now
  BY <1>6 DEF Updated
<1>9. g.ticks \in Seq(Prices)
  BY <1>6 DEF GraphOK
<1>10. Len(h.ticks) # 0
  BY <1>8, <1>9
<1>11. h.holds <=> HoldsOn(b, h.now, h.before)
  BY <1>1, <1>3, <1>5 DEF BlockHolds, HoldsOn, Holds
<1>12. h.trueCount = g.trueCount + (IF h.holds THEN 1 ELSE 0)
  BY <1>1, <1>4, <1>5
<1>13. g.trueCount \in Nat /\ (NeedsVwap(b) => g.trueCount = 0) /\ (g.holds => Len(g.ticks) # 0 /\ HoldsOn(b, g.now, g.before))
  BY <1>3, <1>4 DEF RuleInv
<1>14. h.trueCount \in Nat
  BY <1>12, <1>13
<1>15. NeedsVwap(b) => h.trueCount = 0
  <2> SUFFICES ASSUME NeedsVwap(b) PROVE h.trueCount = 0
    OBVIOUS
  <2>1. h.now["vwap"] = None
    BY <1>7 DEF GraphOK
  <2>2. ~h.holds
    BY <1>11, <2>1, SilentOn
  <2> QED
    BY <1>12, <1>13, <2>2
<1>16. RuleInv'
  <2>1. (block \in Blocks)' /\ GraphOK(graph')
    BY <1>1, <1>2, <1>5, <1>7
  <2>2. graph'.holds => Len(graph'.ticks) # 0 /\ HoldsOn(block', graph'.now, graph'.before)
    BY <1>1, <1>3, <1>5, <1>10, <1>11
  <2>3. graph'.trueCount \in Nat /\ (NeedsVwap(block') => graph'.trueCount = 0)
    BY <1>1, <1>3, <1>5, <1>14, <1>15
  <2> QED
    BY <2>1, <2>2, <2>3 DEF RuleInv
<1>17. IsCrossing(b) => ~(h.holds /\ (g.holds \/ g.ticks = <<>>))
  <2> SUFFICES ASSUME IsCrossing(b), h.holds, g.holds \/ g.ticks = <<>> PROVE FALSE
    OBVIOUS
  <2>1. PICK c : c = b.clauses[1]
    OBVIOUS
  <2>2. c.op \in {"crossed_above", "crossed_below"} /\ 1 \in DOMAIN b.clauses
    BY <2>1, BlockDomain DEF IsCrossing
  <2>3. c.left \in Names /\ Operand(c.right) /\ Operand(c.left)
    BY <2>1, <2>2, BlockNames DEF Operand
  <2>4. ClauseHolds(c, h.now, g.now)
    BY <1>8, <1>11, <2>1, CrossingIs
  <2>5. CASE Len(g.ticks) = 0
    <3>1. g.now[c.left] = None
      BY <1>6, <2>3, <2>5 DEF GraphOK
    <3>2. c.left # "fifty"
      BY <2>3 DEF Names
    <3>3. Resolve(c.left, g.now) = None
      BY <3>1, <3>2 DEF Resolve
    <3> QED
      BY <2>2, <2>4, <3>3, CrossesSeen
  <2>6. CASE Len(g.ticks) # 0
    <3>1. g.holds
      BY <2>6
    <3>2. ClauseHolds(c, g.now, g.before)
      BY <1>13, <2>1, <3>1, CrossingIs
    <3>3. \A x \in Names : g.now[x] \in Int
      BY <1>6, <2>6 DEF GraphOK
    <3>4. Resolve(c.left, g.now) \in Int /\ Resolve(c.right, g.now) \in Int
      BY <2>3, <3>3, ResolvesInt
    <3> QED
      BY <2>2, <2>4, <3>2, <3>4, CrossedOnce
  <2> QED
    BY <2>5, <2>6
<1>18. NoRepeatedCrossing
  BY <1>3, <1>4, <1>5, <1>17 DEF NoRepeatedCrossing, IsCrossing
<1> QED
  BY <1>5, <1>10, <1>16, <1>18
\* The invariant says that the indicators are in range and the block silent.
LEMMA RuleReads == RuleInv => IndicatorsInRange /\ UnsupportedIsSilent
<1> SUFFICES ASSUME RuleInv PROVE IndicatorsInRange /\ UnsupportedIsSilent
  OBVIOUS
<1>1. UnsupportedIsSilent
  BY DEF RuleInv, UnsupportedIsSilent, NeedsVwap
<1>2. GraphOK(graph)
  BY DEF RuleInv
<1>3. IndicatorsInRange
  <2> SUFFICES ASSUME graph.ticks # <<>> PROVE IndicatorsInRange
    BY DEF IndicatorsInRange
  <2>1. Len(graph.ticks) # 0
    BY <1>2 DEF GraphOK
  <2>2. InRange(graph.ticks, graph.now)
    BY <1>2, <2>1 DEF GraphOK
  <2>3. \A k : Recent(k) = RecentOf(graph.ticks, k)
    BY DEF Recent, RecentOf
  <2>4. RoseOnly(graph.ticks) <=> LET n == Len(graph.ticks)
             seen == {i \in 2..n : i > n - RsiPeriod}
         IN /\ \A i \in seen : graph.ticks[i] >= graph.ticks[i - 1]
            /\ \E i \in seen : graph.ticks[i] > graph.ticks[i - 1]
    BY DEF RoseOnly, SeenOf
  <2> QED
    BY <2>2, <2>3, <2>4, Zenon DEF IndicatorsInRange, InRange
<1> QED
  BY <1>1, <1>3
\* What a step may do.
RuleStep == NoRepeatedCrossing /\ IndicatorsInRange' /\ UnsupportedIsSilent'
LEMMA RuleKeeps == RuleInv /\ [RuleNext]_ruleVars => RuleInv' /\ [RuleStep]_ruleVars
<1> SUFFICES ASSUME RuleInv, [RuleNext]_ruleVars PROVE RuleInv' /\ [RuleStep]_ruleVars
  OBVIOUS
<1>1. CASE RuleNext
  <2>1. PICK tick \in Prices : UpdatePrice(tick)
    BY <1>1 DEF RuleNext
  <2>2. RuleInv' /\ NoRepeatedCrossing
    BY <2>1, RuleTick
  <2>3. (IndicatorsInRange /\ UnsupportedIsSilent)'
    BY <2>2, RuleReads, PTL
  <2> QED
    BY <2>2, <2>3 DEF RuleStep
<1>2. CASE UNCHANGED ruleVars
  BY <1>2 DEF ruleVars, RuleInv
<1> QED
  BY <1>1, <1>2
\* For any prices and any number of ticks, a rule fires as it is written:
\* a crossing never twice in a row, on indicators within their ranges, and never
\* on an indicator without an adapter (RuleGraphEvaluator.update_price).
THEOREM RulesAlwaysAsWritten == MCSpec => RulesAsWritten
<1>1. RuleInit /\ [][RuleNext]_ruleVars => [][RuleStep]_ruleVars
  BY RuleStarts, RuleKeeps, PTL
<1>2. RuleStep <=> NoRepeatedCrossing /\ IndicatorsInRange' /\ UnsupportedIsSilent'
  BY DEF RuleStep
<1> QED
  BY <1>1, <1>2, RunsRules, PTL DEF RulesAsWritten

\* The state machines of MCDecisions keep their types, for any prices, calls,
\* runners and bounds, and a parser answers with one of its four outcomes.
THEOREM DecisionsTypeCorrect == MCSpec => []TypeOK
<1>1. RecordInv => (Answered("record") => Answer.outcome \in {"record", "dropped", "empty", "raised"})
  BY RecordAnswers DEF Honest
<1>2. RuleTypeOK /\ DraftTypeOK /\ MigrationTypeOK /\ RecordInv => TypeOK
  BY <1>1 DEF TypeOK
<1> QED
  BY <1>2, RunsRules, RunsDrafts, RunsMigrations, RulesTyped, DraftsKeepTypes, MigrationsTyped, RecordInductive, PTL
===============================================================================
