--------------------------- MODULE StrategyRepository ---------------------------
(***************************************************************************)
(* PostgresStrategyRepository over PooledConnection                        *)
(* (packages/postgres/strategy_repository.py and connection.py).           *)
(*                                                                         *)
(* transaction() checks one connection out of the pool and yields it, but  *)
(* the repository goes on calling execute() of the pool, which checks out  *)
(* another connection for each statement and commits it.  So a step is one *)
(* statement, visible at once, and a request inside transaction() holds a  *)
(* connection that does nothing while its statements wait for a second one.*)
(*                                                                         *)
(* Strategy ids and version ids are numbers, as the code derives both from *)
(* row counts.  Of a spec only its status is kept, chosen when it is       *)
(* written; the scope columns and the seeded ids of save_explicit, used    *)
(* once at startup, are left out.                                          *)
(***************************************************************************)
EXTENDS Naturals, FiniteSets

CONSTANTS Requests,        \* API requests, each handled once by one thread
          MaxStrategies,   \* bound on strategy ids
          MaxVersions,     \* bound on the versions of a strategy
          PoolSize,        \* max_size of the pool
          Payloads         \* status values that specs are submitted with

Statuses == {"draft", "validated", "backtested", "approved", "execution_ready"}
ASSUME BoundsAssumption == MaxStrategies \in Nat \ {0} /\ MaxVersions \in Nat \ {0} /\ PoolSize \in Nat
ASSUME PayloadsAssumption == Payloads \subseteq Statuses

VARIABLES strategies,   \* table strategies: the status of each row
          versions,     \* table strategy_versions: <<strategy, index>>
          pc, op, target,   \* thread of a request and its parameters
          index,        \* version index derived from the row count, 0 before that
          read,         \* status read by approve_strategy
          brought,      \* history: statuses that specs brought to a strategy
          approvals     \* history: promotions of a strategy

tables == <<strategies, versions, brought, approvals>>
vars == <<tables, pc, op, target, index, read>>

Ids == 1..MaxStrategies
Ops == {"save", "update_draft", "create_version", "approve", "clone"}
Ended == {"replied", "failed"}
InTransaction == {"count", "insert_strategy", "insert_version", "update_strategy",
                  "update_version", "commit"}
Labels == Ended \cup InTransaction \cup
  {"new", "approve_update", "approve_answer", "clone_versions", "clone_begin"}

\* connections that no transaction() block holds
Free == PoolSize - Cardinality({r \in Requests : pc[r] \in InTransaction})

\* One strategy has been saved before.
Init ==
  /\ \E s \in Payloads : /\ strategies = [id \in Ids |-> IF id = 1 THEN s ELSE "none"]
                         /\ brought = [id \in Ids |-> IF id = 1 THEN {s} ELSE {}]
  /\ versions = {<<1, 1>>}
  /\ approvals = [id \in Ids |-> 0]
  /\ pc = [r \in Requests |-> "new"]
  /\ op \in [Requests -> Ops]
  /\ target = [r \in Requests |-> 1]
  /\ index = [r \in Requests |-> 0]
  /\ read = [r \in Requests |-> "draft"]

Goto(r, label) == pc' = [pc EXCEPT ![r] = label]

-----------------------------------------------------------------------------
\* with self._conn.transaction(): a connection is checked out.
Begin(r) ==
  /\ \/ pc[r] = "new" /\ op[r] \in {"save", "update_draft", "create_version"}
     \/ pc[r] = "clone_begin"
  /\ Free > 0
  /\ Goto(r, "count")
  /\ UNCHANGED <<tables, op, target, index, read>>

\* save: SELECT count FROM strategies gives the id.
CountStrategies(r) ==
  /\ pc[r] = "count" /\ op[r] \in {"save", "clone"}
  /\ Free > 0
  /\ LET count == Cardinality({id \in Ids : strategies[id] # "none"}) IN
       /\ count < MaxStrategies
       /\ target' = [target EXCEPT ![r] = count + 1]
  /\ index' = [index EXCEPT ![r] = 1]
  /\ Goto(r, "insert_strategy")
  /\ UNCHANGED <<tables, op, read>>

\* The status of the spec in a request; a clone is saved as a draft.
Submitted(r) == IF op[r] = "clone" THEN {"draft"} ELSE Payloads

\* INSERT INTO strategies: a row with this id fails the primary key.
InsertStrategy(r) ==
  /\ pc[r] = "insert_strategy"
  /\ Free > 0
  /\ \/ /\ strategies[target[r]] # "none"
        /\ Goto(r, "failed") /\ UNCHANGED <<strategies, brought>>
     \/ /\ strategies[target[r]] = "none"
        /\ \E status \in Submitted(r) :
             /\ strategies' = [strategies EXCEPT ![target[r]] = status]
             /\ brought' = [brought EXCEPT ![target[r]] = @ \cup {status}]
        /\ Goto(r, "insert_version")
  /\ UNCHANGED <<versions, approvals, op, target, index, read>>

\* Faulty variant: an existing version is overwritten.
InsertVersionUpsert(r) ==
  /\ pc[r] = "insert_version"
  /\ Free > 0
  /\ versions' = versions \cup {<<target[r], index[r]>>}
  /\ Goto(r, "commit")
  /\ UNCHANGED <<strategies, brought, approvals, op, target, index, read>>

\* INSERT INTO strategy_versions, for a new strategy and for a new version.
InsertVersion(r) ==
  /\ pc[r] = "insert_version"
  /\ Free > 0
  /\ \/ /\ <<target[r], index[r]>> \in versions
        /\ Goto(r, "failed") /\ UNCHANGED versions
     \/ /\ <<target[r], index[r]>> \notin versions
        /\ versions' = versions \cup {<<target[r], index[r]>>}
        /\ Goto(r, "commit")
  /\ UNCHANGED <<strategies, brought, approvals, op, target, index, read>>

-----------------------------------------------------------------------------
Indexes(id) == {i \in 1..MaxVersions : <<id, i>> \in versions}

\* update_draft and create_version: SELECT count FROM strategy_versions; a
\* strategy without versions is not found.
CountVersions(r) ==
  /\ pc[r] = "count" /\ op[r] \in {"update_draft", "create_version"}
  /\ Free > 0
  /\ LET count == Cardinality(Indexes(target[r])) IN
     \/ /\ count = 0
        /\ Goto(r, "replied") /\ UNCHANGED index
     \/ /\ count > 0 /\ count < MaxVersions
        /\ index' = [index EXCEPT ![r] = IF op[r] = "create_version" THEN count + 1 ELSE count]
        /\ Goto(r, "update_strategy")
  /\ UNCHANGED <<tables, op, target, read>>

\* UPDATE strategies SET status, latest_spec.
UpdateStrategy(r) ==
  /\ pc[r] = "update_strategy"
  /\ Free > 0
  /\ \E status \in Submitted(r) :
       /\ strategies' = [strategies EXCEPT ![target[r]] = status]
       /\ brought' = [brought EXCEPT ![target[r]] = @ \cup {status}]
  /\ Goto(r, IF op[r] = "create_version" THEN "insert_version" ELSE "update_version")
  /\ UNCHANGED <<versions, approvals, op, target, index, read>>

\* UPDATE strategy_versions SET spec of the version that was counted.
UpdateVersion(r) ==
  /\ pc[r] = "update_version"
  /\ Free > 0
  /\ Goto(r, "commit")
  /\ UNCHANGED <<tables, op, target, index, read>>

\* The block ends: nothing was done on its own connection, which goes back.
Commit(r) ==
  /\ pc[r] = "commit"
  /\ Goto(r, "replied")
  /\ UNCHANGED <<tables, op, target, index, read>>

-----------------------------------------------------------------------------
\* Faulty variant: a promotion that skips a status.
PromotedTwice(status) == "execution_ready"

\* _PROMOTE_MAP
Promotable == {"backtested", "approved"}
Promoted(status) == IF status = "backtested" THEN "approved" ELSE "execution_ready"

\* approve_strategy reads the status ...
ApproveRead(r) ==
  /\ pc[r] = "new" /\ op[r] = "approve"
  /\ Free > 0
  /\ read' = [read EXCEPT ![r] = strategies[target[r]]]
  /\ Goto(r, IF strategies[target[r]] \in Promotable THEN "approve_update" ELSE "replied")
  /\ UNCHANGED <<tables, op, target, index>>

\* ... and update_status stores the next one, whatever the status is by now.
ApproveUpdate(r) ==
  /\ pc[r] = "approve_update"
  /\ Free > 0
  /\ strategies' = [strategies EXCEPT ![target[r]] = Promoted(read[r])]
  /\ approvals' = [approvals EXCEPT ![target[r]] = @ + 1]
  /\ Goto(r, "approve_answer")
  /\ UNCHANGED <<versions, brought, op, target, index, read>>

\* _current_version_id counts the versions for the answer.
ApproveAnswer(r) ==
  /\ pc[r] = "approve_answer"
  /\ Free > 0
  /\ Goto(r, "replied")
  /\ UNCHANGED <<tables, op, target, index, read>>

\* clone_strategy: detail reads the strategy ...
CloneRead(r) ==
  /\ pc[r] = "new" /\ op[r] = "clone"
  /\ Free > 0
  /\ Goto(r, IF strategies[target[r]] = "none" THEN "replied" ELSE "clone_versions")
  /\ UNCHANGED <<tables, op, target, index, read>>

\* ... and its versions; the last of no versions is an IndexError.
CloneVersions(r) ==
  /\ pc[r] = "clone_versions"
  /\ Free > 0
  /\ Goto(r, IF Indexes(target[r]) = {} THEN "failed" ELSE "clone_begin")
  /\ UNCHANGED <<tables, op, target, index, read>>

-----------------------------------------------------------------------------
\* Faulty variant: a checkout waits for ever.
TimeoutNever(r) == FALSE /\ UNCHANGED vars

\* No connection within the pool's timeout: PoolTimeout, and the connection of
\* the transaction() block goes back.
Timeout(r) ==
  /\ pc[r] \notin Ended \cup {"commit"}
  /\ Free = 0
  /\ Goto(r, "failed")
  /\ UNCHANGED <<tables, op, target, index, read>>

\* The database or the connection fails a statement or the commit.
StatementFails(r) ==
  /\ pc[r] \notin Ended
  /\ Free > 0 \/ pc[r] = "commit"
  /\ Goto(r, "failed")
  /\ UNCHANGED <<tables, op, target, index, read>>

Step(r) ==
  \/ Begin(r) \/ CountStrategies(r) \/ InsertStrategy(r) \/ InsertVersion(r)
  \/ CountVersions(r) \/ UpdateStrategy(r) \/ UpdateVersion(r) \/ Commit(r)
  \/ ApproveRead(r) \/ ApproveUpdate(r) \/ ApproveAnswer(r)
  \/ CloneRead(r) \/ CloneVersions(r)

Finished == (\A r \in Requests : pc[r] \in Ended) /\ UNCHANGED vars

Next == (\E r \in Requests : Step(r) \/ Timeout(r) \/ StatementFails(r)) \/ Finished

Spec == Init /\ [][Next]_vars

\* Threads are scheduled again and again, and a checkout that finds no free
\* connection for long enough times out (30 seconds by default in psycopg_pool).
FairSpec == Spec /\ \A r \in Requests : WF_vars(Step(r)) /\ WF_vars(Timeout(r))

-----------------------------------------------------------------------------
TypeOK ==
  /\ strategies \in [Ids -> Statuses \cup {"none"}]
  /\ versions \subseteq Ids \X (1..MaxVersions)
  /\ brought \in [Ids -> SUBSET Statuses]
  /\ approvals \in [Ids -> Nat]
  /\ pc \in [Requests -> Labels]
  /\ op \in [Requests -> Ops]
  /\ target \in [Requests -> Ids]
  /\ index \in [Requests -> 0..MaxVersions]
  /\ read \in [Requests -> Statuses \cup {"none"}]

\* Ids derived from the row count leave no gap, among strategies and among the
\* versions of each: otherwise the count names an existing row, and every later
\* save or create_version fails on the primary key for ever.
NumberedWithoutGaps ==
  /\ \A id \in Ids : strategies[id] # "none" =>
       \A k \in 1..id : strategies[k] # "none"
  /\ \A v \in versions : \A k \in 1..v[2] : <<v[1], k>> \in versions

\* Requests that created a strategy or a version were not told the same id,
\* though they read the row count and insert in separate statements.
Created(r) == pc[r] \in {"commit", "replied"} /\ op[r] \in {"save", "clone", "create_version"}
              /\ index[r] # 0
CreatedIdsDistinct ==
  \A r, q \in Requests : Created(r) /\ Created(q) /\ r # q =>
    <<target[r], index[r]>> # <<target[q], index[q]>>

\* However approvals and edits interleave, a strategy has no status that its
\* approvals do not account for from a status some spec brought to it.
Rank == [status \in Promotable \cup {"execution_ready"} |->
           IF status = "backtested" THEN 0 ELSE IF status = "approved" THEN 1 ELSE 2]
StatusAccountedFor ==
  \A id \in Ids :
    \/ strategies[id] \in brought[id] \cup {"none"}
    \/ /\ strategies[id] \in DOMAIN Rank
       /\ \E s \in brought[id] \cap DOMAIN Rank : Rank[strategies[id]] <= Rank[s] + approvals[id]

\* A request ends, answered or with an error: requests that hold all
\* connections and wait for another are not stuck for ever.
RequestsEnd == \A r \in Requests : <>(pc[r] \in Ended)

\* "Context manager yielding a connection with an atomic transaction"
\* (connection.py:47): once its save is over a strategy has a first version.
SaveIsAtomic ==
  \A id \in Ids : strategies[id] # "none" =>
    \/ <<id, 1>> \in versions
    \/ \E r \in Requests : target[r] = id /\ pc[r] = "insert_version"
=============================================================================
