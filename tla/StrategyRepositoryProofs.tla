------------------------ MODULE StrategyRepositoryProofs ------------------------
(***************************************************************************)
(* For any number of requests and any pool size: strategy and version ids  *)
(* have no gaps, are given out once, and a strategy's status is accounted  *)
(* for by what was submitted and approved.                                 *)
(***************************************************************************)
EXTENDS StrategyRepository, FiniteSetTheorems, TLAPS

\* The rows are numbered from 1 on, and versions belong to strategies.
Present == {id \in Ids : strategies[id] # "none"}
Numbered ==
  /\ \E m \in 0..MaxStrategies : Present = 1..m
  /\ \A id \in Ids : \E n \in 0..MaxVersions : Indexes(id) = 1..n
  /\ \A v \in versions : strategies[v[1]] # "none"

\* What a request counted is still there when it inserts or updates.
Uncounted == {"new", "clone_versions", "clone_begin", "count", "approve_update", "approve_answer"}
Counted ==
  \A r \in Requests :
    /\ pc[r] \in Uncounted => index[r] = 0
    /\ pc[r] = "update_strategy" => op[r] \in {"update_draft", "create_version"}
    /\ pc[r] = "insert_strategy" =>
         index[r] = 1 /\ \A k \in 1..(target[r] - 1) : strategies[k] # "none"
    /\ pc[r] \in {"update_strategy", "insert_version"} =>
         /\ index[r] # 0 /\ strategies[target[r]] # "none"
         /\ \A k \in 1..(index[r] - 1) : <<target[r], k>> \in versions
    /\ pc[r] = "update_version" => op[r] = "update_draft"
    /\ Created(r) => <<target[r], index[r]>> \in versions

\* A status that is in the table, or that an approval read, is accounted for.
Accounted(id, status) ==
  \E s \in brought[id] \cap DOMAIN Rank : Rank[status] <= Rank[s] + approvals[id]
ReadAccounted ==
  \A r \in Requests : pc[r] = "approve_update" =>
    read[r] \in Promotable /\ strategies[target[r]] # "none" /\ Accounted(target[r], read[r])

\* The inductive invariant.
Inv == TypeOK /\ Numbered /\ Counted /\ CreatedIdsDistinct /\ ReadAccounted /\ StatusAccountedFor

AnyStep(r) == Step(r) \/ Timeout(r) \/ StatementFails(r)

\* An interval of numbers is as large as its last one.
LEMMA CardInterval == ASSUME NEW n \in Nat PROVE Cardinality(1..n) = n
BY FS_Interval

\* The counts are the last numbers in use.
LEMMA Counts ==
  ASSUME TypeOK, Numbered
  PROVE  /\ Cardinality(Present) \in 0..MaxStrategies /\ Present = 1..Cardinality(Present)
         /\ \A id \in Ids : /\ Cardinality(Indexes(id)) \in 0..MaxVersions
                            /\ Indexes(id) = 1..Cardinality(Indexes(id))
<1>1. PICK m \in 0..MaxStrategies : Present = 1..m
  BY DEF Numbered
<1>2. m \in Nat /\ Cardinality(1..m) = m
  BY CardInterval, BoundsAssumption
<1>3. ASSUME NEW id \in Ids
      PROVE  Cardinality(Indexes(id)) \in 0..MaxVersions /\ Indexes(id) = 1..Cardinality(Indexes(id))
  <2>1. PICK n \in 0..MaxVersions : Indexes(id) = 1..n
    BY DEF Numbered
  <2>2. n \in Nat /\ Cardinality(1..n) = n
    BY CardInterval, BoundsAssumption
  <2> QED
    BY <2>1, <2>2
<1> QED
  BY <1>1, <1>2, <1>3

\* Initially there is one strategy with one version.
LEMMA InitInv == Init => Inv
<1> SUFFICES ASSUME Init PROVE Inv
  OBVIOUS
<1> USE BoundsAssumption, PayloadsAssumption
<1>1. PICK s \in Payloads : /\ strategies = [id \in Ids |-> IF id = 1 THEN s ELSE "none"]
                            /\ brought = [id \in Ids |-> IF id = 1 THEN {s} ELSE {}]
  BY DEF Init
<1>2. s # "none" /\ s \in Statuses /\ 1 \in Ids /\ 1 \in 1..MaxVersions
  BY DEF Statuses, Ids
<1>3. TypeOK
  BY <1>1, <1>2 DEF Init, TypeOK, Labels, Ended, InTransaction, Statuses
<1>4. Numbered
  <2>1. Present = 1..1
    BY <1>1, <1>2 DEF Present, Ids
  <2>2. Indexes(1) = 1..1
    BY <1>2 DEF Init, Indexes
  <2>3. \A id \in Ids : id # 1 => Indexes(id) = 1..0
    BY DEF Init, Indexes
  <2>4. \A v \in versions : strategies[v[1]] # "none"
    BY <1>1, <1>2 DEF Init
  <2> QED
    <3>1. 0 \in 0..MaxVersions /\ 1 \in 0..MaxVersions /\ 1 \in 0..MaxStrategies
      OBVIOUS
    <3>2. \A id \in Ids : \E n \in 0..MaxVersions : Indexes(id) = 1..n
      BY <2>2, <2>3, <3>1
    <3> QED
      BY <2>1, <2>4, <3>1, <3>2 DEF Numbered
<1>5. Counted /\ CreatedIdsDistinct /\ ReadAccounted
  BY DEF Init, Counted, Uncounted, CreatedIdsDistinct, ReadAccounted, Created
<1>6. StatusAccountedFor
  BY <1>1, <1>2 DEF StatusAccountedFor
<1> QED
  BY <1>3, <1>4, <1>5, <1>6 DEF Inv

\* A status that is submitted or promoted is a status.
LEMMA StatusTyped ==
  ASSUME NEW r \in Requests
  PROVE  /\ Submitted(r) \subseteq Statuses /\ "none" \notin Statuses
         /\ \A status : Promoted(status) \in Statuses
BY PayloadsAssumption DEF Submitted, Promoted, Statuses

\* Every step keeps the types.
LEMMA StepTyped ==
  ASSUME Inv, NEW r \in Requests, AnyStep(r)
  PROVE  TypeOK'
<1> USE BoundsAssumption
<1>1. TypeOK /\ Numbered
  BY DEF Inv
<1>2. pc' \in [Requests -> Labels]
  <2>1. \E label \in Labels : Goto(r, label)
    BY DEF AnyStep, Step, Begin, CountStrategies, InsertStrategy, InsertVersion, CountVersions,
       UpdateStrategy, UpdateVersion, Commit, ApproveRead, ApproveUpdate, ApproveAnswer,
       CloneRead, CloneVersions, Timeout, StatementFails, Labels, Ended, InTransaction
  <2> QED
    BY <1>1, <2>1 DEF TypeOK, Goto
<1>3. op' \in [Requests -> Ops] /\ op' = op
  BY <1>1 DEF TypeOK, AnyStep, Step, Begin, CountStrategies, InsertStrategy, InsertVersion,
     CountVersions, UpdateStrategy, UpdateVersion, Commit, ApproveRead, ApproveUpdate,
     ApproveAnswer, CloneRead, CloneVersions, Timeout, StatementFails
<1>4. target' \in [Requests -> Ids] /\ index' \in [Requests -> 0..MaxVersions]
  <2>1. CASE CountStrategies(r)
    <3>1. Cardinality(Present) \in 0..MaxStrategies
      BY <1>1, Counts
    <3> QED
      BY <1>1, <2>1, <3>1 DEF TypeOK, CountStrategies, Present, Ids
  <2>2. CASE CountVersions(r)
    <3>1. target[r] \in Ids /\ Cardinality(Indexes(target[r])) \in 0..MaxVersions
      BY <1>1, Counts DEF TypeOK
    <3> QED
      BY <1>1, <2>2, <3>1 DEF TypeOK, CountVersions
  <2>3. CASE AnyStep(r) /\ ~CountStrategies(r) /\ ~CountVersions(r)
    BY <1>1, <2>3 DEF TypeOK, AnyStep, Step, Begin, InsertStrategy, InsertVersion,
       UpdateStrategy, UpdateVersion, Commit, ApproveRead, ApproveUpdate,
       ApproveAnswer, CloneRead, CloneVersions, Timeout, StatementFails
  <2> QED
    BY <2>1, <2>2, <2>3
<1>5. strategies' \in [Ids -> Statuses \cup {"none"}] /\ brought' \in [Ids -> SUBSET Statuses]
  BY <1>1, StatusTyped DEF TypeOK, AnyStep, Step, Begin, CountStrategies, InsertStrategy,
     InsertVersion, CountVersions, UpdateStrategy, UpdateVersion, Commit, ApproveRead,
     ApproveUpdate, ApproveAnswer, CloneRead, CloneVersions, Timeout, StatementFails, tables
<1>6. versions' \subseteq Ids \X (1..MaxVersions)
  <2>1. versions' = versions \/ InsertVersion(r)
    BY DEF AnyStep, Step, Begin, CountStrategies, InsertStrategy,
     CountVersions, UpdateStrategy, UpdateVersion, Commit, ApproveRead,
     ApproveUpdate, ApproveAnswer, CloneRead, CloneVersions, Timeout, StatementFails, tables
  <2>2. CASE InsertVersion(r)
    <3>1. index[r] \in 1..MaxVersions /\ target[r] \in Ids
      BY <1>1, <2>2 DEF Inv, TypeOK, Counted, InsertVersion
    <3> QED
      BY <1>1, <2>2, <3>1 DEF TypeOK, InsertVersion
  <2> QED
    BY <1>1, <2>1, <2>2 DEF TypeOK
<1>7. approvals' \in [Ids -> Nat] /\ read' \in [Requests -> Statuses \cup {"none"}]
  BY <1>1 DEF TypeOK, AnyStep, Step, Begin, CountStrategies, InsertStrategy,
     InsertVersion, CountVersions, UpdateStrategy, UpdateVersion, Commit, ApproveRead,
     ApproveUpdate, ApproveAnswer, CloneRead, CloneVersions, Timeout, StatementFails, tables
<1> QED
  BY <1>2, <1>3, <1>4, <1>5, <1>6, <1>7 DEF TypeOK

\* What a step does to the tables and to the other requests.
LEMMA StepFacts ==
  ASSUME Inv, NEW r \in Requests, AnyStep(r)
  PROVE  /\ op' = op /\ versions \subseteq versions'
         /\ \A q \in Requests : q # r => pc'[q] = pc[q] /\ target'[q] = target[q]
                                       /\ index'[q] = index[q] /\ read'[q] = read[q]
         /\ \A id \in Ids : strategies[id] # "none" => strategies'[id] # "none"
         /\ \A id \in Ids : brought[id] \subseteq brought'[id] /\ approvals[id] <= approvals'[id]
<1>1. TypeOK
  BY DEF Inv
<1>2. op' = op /\ versions \subseteq versions'
  BY DEF AnyStep, Step, Begin, CountStrategies, InsertStrategy, InsertVersion,
       CountVersions, UpdateStrategy, UpdateVersion, Commit, ApproveRead, ApproveUpdate,
       ApproveAnswer, CloneRead, CloneVersions, Timeout, StatementFails, tables
<1>3. \A q \in Requests : q # r => pc'[q] = pc[q] /\ target'[q] = target[q]
                              /\ index'[q] = index[q] /\ read'[q] = read[q]
  BY <1>1 DEF TypeOK, Goto, AnyStep, Step, Begin, CountStrategies, InsertStrategy, InsertVersion,
       CountVersions, UpdateStrategy, UpdateVersion, Commit, ApproveRead, ApproveUpdate,
       ApproveAnswer, CloneRead, CloneVersions, Timeout, StatementFails, tables
<1>4. \A id \in Ids : strategies[id] # "none" => strategies'[id] # "none"
  BY <1>1, StatusTyped DEF TypeOK, AnyStep, Step, Begin, CountStrategies, InsertStrategy, InsertVersion,
       CountVersions, UpdateStrategy, UpdateVersion, Commit, ApproveRead, ApproveUpdate,
       ApproveAnswer, CloneRead, CloneVersions, Timeout, StatementFails, tables
<1>5. \A id \in Ids : brought[id] \subseteq brought'[id]
  BY <1>1 DEF TypeOK, AnyStep, Step, Begin, CountStrategies, InsertStrategy, InsertVersion,
       CountVersions, UpdateStrategy, UpdateVersion, Commit, ApproveRead, ApproveUpdate,
       ApproveAnswer, CloneRead, CloneVersions, Timeout, StatementFails, tables
<1>6. \A id \in Ids : approvals[id] <= approvals'[id]
  BY <1>1 DEF TypeOK, AnyStep, Step, Begin, CountStrategies, InsertStrategy, InsertVersion,
       CountVersions, UpdateStrategy, UpdateVersion, Commit, ApproveRead, ApproveUpdate,
       ApproveAnswer, CloneRead, CloneVersions, Timeout, StatementFails, tables
<1> QED
  BY <1>2, <1>3, <1>4, <1>5, <1>6

\* A row is inserted right after the rows that were counted.
LEMMA StepNumbered ==
  ASSUME Inv, NEW r \in Requests, AnyStep(r)
  PROVE  Numbered'
<1> USE BoundsAssumption
<1>1. TypeOK /\ Numbered /\ Counted /\ ReadAccounted /\ TypeOK'
  BY StepTyped DEF Inv
<1>2. target[r] \in Ids /\ index[r] \in 0..MaxVersions
  BY <1>1 DEF TypeOK
<1>3. \E m \in 0..MaxStrategies : Present' = 1..m
  <2>1. PICK m \in 0..MaxStrategies : Present = 1..m
    BY <1>1 DEF Numbered
  <2>2. CASE InsertStrategy(r) /\ strategies[target[r]] = "none"
    <3>1. /\ target[r] \notin 1..m
          /\ \A k \in 1..(target[r] - 1) : k \in 1..m
      <4>1. target[r] \notin Present
        BY <2>2 DEF Present
      <4>2. \A k \in 1..(target[r] - 1) : strategies[k] # "none"
        BY <1>1, <2>2 DEF Counted, InsertStrategy
      <4>3. \A k \in 1..(target[r] - 1) : k \in Ids
        BY <1>2 DEF Ids
      <4> QED
        BY <2>1, <4>1, <4>2, <4>3 DEF Present
    <3>2. target[r] = m + 1
      BY <1>2, <3>1 DEF Ids
    <3>3. Present' = Present \cup {target[r]}
      BY <1>1, <1>2, <2>2, StatusTyped DEF InsertStrategy, Present, TypeOK
    <3>4. Present' = 1..(m + 1) /\ m + 1 \in 0..MaxStrategies
      BY <1>2, <2>1, <3>2, <3>3 DEF Ids
    <3> QED
      BY <3>4
  <2>3. CASE ~(InsertStrategy(r) /\ strategies[target[r]] = "none")
    <3>1. \A id \in Ids : strategies'[id] # "none" => strategies[id] # "none"
      BY <1>1, <2>3 DEF TypeOK, Counted, ReadAccounted, AnyStep, Step, Begin, CountStrategies, InsertStrategy, InsertVersion,
       CountVersions, UpdateStrategy, UpdateVersion, Commit, ApproveRead, ApproveUpdate,
       ApproveAnswer, CloneRead, CloneVersions, Timeout, StatementFails, tables
    <3>2. Present' = Present
      BY <3>1, StepFacts DEF Present
    <3> QED
      BY <2>1, <3>2
  <2> QED
    BY <2>2, <2>3
<1>4. ASSUME NEW id \in Ids PROVE \E n \in 0..MaxVersions : Indexes(id)' = 1..n
  <2>1. PICK n \in 0..MaxVersions : Indexes(id) = 1..n
    BY <1>1 DEF Numbered
  <2>2. CASE InsertVersion(r) /\ <<target[r], index[r]>> \notin versions /\ target[r] = id
    <3>1. /\ index[r] \notin 1..n /\ index[r] # 0
          /\ \A k \in 1..(index[r] - 1) : k \in 1..n
      <4>1. index[r] # 0 /\ \A k \in 1..(index[r] - 1) : <<target[r], k>> \in versions
        BY <1>1, <2>2 DEF Counted, InsertVersion
      <4>2. index[r] \notin Indexes(id)
        BY <2>2 DEF Indexes
      <4>3. \A k \in 1..(index[r] - 1) : k \in 1..MaxVersions
        BY <1>2
      <4> QED
        BY <2>1, <2>2, <4>1, <4>2, <4>3 DEF Indexes
    <3>2. index[r] = n + 1
      BY <1>2, <3>1
    <3>3. Indexes(id)' = Indexes(id) \cup {index[r]}
      BY <1>2, <2>2, <3>1 DEF InsertVersion, Indexes
    <3>4. Indexes(id)' = 1..(n + 1) /\ n + 1 \in 0..MaxVersions
      BY <1>2, <2>1, <3>2, <3>3
    <3> QED
      BY <3>4
  <2>3. CASE ~(InsertVersion(r) /\ <<target[r], index[r]>> \notin versions /\ target[r] = id)
    <3>1. \A k : <<id, k>> \in versions' <=> <<id, k>> \in versions
      BY <2>3 DEF AnyStep, Step, Begin, CountStrategies, InsertStrategy, InsertVersion,
       CountVersions, UpdateStrategy, UpdateVersion, Commit, ApproveRead, ApproveUpdate,
       ApproveAnswer, CloneRead, CloneVersions, Timeout, StatementFails, tables
    <3>2. Indexes(id)' = Indexes(id)
      BY <3>1 DEF Indexes
    <3> QED
      BY <2>1, <3>2
  <2> QED
    BY <2>2, <2>3
<1>5. \A v \in versions' : strategies'[v[1]] # "none"
  <2>1. \A v \in versions' : v \in versions \/ (v = <<target[r], index[r]>> /\ pc[r] = "insert_version")
    BY DEF AnyStep, Step, Begin, CountStrategies, InsertStrategy, InsertVersion,
       CountVersions, UpdateStrategy, UpdateVersion, Commit, ApproveRead, ApproveUpdate,
       ApproveAnswer, CloneRead, CloneVersions, Timeout, StatementFails, tables
  <2>2. \A v \in versions' : v[1] \in Ids
    BY <1>1 DEF TypeOK
  <2>3. pc[r] = "insert_version" => strategies[target[r]] # "none"
    BY <1>1 DEF Counted
  <2>4. \A v \in versions : strategies[v[1]] # "none"
    BY <1>1 DEF Numbered
  <2> QED
    BY <1>2, <2>1, <2>2, <2>3, <2>4, StepFacts
<1> QED
  BY <1>3, <1>4, <1>5 DEF Numbered

\* What the requests counted stays true, and the one that steps counts rightly.
LEMMA StepCounted ==
  ASSUME Inv, NEW r \in Requests, AnyStep(r)
  PROVE  Counted'
<1> USE BoundsAssumption
<1>1. TypeOK /\ Numbered /\ Counted /\ TypeOK'
  BY StepTyped DEF Inv
<1>2. \A q \in Requests : target[q] \in Ids /\ target'[q] \in Ids
        /\ index[q] \in 0..MaxVersions /\ index'[q] \in 0..MaxVersions
  BY <1>1 DEF TypeOK
<1> SUFFICES ASSUME NEW q \in Requests
    PROVE /\ pc'[q] \in Uncounted => index'[q] = 0
          /\ pc'[q] = "update_strategy" => op'[q] \in {"update_draft", "create_version"}
          /\ pc'[q] = "insert_strategy" =>
               index'[q] = 1 /\ \A k \in 1..(target'[q] - 1) : strategies'[k] # "none"
          /\ pc'[q] \in {"update_strategy", "insert_version"} =>
               /\ index'[q] # 0 /\ strategies'[target'[q]] # "none"
               /\ \A k \in 1..(index'[q] - 1) : <<target'[q], k>> \in versions'
          /\ pc'[q] = "update_version" => op'[q] = "update_draft"
          /\ Created(q)' => <<target'[q], index'[q]>> \in versions'
  BY DEF Counted, Uncounted
<1>3. \A k \in 1..(target[q] - 1) : k \in Ids
  BY <1>2 DEF Ids
<1>4. CASE q # r
  BY <1>1, <1>2, <1>3, <1>4, StepFacts DEF Counted, Uncounted, Created
<1>5. CASE q = r /\ CountStrategies(r)
  <2>1. /\ Present = 1..Cardinality(Present) /\ Cardinality(Present) \in 0..MaxStrategies
        /\ target'[r] = Cardinality(Present) + 1 /\ index'[r] = 1 /\ pc'[r] = "insert_strategy"
        /\ strategies' = strategies
    BY <1>1, <1>5, Counts DEF TypeOK, CountStrategies, Present, Goto, tables
  <2>2. \A k \in 1..(target'[r] - 1) : k \in Present
    BY <2>1
  <2> QED
    BY <1>5, <2>1, <2>2 DEF Present, Created, Uncounted
<1>6. CASE q = r /\ CountVersions(r)
  <2> DEFINE count == Cardinality(Indexes(target[r]))
  <2>1. Indexes(target[r]) = 1..count /\ count \in 0..MaxVersions
    BY <1>1, <1>2, Counts
  <2>2. CASE count = 0
    BY <1>1, <1>6, <2>2 DEF TypeOK, Counted, Uncounted, CountVersions, Goto, Created
  <2>3. CASE count > 0
    <3>1. /\ pc'[r] = "update_strategy" /\ target' = target /\ versions' = versions
          /\ strategies' = strategies /\ index'[r] \in {count, count + 1}
      BY <1>1, <1>6, <2>3 DEF TypeOK, CountVersions, Goto, tables
    <3>2. \A k \in 1..count : <<target[r], k>> \in versions
      BY <2>1 DEF Indexes
    <3>3. \A k \in 1..(index'[r] - 1) : k \in 1..count
      BY <2>1, <3>1
    <3>4. 1 \in 1..count
      BY <2>1, <2>3
    <3>5. <<target[r], 1>> \in versions
      BY <3>2, <3>4
    <3>6. <<target[r], 1>>[1] = target[r]
      OBVIOUS
    <3>7. strategies[target[r]] # "none"
      BY <1>1, <3>5, <3>6 DEF Numbered
    <3>8. index'[r] # 0
      BY <2>1, <2>3, <3>1
    <3>9. ~Created(r)'
      BY <3>1 DEF Created
    <3> QED
      BY <1>6, <3>1, <3>2, <3>3, <3>7, <3>8, <3>9, StepFacts DEF CountVersions, Uncounted
  <2> QED
    BY <2>1, <2>2, <2>3
<1>7. CASE q = r /\ InsertStrategy(r)
  BY <1>1, <1>2, <1>7, StatusTyped DEF TypeOK, Counted, Uncounted, InsertStrategy, Goto, Created
<1>8. CASE q = r /\ InsertVersion(r)
  BY <1>1, <1>8 DEF TypeOK, Counted, Uncounted, InsertVersion, Goto, Created
<1>9. CASE q = r /\ UpdateStrategy(r)
  <2>1. /\ pc'[r] = IF op[r] = "create_version" THEN "insert_version" ELSE "update_version"
        /\ op' = op /\ target' = target /\ index' = index /\ versions' = versions
    BY <1>1, <1>9 DEF TypeOK, UpdateStrategy, Goto
  <2>2. /\ op[r] \in {"update_draft", "create_version"} /\ index[r] # 0
        /\ strategies[target[r]] # "none"
        /\ \A k \in 1..(index[r] - 1) : <<target[r], k>> \in versions
    BY <1>1, <1>9 DEF Counted, UpdateStrategy
  <2>3. strategies'[target[r]] # "none"
    BY <1>2, <2>2, StepFacts
  <2> QED
    BY <1>9, <2>1, <2>2, <2>3 DEF Created, Uncounted
<1>10. CASE q = r /\ ~(CountStrategies(r) \/ CountVersions(r) \/ InsertStrategy(r)
                        \/ InsertVersion(r) \/ UpdateStrategy(r))
  BY <1>1, <1>10 DEF TypeOK, Counted, Uncounted, Goto, Created, AnyStep, Step, Begin, UpdateVersion, Commit,
     ApproveRead, ApproveUpdate, ApproveAnswer, CloneRead, CloneVersions, Timeout,
     StatementFails, tables, Ended
<1> QED
  BY <1>4, <1>5, <1>6, <1>7, <1>8, <1>9, <1>10

\* An id is inserted only if no row has it, so no other request was given it.
LEMMA StepDistinct ==
  ASSUME Inv, NEW r \in Requests, AnyStep(r)
  PROVE  CreatedIdsDistinct'
<1>1. TypeOK /\ Counted /\ CreatedIdsDistinct
  BY DEF Inv
<1>2. \A q \in Requests : q # r => (Created(q)' <=> Created(q))
        /\ target'[q] = target[q] /\ index'[q] = index[q]
  BY StepFacts DEF Created
<1>3. Created(r)' => /\ Created(r) \/ <<target[r], index[r]>> \notin versions
                     /\ target'[r] = target[r] /\ index'[r] = index[r]
  <2>1. CASE InsertVersion(r)
    BY <1>1, <2>1 DEF TypeOK, Created, InsertVersion, Goto
  <2>2. CASE ~InsertVersion(r)
    BY <1>1, <2>2 DEF TypeOK, Counted, Uncounted, Created, Goto, AnyStep, Step, Begin, CountStrategies,
       InsertStrategy, CountVersions, UpdateStrategy, UpdateVersion, Commit, ApproveRead,
       ApproveUpdate, ApproveAnswer, CloneRead, CloneVersions, Timeout, StatementFails, Ended, Ops
  <2> QED
    BY <2>1, <2>2
<1>4. \A q \in Requests : Created(q) => <<target[q], index[q]>> \in versions
  BY <1>1 DEF Counted
<1> QED
  BY <1>1, <1>2, <1>3, <1>4 DEF CreatedIdsDistinct

\* Being accounted for lasts: nothing is taken from the history.
LEMMA AccountedLasts ==
  ASSUME Inv, NEW r \in Requests, AnyStep(r), NEW id \in Ids, NEW status \in DOMAIN Rank,
         Accounted(id, status)
  PROVE  Accounted(id, status)'
<1>1. PICK s \in brought[id] \cap DOMAIN Rank : Rank[status] <= Rank[s] + approvals[id]
  BY DEF Accounted
<1>2. Rank[status] \in Nat /\ Rank[s] \in Nat
  BY DEF Rank, Promotable
<1>3. approvals[id] \in Nat /\ approvals'[id] \in Nat /\ approvals[id] <= approvals'[id]
  BY StepFacts, StepTyped DEF Inv, TypeOK
<1>4. s \in brought'[id]
  BY <1>1, StepFacts
<1>5. Rank[status] <= Rank[s] + approvals'[id]
  BY <1>1, <1>2, <1>3
<1> QED
  BY <1>1, <1>4, <1>5 DEF Accounted

\* An approval stores the successor of a status that was accounted for.
LEMMA StepStatus ==
  ASSUME Inv, NEW r \in Requests, AnyStep(r)
  PROVE  ReadAccounted' /\ StatusAccountedFor'
<1>1. TypeOK /\ Counted /\ ReadAccounted /\ StatusAccountedFor /\ TypeOK'
  BY StepTyped DEF Inv
<1>2. \A q \in Requests : target[q] \in Ids
  BY <1>1 DEF TypeOK
<1>3. Promotable \subseteq DOMAIN Rank /\ "none" \notin DOMAIN Rank
  BY DEF Promotable, Rank
<1>4. \A id \in Ids : strategies[id] \in DOMAIN Rank => Accounted(id, strategies[id])
  <2> SUFFICES ASSUME NEW id \in Ids, strategies[id] \in DOMAIN Rank
               PROVE  Accounted(id, strategies[id])
    OBVIOUS
  <2>1. CASE strategies[id] \in brought[id]
    <3>1. Rank[strategies[id]] \in Nat /\ approvals[id] \in Nat
      BY <1>1 DEF Rank, Promotable, TypeOK
    <3>2. Rank[strategies[id]] <= Rank[strategies[id]] + approvals[id]
      BY <3>1
    <3> QED
      BY <2>1, <3>2 DEF Accounted
  <2>2. CASE strategies[id] \notin brought[id]
    BY <1>1, <1>3, <2>2 DEF StatusAccountedFor, Accounted
  <2> QED
    BY <2>1, <2>2
<1>5. ReadAccounted'
  <2> SUFFICES ASSUME NEW q \in Requests, pc'[q] = "approve_update"
               PROVE  /\ read'[q] \in Promotable /\ strategies'[target'[q]] # "none"
                      /\ Accounted(target[q], read[q])'
    BY DEF ReadAccounted
  <2>1. CASE pc[q] = "approve_update"
    <3>1. target'[q] = target[q] /\ read'[q] = read[q]
      <4>1. CASE q # r
        BY <4>1, StepFacts
      <4>2. CASE q = r
        BY <1>1, <2>1, <4>2 DEF TypeOK, AnyStep, Step, Begin, CountStrategies, InsertStrategy, InsertVersion,
       CountVersions, UpdateStrategy, UpdateVersion, Commit, ApproveRead, ApproveUpdate,
       ApproveAnswer, CloneRead, CloneVersions, Timeout, StatementFails, tables
      <4> QED
        BY <4>1, <4>2
    <3>2. read[q] \in Promotable /\ strategies[target[q]] # "none" /\ Accounted(target[q], read[q])
      BY <1>1, <2>1 DEF ReadAccounted
    <3>3. Accounted(target[q], read[q])'
      BY <1>2, <1>3, <3>1, <3>2, AccountedLasts DEF Accounted
    <3> QED
      BY <1>2, <3>1, <3>2, <3>3, StepFacts
  <2>2. CASE pc[q] # "approve_update"
    <3>1. q = r /\ ApproveRead(r)
      <4>1. q = r
        BY <2>2, StepFacts
      <4> QED
        BY <1>1, <2>2, <4>1 DEF TypeOK, Goto, Ended, AnyStep, Step, Begin, CountStrategies, InsertStrategy, InsertVersion,
       CountVersions, UpdateStrategy, UpdateVersion, Commit, ApproveRead, ApproveUpdate,
       ApproveAnswer, CloneRead, CloneVersions, Timeout, StatementFails, tables
    <3>2. /\ read'[q] = strategies[target[q]] /\ strategies[target[q]] \in Promotable
          /\ target' = target /\ strategies' = strategies /\ brought' = brought
          /\ approvals' = approvals
      BY <1>1, <3>1 DEF TypeOK, ApproveRead, Goto, tables
    <3>3. Accounted(target[q], strategies[target[q]])
      BY <1>2, <1>3, <1>4, <3>2
    <3> QED
      BY <1>3, <3>2, <3>3 DEF Accounted
  <2> QED
    BY <2>1, <2>2
<1>6. StatusAccountedFor'
  <2> SUFFICES ASSUME NEW id \in Ids, strategies'[id] \notin brought'[id] \cup {"none"}
               PROVE  strategies'[id] \in DOMAIN Rank /\ Accounted(id, strategies[id])'
    BY DEF StatusAccountedFor, Accounted
  <2>1. CASE ApproveUpdate(r) /\ target[r] = id
    <3>1. /\ strategies'[id] = Promoted(read[r]) /\ approvals'[id] = approvals[id] + 1
          /\ brought' = brought
      BY <1>1, <2>1 DEF TypeOK, ApproveUpdate
    <3>2. read[r] \in Promotable /\ Accounted(id, read[r])
      BY <1>1, <2>1 DEF ReadAccounted, ApproveUpdate
    <3>3. PICK s \in brought[id] \cap DOMAIN Rank : Rank[read[r]] <= Rank[s] + approvals[id]
      BY <3>2 DEF Accounted
    <3>4. /\ Promoted(read[r]) \in DOMAIN Rank /\ Rank[Promoted(read[r])] = Rank[read[r]] + 1
          /\ Rank[read[r]] \in Nat /\ Rank[s] \in Nat /\ approvals[id] \in Nat
      BY <1>1, <3>2, <3>3 DEF Promoted, Promotable, Rank, TypeOK
    <3>5. Rank[Promoted(read[r])] <= Rank[s] + (approvals[id] + 1)
      BY <3>3, <3>4
    <3> QED
      BY <3>1, <3>3, <3>4, <3>5 DEF Accounted
  <2>2. CASE ~(ApproveUpdate(r) /\ target[r] = id)
    <3>1. strategies'[id] = strategies[id]
      BY <1>1, <2>2 DEF TypeOK, AnyStep, Step, Begin, CountStrategies, InsertStrategy, InsertVersion,
       CountVersions, UpdateStrategy, UpdateVersion, Commit, ApproveRead, ApproveUpdate,
       ApproveAnswer, CloneRead, CloneVersions, Timeout, StatementFails, tables
    <3>2. strategies[id] \notin brought[id] \cup {"none"}
      BY <3>1, StepFacts
    <3>3. strategies[id] \in DOMAIN Rank /\ Accounted(id, strategies[id])
      BY <1>1, <3>2 DEF StatusAccountedFor, Accounted
    <3>4. Accounted(id, strategies[id])'
      BY <3>1, <3>3, AccountedLasts DEF Accounted
    <3> QED
      BY <3>1, <3>3, <3>4
  <2> QED
    BY <2>1, <2>2
<1> QED
  BY <1>5, <1>6

\* The invariant is inductive.
LEMMA NextInv == Inv /\ [Next]_vars => Inv'
<1> SUFFICES ASSUME Inv, [Next]_vars PROVE Inv'
  OBVIOUS
<1>1. CASE UNCHANGED vars
  BY <1>1 DEF vars, tables, Inv, TypeOK, Numbered, Present, Indexes, Counted, Created,
     CreatedIdsDistinct, ReadAccounted, Accounted, StatusAccountedFor
<1>2. ASSUME NEW r \in Requests, AnyStep(r) PROVE Inv'
  BY <1>2, StepTyped, StepNumbered, StepCounted, StepDistinct, StepStatus DEF Inv
<1> QED
  BY <1>1, <1>2 DEF Next, Finished, AnyStep

\* The tables and the request threads keep their types.
THEOREM TypeCorrect == Spec => []TypeOK
<1>1. Inv => TypeOK
  BY DEF Inv
<1> QED
  BY <1>1, InitInv, NextInv, PTL DEF Spec

\* Strategy and version ids taken from row counts leave no gap, though count and
\* insert are separate statements: the primary key rejects the loser of a race.
THEOREM IdsWithoutGaps == Spec => []NumberedWithoutGaps
<1>1. Inv => NumberedWithoutGaps
  <2> SUFFICES ASSUME Inv PROVE NumberedWithoutGaps
    OBVIOUS
  <2>1. TypeOK /\ Numbered
    BY DEF Inv
  <2>2. ASSUME NEW id \in Ids, strategies[id] # "none", NEW k \in 1..id
        PROVE  strategies[k] # "none"
    <3>1. PICK m \in 0..MaxStrategies : Present = 1..m
      BY <2>1 DEF Numbered
    <3>2. id \in 1..m
      BY <2>2, <3>1 DEF Present
    <3>3. k \in 1..m
      BY <3>2, BoundsAssumption
    <3> QED
      BY <3>1, <3>3 DEF Present
  <2>3. ASSUME NEW v \in versions, NEW k \in 1..v[2] PROVE <<v[1], k>> \in versions
    <3>1. v[1] \in Ids /\ v[2] \in 1..MaxVersions /\ v = <<v[1], v[2]>>
      BY <2>1 DEF TypeOK
    <3>2. PICK n \in 0..MaxVersions : Indexes(v[1]) = 1..n
      BY <2>1, <3>1 DEF Numbered
    <3>3. v[2] \in 1..n
      BY <3>1, <3>2 DEF Indexes
    <3>4. k \in 1..n
      BY <3>1, <3>3, BoundsAssumption
    <3> QED
      BY <3>2, <3>4 DEF Indexes
  <2> QED
    BY <2>2, <2>3 DEF NumberedWithoutGaps
<1> QED
  BY <1>1, InitInv, NextInv, PTL DEF Spec

\* No two requests were told that they created the same strategy or version.
THEOREM IdsGivenOnce == Spec => []CreatedIdsDistinct
<1>1. Inv => CreatedIdsDistinct
  BY DEF Inv
<1> QED
  BY <1>1, InitInv, NextInv, PTL DEF Spec

\* approve_strategy never skips a status, however stale its read is.
THEOREM StatusAlwaysAccountedFor == Spec => []StatusAccountedFor
<1>1. Inv => StatusAccountedFor
  BY DEF Inv
<1> QED
  BY <1>1, InitInv, NextInv, PTL DEF Spec
=============================================================================
