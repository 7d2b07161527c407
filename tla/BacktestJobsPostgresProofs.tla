---------------------- MODULE BacktestJobsPostgresProofs ----------------------
(***************************************************************************)
(* For any number of requests, jobs and crashes: rows in Postgres never    *)
(* show a success without stored evidence, a RUNNING row always has a      *)
(* request that ends it or died, and only a racing creation can clear a    *)
(* recorded cancellation; a success is told only after a start, and is a   *)
(* fixture's only after a cancellation and two creations.                  *)
(***************************************************************************)
EXTENDS BacktestJobsPostgres, BacktestRunProofs

\* Two creations of the job are over.
Raced(j) == \E p, q \in Requests : p # q /\ CreateEnded(p, j) /\ CreateEnded(q, j)

Cancelled(rec) == rec.cancel

\* A request whose worker has not stopped at a cancellation.
Working(r) ==
  \/ pc[r] \in {"execute", "store_artifact"}
  \/ /\ goal[r] \in {"RUNNING", "SUCCEEDED"}
     /\ pc[r] \in {"trans_read", "event_len", "event_append"}

\* How fixture evidence comes about: a row exists because a creation ended; the
\* route picks the fixture branch on a cancellation that the row still shows or
\* that a second creation cleared; the worker goes on only after the latter.
Lineage(j) ==
  /\ Exists(j) => \E p \in Requests : CreateEnded(p, j)
  /\ Cancelled(jobs[j]) => CancelAsked(j)
  /\ jobs[j].refs = "fixture" => CancelAsked(j) /\ Raced(j)
  /\ \A r \in Requests : job[r] = j =>
       /\ pc[r] \in RunLabels \cup {"cancel_write"} => Exists(j)
       /\ pc[r] = "create_store" => op[r] = "create"
       /\ pc[r] = "cancel_write" => op[r] = "cancel"
       /\ mode[r] = "fixture" => CancelAsked(j) /\ (Cancelled(jobs[j]) \/ Raced(j))
       /\ mode[r] = "fixture" /\ Working(r) => Raced(j)

FixtureInv == \A j \in Jobs : Lineage(j)

\* The inductive invariant.
Inv == /\ RunInv /\ TypeOK /\ EvidenceBacked /\ RunningHasOwner
       /\ EventsInv /\ FixtureInv

\* The steps that BacktestJobsPostgres adds to the run path.
SqlStep(r) ==
  \/ CreateScan(r) \/ CreateSave(r)
  \/ CancelRead(r) \/ CancelUpdate(r) \/ TransUpdate(r) \/ StatementFails(r)

\* Initially there is no row.
LEMMA InitInv == Init => Inv
<1> SUFFICES ASSUME Init PROVE Inv
  OBVIOUS
<1>1. RunInv
  BY RunInitInv DEF Init
<1>2. TypeOK
  BY <1>1, MaxCrashesAssumption DEF Init, TypeOK, RunInv
<1>3. EvidenceBacked
  BY DEF Init, RunInit, EvidenceBacked, Backed, NoJob
<1>4. RunningHasOwner
  BY DEF Init, RunInit, RunningHasOwner, NoJob
<1>5. EventsInv
  BY EventsInitially DEF Init, RunInit, Open
<1>6. FixtureInv
  <2>1. ~Cancelled(NoJob)
    BY DEF Cancelled, NoJob
  <2> QED
    BY <2>1 DEF Init, RunInit, FixtureInv, Lineage, Exists, NoJob, RunLabels
<1> QED
  BY <1>1, <1>2, <1>3, <1>4, <1>5, <1>6 DEF Inv

\* What a cancellation and a transition do to the flag, and that they leave a row.
LEMMA RowFacts ==
  ASSUME NEW rec, NEW g \in Goals, NEW m
  PROVE  /\ ~Cancelled(NewJob) /\ ~Cancelled(NoJob)
         /\ Cancelled(Transitioned(rec, g, m)) <=> Cancelled(rec)
         /\ NewJob # NoJob /\ CancelRequested(rec) # NoJob /\ Transitioned(rec, g, m) # NoJob
         /\ NewJob.refs # "fixture" /\ CancelRequested(rec).refs = rec.refs
         /\ Transitioned(rec, g, m).refs = IF g = "SUCCEEDED" THEN m ELSE rec.refs
<1>1. ~Cancelled(NewJob) /\ ~Cancelled(NoJob)
  BY DEF Cancelled, NewJob, NoJob
<1>2. Transitioned(rec, g, m).cancel = rec.cancel
  BY DEF Transitioned
<1>3. Cancelled(Transitioned(rec, g, m)) <=> Cancelled(rec)
  BY <1>2, Zenon DEF Cancelled
<1>4. /\ NewJob.stage = "CREATED" /\ NoJob.stage = "ABSENT"
      /\ CancelRequested(rec).stage = "CANCEL_REQUESTED"
      /\ Transitioned(rec, g, m).stage = g /\ g # "ABSENT"
  BY DEF NewJob, NoJob, CancelRequested, Transitioned, Goals, Stages
<1>5. /\ NewJob.refs # "fixture" /\ CancelRequested(rec).refs = rec.refs
      /\ Transitioned(rec, g, m).refs = IF g = "SUCCEEDED" THEN m ELSE rec.refs
  BY DEF NewJob, CancelRequested, Transitioned
<1> QED
  BY <1>1, <1>3, <1>4, <1>5

\* Creations that are over stay so, and so do races of two of them and requests
\* to cancel.
LEMMA EndedStays ==
  ASSUME job' = job, op' = op,
         \A q \in Requests : (pc[q] \in Ended => pc'[q] = pc[q]) /\ (pc[q] # "new" => pc'[q] # "new")
  PROVE  \A j \in Jobs : /\ \A q \in Requests : CreateEnded(q, j) => CreateEnded(q, j)'
                         /\ Raced(j) => Raced(j)'
                         /\ CancelAsked(j) => CancelAsked(j)'
<1>1. \A j \in Jobs, q \in Requests : CreateEnded(q, j) => CreateEnded(q, j)'
  BY DEF CreateEnded
<1>2. \A j \in Jobs : Raced(j) => Raced(j)'
  BY <1>1 DEF Raced
<1>3. \A j \in Jobs : CancelAsked(j) => CancelAsked(j)'
  BY DEF CancelAsked
<1> QED
  BY <1>1, <1>2, <1>3

\* A step of the run path: the route picks the fixture branch on a cancellation
\* in the row, and the worker goes on with it only when the row shows none.
LEMMA RunStepLineage ==
  ASSUME RunInv, FixtureInv, NEW r \in Requests, RunStep(r)
  PROVE  FixtureInv'
<1>1. /\ job' = job /\ op' = op /\ jobs' = jobs
      /\ \A q \in Requests : pc[q] # "new" => pc'[q] # "new"
  BY RunStepAsked, RunStepInv
<1>2. \A q \in Requests : pc[q] \in Ended => pc'[q] = pc[q]
  BY DEF Ended, RunInv, RunTypeOK, RunStep, RouteRead, Preflight, WorkerRead, EventLen,
         EventAppend, RunFixture, RunReplay, StoreArtifact, FailCheck, Goto
<1>3. \A j \in Jobs : /\ \A q \in Requests : CreateEnded(q, j) => CreateEnded(q, j)'
                      /\ Raced(j) => Raced(j)'
                      /\ CancelAsked(j) => CancelAsked(j)'
  BY <1>1, <1>2, EndedStays
<1>4. ASSUME NEW j \in Jobs, NEW q \in Requests, job[q] = j, pc'[q] \in RunLabels \cup {"cancel_write"}
      PROVE  Exists(j)
  <2>1. CASE pc[q] \in RunLabels \cup {"cancel_write"}
    BY <1>4, <2>1 DEF FixtureInv, Lineage
  <2>2. CASE pc[q] \notin RunLabels \cup {"cancel_write"}
    BY <1>4, <2>2 DEF RunLabels, RunInv, RunTypeOK, RunStep, RouteRead, Preflight, WorkerRead,
         EventLen, EventAppend, RunFixture, RunReplay, StoreArtifact, FailCheck, Goto
  <2> QED
    BY <2>1, <2>2
<1>5. ASSUME NEW j \in Jobs, NEW q \in Requests, job[q] = j
      PROVE  /\ pc'[q] = "create_store" => op[q] = "create"
             /\ pc'[q] = "cancel_write" => op[q] = "cancel"
  <2>1. pc'[q] \in {"create_store", "cancel_write"} => pc[q] = pc'[q]
    BY <1>5 DEF RunInv, RunTypeOK, RunStep, RouteRead, Preflight, WorkerRead,
         EventLen, EventAppend, RunFixture, RunReplay, StoreArtifact, FailCheck, Goto
  <2> QED
    BY <1>5, <2>1 DEF FixtureInv, Lineage
<1>6. ASSUME NEW j \in Jobs, NEW q \in Requests, job[q] = j, mode'[q] = "fixture"
      PROVE  CancelAsked(j) /\ (Cancelled(jobs[j]) \/ Raced(j))
  <2>1. CASE mode[q] = "fixture"
    BY <1>6, <2>1 DEF FixtureInv, Lineage
  <2>2. CASE mode[q] # "fixture"
    <3>1. q = r /\ RouteRead(r) /\ mode' # mode
      BY <1>6, <2>2, RunStepAsked
    <3>2. jobs[j].cancel
      BY <1>6, <3>1, Zenon DEF RouteRead
    <3> QED
      BY <3>2 DEF Cancelled, FixtureInv, Lineage
  <2> QED
    BY <2>1, <2>2
<1>7. ASSUME NEW j \in Jobs, NEW q \in Requests, job[q] = j, mode'[q] = "fixture", Working(q)'
      PROVE  Raced(j)
  <2>1. CASE q = r /\ WorkerRead(r)
    <3>1. mode[q] = "fixture"
      BY <1>7, <2>1 DEF WorkerRead
    <3>2. jobs[job[r]].cancel => goal' = [goal EXCEPT ![r] = "CANCEL_REQUESTED"]
      BY <2>1, Zenon DEF WorkerRead
    <3>3. ~Cancelled(jobs[j])
      BY <1>7, <2>1, <3>1, <3>2 DEF RunInv, RunTypeOK, Cancelled, Working, WorkerRead, Goto
    <3> QED
      BY <1>7, <3>1, <3>3 DEF FixtureInv, Lineage
  <2>2. CASE ~(q = r /\ WorkerRead(r))
    <3>1. mode[q] = "fixture" /\ Working(q)
      BY <1>7, <2>2 DEF Working, RunInv, RunTypeOK, RunStep, RouteRead, Preflight, WorkerRead, EventLen,
         EventAppend, RunFixture, RunReplay, StoreArtifact, FailCheck, Goto, thread
    <3> QED
      BY <1>7, <3>1 DEF FixtureInv, Lineage
  <2> QED
    BY <2>1, <2>2
<1> QED
  <2> SUFFICES ASSUME NEW j \in Jobs PROVE Lineage(j)'
    BY DEF FixtureInv
  <2>1. Lineage(j)
    BY DEF FixtureInv
  <2>2. Exists(j)' <=> Exists(j)
    BY <1>1 DEF Exists
  <2>3. /\ Exists(j)' => \E p \in Requests : CreateEnded(p, j)'
        /\ Cancelled(jobs'[j]) => CancelAsked(j)'
        /\ jobs'[j].refs = "fixture" => CancelAsked(j)' /\ Raced(j)'
    BY <1>1, <1>3, <2>1, <2>2 DEF Lineage
  <2>4. \A q \in Requests : job'[q] = j =>
          /\ pc'[q] \in RunLabels \cup {"cancel_write"} => Exists(j)'
          /\ pc'[q] = "create_store" => op'[q] = "create"
          /\ pc'[q] = "cancel_write" => op'[q] = "cancel"
          /\ mode'[q] = "fixture" => CancelAsked(j)' /\ (Cancelled(jobs'[j]) \/ Raced(j)')
          /\ mode'[q] = "fixture" /\ Working(q)' => Raced(j)'
    BY <1>1, <1>3, <1>4, <1>5, <1>6, <1>7, <2>2
  <2> QED
    BY <2>3, <2>4 DEF Lineage, Cancelled

\* A step of the run path writes no row.
LEMMA RunStepKeeps ==
  ASSUME Inv, NEW r \in Requests, RunStep(r), UNCHANGED crashes
  PROVE  Inv'
<1>1. RunInv' /\ jobs' = jobs /\ artifacts \subseteq artifacts'
  BY RunStepInv DEF Inv
<1>2. TypeOK'
  BY <1>1 DEF Inv, TypeOK, RunInv
<1>3. EvidenceBacked'
  BY <1>1 DEF Inv, EvidenceBacked, Backed
<1>4. RunningHasOwner'
  BY RunStepOwner DEF Inv
<1>5. EventsInv' /\ FixtureInv'
  BY RunStepEvents, RunStepLineage DEF Inv, RunInv
<1> QED
  BY <1>1, <1>2, <1>3, <1>4, <1>5 DEF Inv

\* A statement on a row: a creation that overwrites a row is the second one that
\* ends; a transition leaves the flag alone and brings fixture evidence only from
\* a worker that went on after such a race.
LEMMA SqlStepLineage ==
  ASSUME RunInv, FixtureInv, NEW r \in Requests, SqlStep(r)
  PROVE  FixtureInv'
<1>1. job' = job /\ op' = op /\ goal' = goal /\ mode' = mode
  BY DEF SqlStep, CreateScan, CreateSave, CancelRead, CancelUpdate, TransUpdate,
         StatementFails, thread
<1>2. \A q \in Requests : /\ q # r => pc'[q] = pc[q]
                          /\ pc[q] # "new" => pc'[q] # "new"
                          /\ pc[q] \in Ended => pc'[q] = pc[q]
  BY DEF Ended, RunInv, RunTypeOK, SqlLabels, SqlStep, CreateScan, CreateSave, CancelRead,
         CancelUpdate, TransUpdate, StatementFails, Goto
<1>3. \A j \in Jobs : /\ \A q \in Requests : CreateEnded(q, j) => CreateEnded(q, j)'
                      /\ Raced(j) => Raced(j)'
                      /\ CancelAsked(j) => CancelAsked(j)'
  BY <1>1, <1>2, EndedStays
<1> SUFFICES ASSUME NEW j \in Jobs PROVE Lineage(j)'
  BY DEF FixtureInv
<1>4. /\ Lineage(j) /\ job[r] \in Jobs /\ goal[r] \in Goals /\ jobs[j] \in JobRecord \cup {NoJob}
      /\ pc[r] \in Labels
  BY DEF FixtureInv, RunInv, RunTypeOK
<1>5. \/ jobs'[j] = jobs[j]
      \/ CreateSave(r) /\ job[r] = j /\ jobs'[j] = NewJob
      \/ CancelUpdate(r) /\ job[r] = j /\ jobs'[j] = CancelRequested(jobs[j])
      \/ TransUpdate(r) /\ job[r] = j /\ jobs'[j] = Transitioned(jobs[j], goal[r], mode[r])
  BY DEF RunInv, RunTypeOK, SqlStep, CreateScan, CreateSave, CancelRead, CancelUpdate,
         TransUpdate, StatementFails, shared
<1> DEFINE rec == jobs[j]
           trans == Transitioned(rec, goal[r], mode[r])
<1>6. /\ ~Cancelled(NewJob) /\ ~Cancelled(NoJob)
      /\ Cancelled(trans) <=> Cancelled(rec)
      /\ NewJob # NoJob /\ CancelRequested(rec) # NoJob /\ trans # NoJob
      /\ NewJob.refs # "fixture" /\ CancelRequested(rec).refs = rec.refs
      /\ trans.refs = IF goal[r] = "SUCCEEDED" THEN mode[r] ELSE rec.refs
  BY <1>4, RowFacts
<1>7. Exists(j) => Exists(j)'
  BY <1>5, <1>6 DEF Exists
<1>8. ASSUME CreateSave(r), job[r] = j
      PROVE  CreateEnded(r, j)' /\ (Exists(j) => Raced(j)')
  <2>1. pc[r] = "create_store" /\ pc'[r] \in Ended
    BY <1>8 DEF CreateSave, Goto, RunInv, RunTypeOK, Ended
  <2>2. op[r] = "create"
    BY <1>4, <1>8, <2>1 DEF Lineage
  <2>3. CreateEnded(r, j)'
    BY <1>1, <1>8, <2>1, <2>2 DEF CreateEnded
  <2>4. ASSUME Exists(j) PROVE Raced(j)'
    <3>1. PICK p \in Requests : CreateEnded(p, j)
      BY <1>4, <2>4 DEF Lineage
    <3>2. p # r
      BY <2>1, <3>1 DEF CreateEnded, Ended
    <3>3. CreateEnded(p, j)'
      BY <1>3, <3>1
    <3> QED
      BY <2>3, <3>2, <3>3 DEF Raced
  <2> QED
    BY <2>3, <2>4
<1>9. Exists(j)' => \E p \in Requests : CreateEnded(p, j)'
  <2>1. CASE CreateSave(r) /\ job[r] = j
    BY <1>8, <2>1
  <2>2. CASE ~(CreateSave(r) /\ job[r] = j)
    <3>1. Exists(j)' => Exists(j)
      <4>1. CASE jobs'[j] = jobs[j]
        BY <4>1 DEF Exists
      <4>2. CASE jobs'[j] # jobs[j]
        <5>1. pc[r] \in RunLabels \cup {"cancel_write"} /\ job[r] = j
          BY <1>5, <2>2, <4>2 DEF CancelUpdate, TransUpdate, RunLabels
        <5> QED
          BY <1>4, <5>1 DEF Lineage
      <4> QED
        BY <4>1, <4>2
    <3> QED
      BY <1>3, <1>4, <3>1 DEF Lineage
  <2> QED
    BY <2>1, <2>2
<1>10. ASSUME Cancelled(jobs'[j]) PROVE CancelAsked(j)'
  <2>1. CASE Cancelled(jobs[j])
    BY <1>3, <1>4, <2>1 DEF Lineage
  <2>2. CASE ~Cancelled(jobs[j])
    <3>1. CancelUpdate(r) /\ job[r] = j
      BY <1>4, <1>5, <1>10, <2>2, <1>6
    <3>2. pc[r] = "cancel_write" /\ pc'[r] # "new"
      BY <1>2, <3>1 DEF CancelUpdate
    <3>3. op[r] = "cancel"
      BY <1>4, <3>1, <3>2 DEF Lineage
    <3> QED
      BY <1>1, <3>1, <3>2, <3>3 DEF CancelAsked
  <2> QED
    BY <2>1, <2>2
<1>11. ASSUME jobs'[j].refs = "fixture" PROVE CancelAsked(j)' /\ Raced(j)'
  <2>1. CASE jobs[j].refs = "fixture"
    BY <1>3, <1>4, <2>1 DEF Lineage
  <2>2. CASE jobs[j].refs # "fixture"
    <3>1. TransUpdate(r) /\ job[r] = j /\ goal[r] = "SUCCEEDED" /\ mode[r] = "fixture"
      BY <1>4, <1>5, <1>11, <2>2, <1>6
    <3>2. pc[r] = "trans_read"
      BY <3>1 DEF TransUpdate
    <3> QED
      BY <1>3, <1>4, <3>1, <3>2 DEF Lineage, Working
  <2> QED
    BY <2>1, <2>2
<1>12. ASSUME NEW q \in Requests, job[q] = j, pc'[q] \in RunLabels \cup {"cancel_write"}
       PROVE  Exists(j)'
  <2>1. CASE pc[q] \in RunLabels \cup {"cancel_write"}
    BY <1>4, <1>7, <1>12, <2>1 DEF Lineage
  <2>2. CASE pc[q] \notin RunLabels \cup {"cancel_write"}
    <3>1. q = r /\ CancelRead(r)
      BY <1>2, <1>12, <2>2 DEF RunLabels, RunInv, RunTypeOK, SqlStep, CreateScan, CreateSave,
         CancelUpdate, TransUpdate, StatementFails, Goto
    <3>2. Exists(j)
      BY <1>12, <3>1 DEF CancelRead, Goto, RunInv, RunTypeOK, RunLabels
    <3> QED
      BY <1>7, <3>2
  <2> QED
    BY <2>1, <2>2
<1>13. ASSUME NEW q \in Requests, job[q] = j, pc'[q] = "create_store"
       PROVE  op[q] = "create"
  <2>1. pc[q] = "create_store" \/ (q = r /\ CreateScan(r))
    BY <1>2, <1>13 DEF RunInv, RunTypeOK, SqlStep, CreateSave, CancelRead, CancelUpdate,
         TransUpdate, StatementFails, Goto
  <2> QED
    BY <1>4, <1>13, <2>1 DEF Lineage, CreateScan
<1>14. ASSUME NEW q \in Requests, job[q] = j, pc'[q] = "cancel_write"
       PROVE  op[q] = "cancel"
  <2>1. pc[q] = "cancel_write" \/ (q = r /\ CancelRead(r))
    BY <1>2, <1>14 DEF RunInv, RunTypeOK, SqlStep, CreateScan, CreateSave, CancelUpdate,
         TransUpdate, StatementFails, Goto
  <2> QED
    BY <1>4, <1>14, <2>1 DEF Lineage, CancelRead
<1>15. ASSUME NEW q \in Requests, job[q] = j, mode[q] = "fixture"
       PROVE  CancelAsked(j)' /\ (Cancelled(jobs'[j]) \/ Raced(j)')
  <2>1. CancelAsked(j) /\ (Cancelled(jobs[j]) \/ Raced(j))
    BY <1>4, <1>15 DEF Lineage
  <2>2. CASE CreateSave(r) /\ job[r] = j /\ Cancelled(jobs[j])
    <3>1. Exists(j)
      BY <1>4, <2>2, <1>6 DEF Exists
    <3> QED
      BY <1>3, <1>8, <2>1, <2>2, <3>1
  <2>3. CASE ~(CreateSave(r) /\ job[r] = j) /\ Cancelled(jobs[j])
    <3>1. Cancelled(CancelRequested(jobs[j]))
      BY DEF Cancelled, CancelRequested
    <3>2. Cancelled(jobs'[j])
      BY <1>4, <1>5, <2>3, <3>1, <1>6
    <3> QED
      BY <1>3, <2>1, <3>2
  <2>4. CASE Raced(j)
    BY <1>3, <2>1, <2>4
  <2> QED
    BY <2>1, <2>2, <2>3, <2>4
<1>16. ASSUME NEW q \in Requests, job[q] = j, mode[q] = "fixture", Working(q)'
       PROVE  Raced(j)'
  <2>1. Working(q)
    BY <1>1, <1>2, <1>16 DEF Working, RunInv, RunTypeOK, SqlStep, CreateScan, CreateSave, CancelRead, CancelUpdate,
         TransUpdate, StatementFails, Goto
  <2> QED
    BY <1>3, <1>4, <1>16, <2>1 DEF Lineage
<1> QED
  BY <1>1, <1>9, <1>10, <1>11, <1>12, <1>13, <1>14, <1>15, <1>16 DEF Lineage, Cancelled

\* A crash ends every request under way and touches no row.
LEMMA CrashLineage ==
  ASSUME RunInv, FixtureInv, Crash
  PROVE  FixtureInv'
<1>1. job' = job /\ op' = op /\ goal' = goal /\ mode' = mode /\ jobs' = jobs
  BY DEF Crash, thread
<1>2. \A q \in Requests : /\ pc'[q] \in {pc[q], "raised"}
                          /\ pc[q] # "new" => pc'[q] # "new"
                          /\ pc[q] \in Ended => pc'[q] = pc[q]
  BY DEF Ended, Crash
<1>3. \A j \in Jobs : /\ \A q \in Requests : CreateEnded(q, j) => CreateEnded(q, j)'
                      /\ Raced(j) => Raced(j)'
                      /\ CancelAsked(j) => CancelAsked(j)'
  BY <1>1, <1>2, EndedStays
<1> SUFFICES ASSUME NEW j \in Jobs PROVE Lineage(j)'
  BY DEF FixtureInv
<1>4. Lineage(j) /\ (Exists(j)' <=> Exists(j))
  BY <1>1 DEF FixtureInv, Exists
<1>5. /\ Exists(j)' => \E p \in Requests : CreateEnded(p, j)'
      /\ Cancelled(jobs'[j]) => CancelAsked(j)'
      /\ jobs'[j].refs = "fixture" => CancelAsked(j)' /\ Raced(j)'
  BY <1>1, <1>3, <1>4 DEF Lineage
<1>6. \A q \in Requests : job'[q] = j =>
        /\ pc'[q] \in RunLabels \cup {"cancel_write"} => Exists(j)'
        /\ pc'[q] = "create_store" => op'[q] = "create"
        /\ pc'[q] = "cancel_write" => op'[q] = "cancel"
        /\ mode'[q] = "fixture" => CancelAsked(j)' /\ (Cancelled(jobs'[j]) \/ Raced(j)')
        /\ mode'[q] = "fixture" /\ Working(q)' => Raced(j)'
  <2> SUFFICES ASSUME NEW q \in Requests, job'[q] = j
               PROVE  /\ pc'[q] \in RunLabels \cup {"cancel_write"} => Exists(j)'
                      /\ pc'[q] = "create_store" => op'[q] = "create"
                      /\ pc'[q] = "cancel_write" => op'[q] = "cancel"
                      /\ mode'[q] = "fixture" => CancelAsked(j)' /\ (Cancelled(jobs'[j]) \/ Raced(j)')
                      /\ mode'[q] = "fixture" /\ Working(q)' => Raced(j)'
    OBVIOUS
  <2>1. pc'[q] = pc[q] \/ pc'[q] = "raised"
    BY <1>2
  <2> QED
    BY <1>1, <1>3, <1>4, <2>1 DEF Lineage, RunLabels, Working
<1> QED
  BY <1>5, <1>6 DEF Lineage, Cancelled

\* A statement keeps the invariant, whether it is applied, lost or both.
LEMMA SqlStepKeeps ==
  ASSUME Inv, NEW r \in Requests, SqlStep(r)
  PROVE  Inv'
<1> DEFINE rec == jobs[job[r]]
<1>1. /\ rec \in JobRecord \cup {NoJob} /\ goal[r] \in Goals /\ mode[r] \in Modes
      /\ Backed(job[r], rec) /\ job[r] \in Jobs
  BY DEF Inv, TypeOK, RunTypeOK, EvidenceBacked
<1>2. /\ NewJob \in JobRecord
      /\ CancelRequested(rec) \in JobRecord
      /\ CancelRequested(rec).stage = "CANCEL_REQUESTED"
      /\ CancelRequested(rec).refs = rec.refs
      /\ Transitioned(rec, goal[r], mode[r]) \in JobRecord
      /\ Transitioned(rec, goal[r], mode[r]).stage = goal[r]
      /\ Transitioned(rec, goal[r], mode[r]).refs =
           IF goal[r] = "SUCCEEDED" THEN mode[r] ELSE rec.refs
  BY <1>1, CopyTyped
<1>3. /\ job' = job /\ op' = op /\ goal' = goal /\ mode' = mode
      /\ artifacts' = artifacts /\ crashes' = crashes
  BY DEF SqlStep, CreateScan, CreateSave, CancelRead, CancelUpdate, TransUpdate,
         StatementFails, shared, thread
<1>4. TypeOK'
  <2>1. jobs' \in [Jobs -> JobRecord \cup {NoJob}]
    BY <1>1, <1>2 DEF Inv, TypeOK, RunTypeOK, SqlStep, CreateScan, CreateSave,
         CancelRead, CancelUpdate, TransUpdate, StatementFails, shared
  <2>2. (\E label \in Labels : Goto(r, label)) /\ events' = events /\ seq' = seq
    BY DEF Labels, Ended, SqlStep, CreateScan, CreateSave, CancelRead, CancelUpdate,
         TransUpdate, StatementFails, shared, thread
  <2>3. pc' \in [Requests -> Labels]
    BY <2>2 DEF Goto, Inv, TypeOK, RunTypeOK
  <2> QED
    BY <1>3, <2>1, <2>2, <2>3 DEF Inv, TypeOK, RunTypeOK
<1>5. OnlyRunsRun'
  BY DEF Inv, RunInv, RunTypeOK, OnlyRunsRun, RunLabels, SqlStep, CreateScan, CreateSave,
         CancelRead, CancelUpdate, TransUpdate, StatementFails, shared, thread, Goto
<1>6. StoredBeforeSuccess'
  BY <1>3 DEF Inv, RunInv, StoredBeforeSuccess
<1>7. EvidenceBacked'
  <2>1. Backed(job[r], NewJob) /\ Backed(job[r], CancelRequested(rec))
    BY <1>1, <1>2 DEF Backed, NewJob
  <2>2. Backed(job[r], Transitioned(rec, goal[r], mode[r]))
    BY <1>1, <1>2 DEF Inv, RunInv, StoredBeforeSuccess, Backed, Modes, Refs
  <2>3. \A j \in Jobs : Backed(j, jobs'[j])
    BY <2>1, <2>2 DEF Inv, TypeOK, RunTypeOK, EvidenceBacked, SqlStep, CreateScan,
         CreateSave, CancelRead, CancelUpdate, TransUpdate, StatementFails, shared
  <2> QED
    BY <1>3, <2>3 DEF EvidenceBacked, Backed
<1>8. RunningHasOwner'
  <2> SUFFICES ASSUME NEW j \in Jobs, jobs'[j].stage = "RUNNING"
               PROVE  (\E q \in Requests : job[q] = j /\ op[q] = "run" /\ Owner(q))'
    BY DEF RunningHasOwner
  <2>1. CASE TransUpdate(r) /\ job[r] = j
    <3>1. goal[r] = "RUNNING" /\ pc'[r] \in {"event_len", "raised"}
      BY <1>1, <1>2, <2>1 DEF TransUpdate, Goto, Inv, TypeOK, RunTypeOK
    <3>2. op[r] = "run"
      BY <2>1 DEF TransUpdate, Inv, RunInv, OnlyRunsRun, RunLabels
    <3> QED
      BY <1>3, <2>1, <3>1, <3>2 DEF Owner
  <2>2. CASE ~(TransUpdate(r) /\ job[r] = j)
    <3>1. jobs'[j] = jobs[j]
      BY <1>2, <2>2 DEF Inv, TypeOK, RunTypeOK, NewJob, SqlStep, CreateScan, CreateSave,
         CancelRead, CancelUpdate, TransUpdate, StatementFails, shared
    <3>2. PICK q \in Requests : job[q] = j /\ op[q] = "run" /\ Owner(q)
      BY <3>1 DEF Inv, RunningHasOwner
    <3>3. Owner(q)'
      BY <1>3, <2>2, <3>2 DEF Inv, TypeOK, RunTypeOK, Owner, SqlStep, CreateScan, CreateSave,
         CancelRead, CancelUpdate, TransUpdate, StatementFails, SqlLabels, Goto
    <3> QED
      BY <1>3, <3>2, <3>3
  <2> QED
    BY <2>1, <2>2
<1>9. EventsInv'
  <2>1. events' = events
    BY DEF SqlStep, CreateScan, CreateSave, CancelRead, CancelUpdate, TransUpdate,
         StatementFails, shared
  <2>2. \A j \in Jobs : Open(j)' \subseteq Open(j)
    BY DEF Open, Inv, RunInv, RunTypeOK, SqlStep, CreateScan, CreateSave, CancelRead,
         CancelUpdate, TransUpdate, StatementFails, thread, Goto
  <2> QED
    BY <2>1, <2>2, EventsKept DEF Inv, RunInv
<1>10. FixtureInv'
  BY SqlStepLineage DEF Inv
<1> QED
  BY <1>4, <1>5, <1>6, <1>7, <1>8, <1>9, <1>10 DEF Inv, RunInv, TypeOK

\* After a crash the owners under way count as dead, and their rows and
\* artifacts are as they were.
LEMMA CrashKeeps ==
  ASSUME Inv, Crash
  PROVE  Inv'
<1>1. TypeOK'
  BY MaxCrashesAssumption DEF Inv, TypeOK, RunTypeOK, Crash, thread, Labels, Ended
<1>2. OnlyRunsRun' /\ StoredBeforeSuccess'
  BY DEF Inv, RunInv, OnlyRunsRun, StoredBeforeSuccess, RunTypeOK, Crash, thread,
         RunLabels, Ended
<1>3. EvidenceBacked'
  BY DEF Inv, EvidenceBacked, Backed, Crash
<1>4. RunningHasOwner'
  <2> SUFFICES ASSUME NEW j \in Jobs, jobs'[j].stage = "RUNNING"
               PROVE  (\E q \in Requests : job[q] = j /\ op[q] = "run" /\ Owner(q))'
    BY DEF RunningHasOwner
  <2>1. PICK q \in Requests : job[q] = j /\ op[q] = "run" /\ Owner(q)
    BY DEF Inv, RunningHasOwner, Crash
  <2>2. job' = job /\ op' = op /\ goal' = goal
    BY DEF Crash, thread
  <2>3. pc'[q] = "raised"
    BY <2>1 DEF Crash, Owner, Ended
  <2> QED
    BY <2>1, <2>2, <2>3 DEF Owner
<1>5. EventsInv'
  <2>1. \A j \in Jobs : events'[j] = <<>> /\ Open(j)' = {}
    BY DEF Crash, Open, Ended
  <2> QED
    BY <2>1, EventsLost
<1>6. FixtureInv'
  BY CrashLineage DEF Inv
<1> QED
  BY <1>1, <1>2, <1>3, <1>4, <1>5, <1>6 DEF Inv, RunInv, TypeOK

\* The invariant is inductive.
LEMMA NextInv == Inv /\ [Next]_vars => Inv'
<1> SUFFICES ASSUME Inv, [Next]_vars PROVE Inv'
  OBVIOUS
<1>1. ASSUME NEW r \in Requests, Step(r) PROVE Inv'
  BY <1>1, RunStepKeeps, SqlStepKeeps DEF Step, SqlStep
<1>2. CASE Crash
  BY <1>2, CrashKeeps
<1>3. CASE UNCHANGED vars
  <2>1. RunInv' /\ TypeOK' /\ EvidenceBacked' /\ RunningHasOwner'
    BY <1>3 DEF Inv, vars, runVars, shared, thread, RunInv, RunTypeOK, OnlyRunsRun,
         StoredBeforeSuccess, TypeOK, EvidenceBacked, Backed, RunningHasOwner, Owner
  <2>2. EventsInv'
    BY <1>3, EventsKept DEF Inv, RunInv, Open, vars, runVars, shared, thread
  <2>3. FixtureInv'
    BY <1>3 DEF Inv, FixtureInv, Lineage, Cancelled, CancelAsked, Raced, CreateEnded, Exists,
         Working, vars, runVars, shared, thread
  <2> QED
    BY <2>1, <2>2, <2>3 DEF Inv
<1> QED
  BY <1>1, <1>2, <1>3 DEF Next, Finished

\* A step clears a recorded cancellation only if it is the upsert of a creation
\* of that job.
LEMMA CancelStep ==
  ASSUME Inv, [Next]_vars, NEW j \in Jobs, jobs[j].cancel, ~jobs'[j].cancel
  PROVE  \E r \in Requests : job[r] = j /\ pc[r] = "create_store" /\ pc'[r] # pc[r]
<1>1. jobs' # jobs
  OBVIOUS
<1>2. PICK r \in Requests : CreateSave(r) \/ CancelUpdate(r) \/ TransUpdate(r)
  <2>1. ASSUME NEW r \in Requests, RunStep(r) PROVE jobs' = jobs
    BY <2>1, RunStepInv DEF Inv
  <2> QED
    BY <1>1, <2>1 DEF Next, Step, Crash, Finished, CreateScan, CancelRead,
         StatementFails, vars, runVars, shared
<1>3. ~CancelUpdate(r) /\ ~TransUpdate(r)
  <2>1. jobs \in [Jobs -> JobRecord \cup {NoJob}] /\ job[r] \in Jobs
    BY DEF Inv, TypeOK, RunTypeOK
  <2>2. \A rec, g, m : CancelRequested(rec).cancel = TRUE
                       /\ Transitioned(rec, g, m).cancel = rec.cancel
    BY DEF CancelRequested, Transitioned
  <2>3. ASSUME CancelUpdate(r) PROVE FALSE
    <3>1. jobs'[j] = jobs[j] \/ jobs'[j] = CancelRequested(jobs[job[r]])
      BY <2>1, <2>3 DEF CancelUpdate
    <3> QED BY <2>2, <3>1, Zenon
  <2>4. ASSUME TransUpdate(r) PROVE FALSE
    <3>1. jobs'[j] = jobs[j] \/ jobs'[j] = Transitioned(jobs[j], goal[r], mode[r])
      BY <2>1, <2>4 DEF TransUpdate
    <3>2. jobs'[j].cancel = jobs[j].cancel
      BY <2>2, <3>1
    <3> QED BY <3>2, Zenon
  <2> QED BY <2>3, <2>4
<1>4. CreateSave(r) /\ job[r] = j
  BY <1>2, <1>3 DEF CreateSave, Inv, TypeOK, RunTypeOK
<1> QED
  BY <1>4 DEF CreateSave, Goto, Inv, TypeOK, RunTypeOK

\* The columns and the request threads keep their types.
THEOREM TypeCorrect == Spec => []TypeOK
<1>1. Inv => TypeOK
  BY DEF Inv
<1> QED
  BY InitInv, NextInv, <1>1, PTL DEF Spec

\* Whatever requests race, fail or are cut off by a crash, a SUCCEEDED row has
\* refs and a replay ref names a stored artifact.
THEOREM EvidenceAlwaysBacked == Spec => []EvidenceBacked
<1>1. Inv => EvidenceBacked
  BY DEF Inv
<1> QED
  BY InitInv, NextInv, <1>1, PTL DEF Spec

\* A RUNNING row always has a run request that will end it or that died with an
\* exception or in a crash.
THEOREM RunningAlwaysOwned == Spec => []RunningHasOwner
<1>1. Inv => RunningHasOwner
  BY DEF Inv
<1> QED
  BY InitInv, NextInv, <1>1, PTL DEF Spec

\* No transition and no crash clears a recorded cancellation; only the upsert
\* of a racing creation does.
THEOREM CancelSurvivesTransitions == Spec => CancelClearedOnlyByCreate
<1>1. Inv /\ [Next]_vars =>
        [\A j \in Jobs : jobs[j].cancel /\ ~jobs'[j].cancel =>
           \E r \in Requests : job[r] = j /\ pc[r] = "create_store" /\ pc'[r] # pc[r]]_vars
  BY CancelStep
<1> QED
  BY InitInv, NextInv, <1>1, PTL DEF Spec, CancelClearedOnlyByCreate

\* Up to every point of a job's event stream, at least as many runs have started
\* as have succeeded; a crash empties the stream and ends what it counts.
THEOREM StartAlwaysReported == Spec => []StartedBeforeSucceeded
<1>1. Inv => StartedBeforeSucceeded
  BY DEF Inv, EventsInv
<1> QED
  BY InitInv, NextInv, <1>1, PTL DEF Spec

\* A row carries fixture evidence only after a request to cancel the job and two
\* creations of it that raced.
THEOREM FixtureAlwaysAfterCreateRace == Spec => []FixtureOnlyAfterCreateRace
<1>1. Inv => FixtureOnlyAfterCreateRace
  BY DEF Inv, FixtureInv, Lineage, Raced, FixtureOnlyAfterCreateRace
<1> QED
  BY InitInv, NextInv, <1>1, PTL DEF Spec
=============================================================================
