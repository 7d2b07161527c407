----------------------- MODULE BacktestJobsMemoryProofs -----------------------
(***************************************************************************)
(* For any number of requests and jobs: the in-memory job service keeps    *)
(* its types, never shows a success that no evidence backs, and never      *)
(* leaves a job RUNNING with nobody to answer for it; a success is told    *)
(* only after a start, and is a fixture's only after a cancellation.       *)
(***************************************************************************)
EXTENDS BacktestJobsMemory, BacktestRunProofs

\* What a thread holds between reading a record and storing its copy.
CopyInv ==
  \A r \in Requests :
    /\ pc[r] \in {"create_store", "create_index"} => copy[r] = NewJob
    /\ pc[r] = "cancel_write" => copy[r].stage = "CANCEL_REQUESTED"
    /\ pc[r] = "trans_write" => copy[r].stage = goal[r]

\* Fixture evidence, the branch that makes it and the cancellation that selects
\* that branch all go back to a request to cancel the job.
FixtureInv ==
  /\ \A j \in Jobs : Tainted(jobs[j]) => CancelAsked(j)
  /\ \A j \in Jobs, r \in Requests :
       job[r] = j /\ (Tainted(copy[r]) \/ mode[r] = "fixture") => CancelAsked(j)

\* The inductive invariant.
Inv == /\ RunInv /\ TypeOK /\ CopyInv
       /\ EvidenceBackedEverywhere /\ RunningHasOwner
       /\ EventsInv /\ FixtureInv

\* The steps that BacktestJobsMemory adds to the run path.
StoreStep(r) ==
  \/ CreateLookup(r) \/ CreateStore(r) \/ CreateIndex(r)
  \/ CancelRead(r) \/ TransRead(r) \/ WriteById(r) \/ WriteByKey(r)

\* Initially no record, no copy and no artifact exists.
LEMMA InitInv == Init => Inv
<1> SUFFICES ASSUME Init PROVE Inv
  OBVIOUS
<1>1. RunInv
  BY RunInitInv DEF Init
<1>2. TypeOK
  BY <1>1 DEF Init, TypeOK, RunInv
<1>3. CopyInv
  BY DEF Init, RunInit, CopyInv
<1>4. EvidenceBackedEverywhere
  BY DEF Init, RunInit, EvidenceBackedEverywhere, EvidenceBacked, Backed, NoJob
<1>5. RunningHasOwner
  BY DEF Init, RunInit, RunningHasOwner, NoJob
<1>6. EventsInv
  BY EventsInitially DEF Init, RunInit, Open
<1>7. FixtureInv
  BY TaintOfCopy DEF Init, RunInit, FixtureInv
<1> QED
  BY <1>1, <1>2, <1>3, <1>4, <1>5, <1>6, <1>7 DEF Inv

\* A step of the run path writes neither dictionary and no copy.
LEMMA RunStepKeeps ==
  ASSUME Inv, NEW r \in Requests, RunStep(r), UNCHANGED <<byKey, copy>>
  PROVE  Inv'
<1>1. RunInv' /\ jobs' = jobs /\ artifacts \subseteq artifacts'
  BY RunStepInv DEF Inv
<1>2. TypeOK'
  BY <1>1 DEF Inv, TypeOK, RunInv
<1>3. CopyInv'
  BY DEF Inv, RunInv, RunTypeOK, CopyInv, RunStep, RouteRead, Preflight, WorkerRead,
         EventLen, EventAppend, RunFixture, RunReplay, StoreArtifact, FailCheck,
         shared, thread, Goto
<1>4. job' = job
  BY DEF RunStep, RouteRead, Preflight, WorkerRead, EventLen, EventAppend,
         RunFixture, RunReplay, StoreArtifact, FailCheck, shared, thread
<1>5. EvidenceBackedEverywhere'
  BY <1>1, <1>4 DEF Inv, EvidenceBackedEverywhere, EvidenceBacked, Backed
<1>6. RunningHasOwner'
  BY RunStepOwner DEF Inv
<1>7. EventsInv'
  BY RunStepEvents DEF Inv, RunInv
<1>8. FixtureInv'
  <2>1. /\ \A j \in Jobs : CancelAsked(j) => CancelAsked(j)'
        /\ \A q \in Requests : mode'[q] = "fixture" => mode[q] = "fixture" \/ Tainted(jobs[job[q]])
    BY RunStepAsked DEF Inv
  <2>2. \A q \in Requests : job[q] \in Jobs
    BY DEF Inv, RunInv, RunTypeOK
  <2>3. \A j \in Jobs : Tainted(jobs'[j]) => CancelAsked(j)'
    BY <1>1, <2>1 DEF Inv, FixtureInv
  <2>4. \A j \in Jobs, q \in Requests :
          job[q] = j /\ (Tainted(copy'[q]) \/ mode'[q] = "fixture") => CancelAsked(j)'
    BY <2>1, <2>2 DEF Inv, FixtureInv
  <2> QED
    BY <1>4, <2>3, <2>4 DEF FixtureInv, Tainted, CancelAsked
<1> QED
  BY <1>1, <1>2, <1>3, <1>5, <1>6, <1>7, <1>8 DEF Inv

\* The steps that read and write the dictionaries keep the types and what is
\* known of the threads' copies.
LEMMA StoreStepTyped ==
  ASSUME Inv, NEW r \in Requests, StoreStep(r)
  PROVE  RunInv' /\ TypeOK' /\ CopyInv'
<1> DEFINE rec == jobs[job[r]]
<1>1. rec \in JobRecord \cup {NoJob} /\ goal[r] \in Goals /\ mode[r] \in Modes
  BY DEF Inv, TypeOK, RunTypeOK
<1>2. /\ NewJob \in JobRecord
      /\ CancelRequested(rec) \in JobRecord
      /\ CancelRequested(rec).stage = "CANCEL_REQUESTED"
      /\ Transitioned(rec, goal[r], mode[r]) \in JobRecord
      /\ Transitioned(rec, goal[r], mode[r]).stage = goal[r]
  BY <1>1, CopyTyped
<1> HIDE DEF rec
<1>3. RunTypeOK'
  BY DEF Inv, TypeOK, RunTypeOK, Labels, Ended, StoreStep, CreateLookup, CreateStore,
         CreateIndex, CancelRead, TransRead, WriteById, WriteByKey, shared, thread, Goto
<1>4. TypeOK'
  BY <1>2, <1>3 DEF rec, Inv, TypeOK, StoreStep, CreateLookup, CreateStore,
         CreateIndex, CancelRead, TransRead, WriteById, WriteByKey, shared, thread
<1>5. OnlyRunsRun'
  BY DEF Inv, RunInv, RunTypeOK, OnlyRunsRun, RunLabels, StoreStep, CreateLookup,
         CreateStore, CreateIndex, CancelRead, TransRead, WriteById, WriteByKey,
         shared, thread, Goto
<1>6. StoredBeforeSuccess'
  BY DEF Inv, RunInv, StoredBeforeSuccess, StoreStep, CreateLookup, CreateStore,
         CreateIndex, CancelRead, TransRead, WriteById, WriteByKey, shared, thread
<1>7. CopyInv'
  BY <1>2 DEF rec, Inv, TypeOK, RunTypeOK, CopyInv, StoreStep, CreateLookup, CreateStore,
         CreateIndex, CancelRead, TransRead, WriteById, WriteByKey, shared, thread, Goto
<1> QED
  BY <1>3, <1>4, <1>5, <1>6, <1>7 DEF RunInv

\* What is stored or copied is backed, since what it was copied from is and a
\* success of a replay comes after its artifact.
LEMMA StoreStepBacked ==
  ASSUME Inv, NEW r \in Requests, StoreStep(r)
  PROVE  EvidenceBackedEverywhere'
<1> DEFINE rec == jobs[job[r]]
<1>1. /\ rec \in JobRecord \cup {NoJob} /\ goal[r] \in Goals /\ mode[r] \in Modes
      /\ Backed(job[r], rec) /\ job[r] \in Jobs
  BY DEF Inv, TypeOK, RunTypeOK, EvidenceBackedEverywhere, EvidenceBacked
<1>2. /\ CancelRequested(rec).stage = "CANCEL_REQUESTED"
      /\ CancelRequested(rec).refs = rec.refs
      /\ Transitioned(rec, goal[r], mode[r]).stage = goal[r]
      /\ Transitioned(rec, goal[r], mode[r]).refs =
           IF goal[r] = "SUCCEEDED" THEN mode[r] ELSE rec.refs
  BY <1>1, CopyTyped
<1>3. Backed(job[r], NewJob)
  BY DEF Backed, NewJob
<1>4. Backed(job[r], CancelRequested(rec))
  BY <1>1, <1>2 DEF Backed
<1>5. goal[r] = "SUCCEEDED" /\ mode[r] = "replay" => job[r] \in artifacts
  BY DEF Inv, RunInv, StoredBeforeSuccess
<1>6. Backed(job[r], Transitioned(rec, goal[r], mode[r]))
  BY <1>1, <1>2, <1>5 DEF Backed, Modes, Refs
<1>7. artifacts' = artifacts /\ job' = job
  BY DEF StoreStep, CreateLookup, CreateStore, CreateIndex, CancelRead, TransRead,
         WriteById, WriteByKey, shared, thread
<1>8. \A q \in Requests : Backed(job[q], copy'[q])
  BY <1>3, <1>4, <1>6 DEF Inv, TypeOK, EvidenceBackedEverywhere, StoreStep, CreateLookup,
         CreateStore, CreateIndex, CancelRead, TransRead, WriteById, WriteByKey
<1>9. \A j \in Jobs : Backed(j, jobs'[j]) /\ Backed(j, byKey'[j])
  BY <1>1 DEF Inv, TypeOK, RunTypeOK, EvidenceBackedEverywhere, EvidenceBacked, StoreStep,
         CreateLookup, CreateStore, CreateIndex, CancelRead, TransRead, WriteById,
         WriteByKey, shared
<1> QED
  BY <1>7, <1>8, <1>9 DEF EvidenceBackedEverywhere, EvidenceBacked, Backed

\* A job is RUNNING after such a step only if the step made its request the
\* owner, or if the job was RUNNING and another request still owns it.
LEMMA StoreStepOwner ==
  ASSUME Inv, NEW r \in Requests, StoreStep(r)
  PROVE  RunningHasOwner'
<1> SUFFICES ASSUME NEW j \in Jobs, jobs'[j].stage = "RUNNING"
             PROVE  (\E q \in Requests : job[q] = j /\ op[q] = "run" /\ Owner(q))'
  BY DEF RunningHasOwner
<1>1. job' = job /\ op' = op /\ goal' = goal
  BY DEF StoreStep, CreateLookup, CreateStore, CreateIndex, CancelRead, TransRead,
         WriteById, WriteByKey, thread
<1>2. CASE jobs'[j] = jobs[j] /\ ~(pc[r] = "trans_write" /\ job[r] = j)
  <2>1. PICK q \in Requests : job[q] = j /\ op[q] = "run" /\ Owner(q)
    BY <1>2 DEF Inv, RunningHasOwner
  <2>2. Owner(q)'
    BY <1>1, <1>2, <2>1 DEF Inv, TypeOK, RunTypeOK, Owner, StoreStep, CreateLookup,
         CreateStore, CreateIndex, CancelRead, TransRead, WriteById, WriteByKey, Goto
  <2> QED
    BY <1>1, <2>1, <2>2
<1>3. CASE jobs'[j] # jobs[j] \/ (pc[r] = "trans_write" /\ job[r] = j)
  <2>1. job[r] = j /\ jobs'[j] = copy[r]
        /\ (CreateIndex(r) \/ WriteById(r))
    BY <1>3 DEF Inv, TypeOK, RunTypeOK, StoreStep, CreateLookup, CreateStore, CreateIndex,
         CancelRead, TransRead, WriteById, WriteByKey, shared
  <2>2. pc[r] = "trans_write" /\ goal[r] = "RUNNING" /\ WriteById(r)
    BY <2>1 DEF Inv, CopyInv, CreateIndex, WriteById, NewJob
  <2>3. op[r] = "run"
    BY <2>2 DEF Inv, RunInv, OnlyRunsRun, RunLabels
  <2>4. Owner(r)'
    BY <1>1, <2>2 DEF Owner, WriteById, Goto, Inv, TypeOK, RunTypeOK
  <2> QED
    BY <1>1, <2>1, <2>3, <2>4
<1> QED
  BY <1>2, <1>3

\* Reading and writing the dictionaries reports nothing.
LEMMA StoreStepEvents ==
  ASSUME Inv, NEW r \in Requests, StoreStep(r)
  PROVE  EventsInv'
<1>1. events' = events
  BY DEF StoreStep, CreateLookup, CreateStore, CreateIndex, CancelRead, TransRead,
         WriteById, WriteByKey, shared
<1>2. \A j \in Jobs : Open(j)' \subseteq Open(j)
  BY DEF Open, Inv, RunInv, RunTypeOK, StoreStep, CreateLookup, CreateStore, CreateIndex,
         CancelRead, TransRead, WriteById, WriteByKey, thread, Goto
<1> QED
  BY <1>1, <1>2, EventsKept DEF Inv, RunInv

\* A copy shows a cancellation or fixture evidence only if what it was copied
\* from does, if its thread makes that evidence, or if it is the cancellation.
LEMMA StoreStepAsked ==
  ASSUME Inv, NEW r \in Requests, StoreStep(r)
  PROVE  FixtureInv'
<1>1. job' = job /\ op' = op /\ mode' = mode
  BY DEF StoreStep, CreateLookup, CreateStore, CreateIndex, CancelRead, TransRead,
         WriteById, WriteByKey, thread
<1>2. \A q \in Requests : pc[q] # "new" => pc'[q] # "new"
  BY DEF Inv, RunInv, RunTypeOK, StoreStep, CreateLookup, CreateStore, CreateIndex,
         CancelRead, TransRead, WriteById, WriteByKey, Goto
<1>3. \A j \in Jobs : CancelAsked(j) => CancelAsked(j)'
  BY <1>1, <1>2 DEF CancelAsked
<1>4. ASSUME NEW j \in Jobs, NEW q \in Requests, job[q] = j, Tainted(copy'[q])
      PROVE  CancelAsked(j)'
  <2>1. CASE copy'[q] = copy[q]
    BY <1>3, <1>4, <2>1 DEF Inv, FixtureInv
  <2>2. CASE copy'[q] # copy[q]
    <3>1. q = r /\ (CreateLookup(r) \/ CancelRead(r) \/ TransRead(r))
      BY <2>2 DEF Inv, TypeOK, StoreStep, CreateLookup, CreateStore, CreateIndex,
         CancelRead, TransRead, WriteById, WriteByKey
    <3>2. CASE CreateLookup(r)
      <4>1. copy'[r] = NewJob
        BY <2>2, <3>1, <3>2 DEF CreateLookup, Inv, TypeOK
      <4> QED
        BY <1>4, <3>1, <4>1, TaintOfCopy
    <3>3. CASE CancelRead(r)
      <4>1. op[r] = "cancel" /\ pc'[r] # "new"
        BY <3>3 DEF CancelRead, Goto, Inv, RunInv, RunTypeOK
      <4> QED
        BY <1>1, <1>4, <3>1, <4>1 DEF CancelAsked
    <3>4. CASE TransRead(r)
      <4>1. copy'[r] = Transitioned(jobs[job[r]], goal[r], mode[r])
        BY <3>4 DEF TransRead, Inv, TypeOK
      <4>2. Tainted(jobs[job[r]]) \/ mode[r] = "fixture"
        BY <1>4, <3>1, <4>1, TaintOfCopy
      <4> QED
        BY <1>3, <1>4, <3>1, <4>2 DEF Inv, FixtureInv
    <3> QED
      BY <3>1, <3>2, <3>3, <3>4
  <2> QED
    BY <2>1, <2>2
<1>5. ASSUME NEW j \in Jobs, Tainted(jobs'[j]) PROVE CancelAsked(j)'
  <2>1. jobs'[j] = jobs[j] \/ (job[r] = j /\ jobs'[j] = copy[r])
    BY DEF Inv, TypeOK, RunTypeOK, StoreStep, CreateLookup, CreateStore, CreateIndex,
         CancelRead, TransRead, WriteById, WriteByKey, shared
  <2> QED
    BY <1>3, <1>5, <2>1 DEF Inv, FixtureInv
<1>6. \A j \in Jobs, q \in Requests : job[q] = j /\ mode[q] = "fixture" => CancelAsked(j)'
  BY <1>3 DEF Inv, FixtureInv
<1> QED
  BY <1>1, <1>4, <1>5, <1>6 DEF FixtureInv, Tainted, CancelAsked

\* The invariant is inductive.
LEMMA NextInv == Inv /\ [Next]_vars => Inv'
<1> SUFFICES ASSUME Inv, [Next]_vars PROVE Inv'
  OBVIOUS
<1>1. ASSUME NEW r \in Requests, Step(r) PROVE Inv'
  <2>1. CASE RunStep(r) /\ UNCHANGED <<byKey, copy>>
    BY <2>1, RunStepKeeps
  <2>2. CASE StoreStep(r)
    BY <2>2, StoreStepTyped, StoreStepBacked, StoreStepOwner, StoreStepEvents,
       StoreStepAsked DEF Inv
  <2> QED
    BY <1>1, <2>1, <2>2 DEF Step, StoreStep
<1>2. CASE UNCHANGED vars
  <2>1. RunInv' /\ TypeOK' /\ CopyInv' /\ EvidenceBackedEverywhere' /\ RunningHasOwner'
    BY <1>2 DEF Inv, vars, runVars, shared, thread, RunInv, RunTypeOK, OnlyRunsRun,
         StoredBeforeSuccess, TypeOK, CopyInv, EvidenceBackedEverywhere,
         EvidenceBacked, Backed, RunningHasOwner, Owner
  <2>2. EventsInv'
    BY <1>2, EventsKept DEF Inv, RunInv, Open, vars, runVars, shared, thread
  <2>3. FixtureInv'
    BY <1>2 DEF Inv, FixtureInv, Tainted, CancelAsked, vars, runVars, shared, thread
  <2> QED
    BY <2>1, <2>2, <2>3 DEF Inv
<1> QED
  BY <1>1, <1>2 DEF Next, Finished

\* The variables of the in-memory service and of its request threads keep
\* their types.
THEOREM TypeCorrect == Spec => []TypeOK
<1>1. Inv => TypeOK
  BY DEF Inv
<1> QED
  BY InitInv, NextInv, <1>1, PTL DEF Spec

\* No interleaving of create, cancel and run requests makes get_job or
\* create_job return a SUCCEEDED record without refs, or a replay ref whose
\* artifact is not in the store.
THEOREM EvidenceAlwaysBacked == Spec => []EvidenceBackedEverywhere
<1>1. Inv => EvidenceBackedEverywhere
  BY DEF Inv
<1> QED
  BY InitInv, NextInv, <1>1, PTL DEF Spec

\* A RUNNING job always has a run request that will end it or that died with an
\* exception.
THEOREM RunningAlwaysOwned == Spec => []RunningHasOwner
<1>1. Inv => RunningHasOwner
  BY DEF Inv
<1> QED
  BY InitInv, NextInv, <1>1, PTL DEF Spec

\* Up to every point of a job's event stream, at least as many runs have started
\* as have succeeded, however many requests append to it.
THEOREM StartAlwaysReported == Spec => []StartedBeforeSucceeded
<1>1. Inv => StartedBeforeSucceeded
  BY DEF Inv, EventsInv
<1> QED
  BY InitInv, NextInv, <1>1, PTL DEF Spec

\* A job carries fixture evidence only if some request asked to cancel it: the
\* only way of the run route to the fixture branch is a cancellation that was
\* overwritten between the route's read and the worker's.
THEOREM FixtureAlwaysAfterCancel == Spec => []FixtureOnlyAfterCancel
<1>1. Inv => FixtureOnlyAfterCancel
  <2>1. \A rec : rec.refs = "fixture" => Tainted(rec)
    BY DEF Tainted
  <2> QED
    BY <2>1 DEF Inv, FixtureInv, FixtureOnlyAfterCancel
<1> QED
  BY InitInv, NextInv, <1>1, PTL DEF Spec
=============================================================================
