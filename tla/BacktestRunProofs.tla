-------------------------- MODULE BacktestRunProofs --------------------------
(***************************************************************************)
(* What the steps of BacktestRun preserve whichever store keeps the jobs.  *)
(* The proofs about the two stores cite these lemmas for the disjunct      *)
(* RunStep of their next-state relations.                                  *)
(***************************************************************************)
EXTENDS BacktestRun, FiniteSetTheorems, TLAPS

\* Only run requests reach the labels of the run path.
RunLabels == {"preflight", "worker", "trans_read", "trans_write", "trans_index",
              "event_len", "event_append", "execute", "store_artifact", "fail_check"}
OnlyRunsRun == \A r \in Requests : pc[r] \in RunLabels => op[r] = "run"

\* A thread that is to report success of a replay has stored the artifact.
StoredBeforeSuccess ==
  \A r \in Requests : goal[r] = "SUCCEEDED" /\ mode[r] = "replay" => job[r] \in artifacts

RunInv == RunTypeOK /\ OnlyRunsRun /\ StoredBeforeSuccess

\* The initial state of the run path satisfies its invariant.
LEMMA RunInitInv == RunInit => RunInv
BY DEF RunInit, RunInv, RunTypeOK, OnlyRunsRun, StoredBeforeSuccess, Labels, Ended,
       RunLabels, Goals, Stages, Modes, Refs

\* A record read, copied and changed by transition_job or request_cancel is
\* again a record.
LEMMA CopyTyped ==
  ASSUME NEW rec \in JobRecord \cup {NoJob}, NEW g \in Goals, NEW m \in Modes
  PROVE  /\ NewJob \in JobRecord
         /\ CancelRequested(rec) \in JobRecord
         /\ CancelRequested(rec).stage = "CANCEL_REQUESTED"
         /\ CancelRequested(rec).refs = rec.refs
         /\ Transitioned(rec, g, m) \in JobRecord
         /\ Transitioned(rec, g, m).stage = g
         /\ Transitioned(rec, g, m).refs = IF g = "SUCCEEDED" THEN m ELSE rec.refs
<1>1. rec.cancel \in BOOLEAN /\ rec.refs \in Refs
  <2>1. CASE rec \in JobRecord
    BY <2>1 DEF JobRecord
  <2>2. CASE rec = NoJob
    BY <2>2 DEF NoJob, Refs
  <2> QED BY <2>1, <2>2
<1>2. NewJob \in JobRecord
  BY DEF JobRecord, NewJob, Stages, Refs
<1>3. CancelRequested(rec) \in JobRecord
  BY <1>1 DEF JobRecord, CancelRequested, Stages
<1>4. Transitioned(rec, g, m) \in JobRecord
  <2>1. (IF g = "SUCCEEDED" THEN m ELSE rec.refs) \in Refs
    BY <1>1 DEF Modes
  <2>2. g \in Stages
    BY DEF Goals
  <2> QED
    BY <1>1, <2>1, <2>2 DEF JobRecord, Transitioned
<1>5. /\ CancelRequested(rec).stage = "CANCEL_REQUESTED"
      /\ CancelRequested(rec).refs = rec.refs
      /\ Transitioned(rec, g, m).stage = g
      /\ Transitioned(rec, g, m).refs = IF g = "SUCCEEDED" THEN m ELSE rec.refs
  BY DEF CancelRequested, Transitioned
<1> QED
  BY <1>2, <1>3, <1>4, <1>5

\* Every step of the run path keeps the types.
LEMMA RunStepTypeOK ==
  ASSUME RunTypeOK, NEW r \in Requests, RunStep(r)
  PROVE  RunTypeOK'
<1> USE DEF RunTypeOK, shared, thread, Goto, Labels, Ended
<1>1. CASE RouteRead(r)
  BY <1>1 DEF RouteRead, Modes, Refs
<1>2. CASE Preflight(r)
  BY <1>2 DEF Preflight
<1>3. CASE WorkerRead(r)
  BY <1>3 DEF WorkerRead, Goals, Stages
<1>4. CASE EventLen(r)
  <2>1. Len(events[job[r]]) \in Nat
    BY <1>4 DEF EventLen
  <2> QED
    BY <1>4, <2>1 DEF EventLen
<1>5. CASE EventAppend(r)
  <2>1. [id |-> seq[r], stage |-> goal[r]] \in Event
    BY <1>5 DEF Event
  <2>2. Append(events[job[r]], [id |-> seq[r], stage |-> goal[r]]) \in Seq(Event)
    BY <2>1
  <2> QED
    BY <1>5, <2>2 DEF EventAppend
<1>6. CASE RunFixture(r)
  BY <1>6 DEF RunFixture, Goals, Stages
<1>7. CASE RunReplay(r)
  BY <1>7 DEF RunReplay
<1>8. CASE StoreArtifact(r)
  BY <1>8 DEF StoreArtifact, Goals, Stages
<1>9. CASE FailCheck(r)
  BY <1>9 DEF FailCheck, Goals, Stages
<1> QED
  BY <1>1, <1>2, <1>3, <1>4, <1>5, <1>6, <1>7, <1>8, <1>9 DEF RunStep

\* Every step of the run path keeps the invariant of the run path, writes no
\* job record and removes no artifact.
LEMMA RunStepInv ==
  ASSUME RunInv, NEW r \in Requests, RunStep(r)
  PROVE  RunInv' /\ jobs' = jobs /\ artifacts \subseteq artifacts'
<1>1. RunTypeOK'
  BY RunStepTypeOK DEF RunInv
<1>2. jobs' = jobs /\ artifacts \subseteq artifacts'
  BY DEF RunStep, RouteRead, Preflight, WorkerRead, EventLen, EventAppend,
         RunFixture, RunReplay, StoreArtifact, FailCheck, shared
<1>3. OnlyRunsRun'
  BY DEF RunInv, RunTypeOK, OnlyRunsRun, RunLabels, RunStep, RouteRead, Preflight,
         WorkerRead, EventLen, EventAppend, RunFixture, RunReplay, StoreArtifact,
         FailCheck, shared, thread, Goto
<1>4. StoredBeforeSuccess'
  BY DEF RunInv, RunTypeOK, StoredBeforeSuccess, Modes, Refs, RunStep, RouteRead,
         Preflight, WorkerRead, EventLen, EventAppend, RunFixture, RunReplay,
         StoreArtifact, FailCheck, shared, thread, Goto
<1> QED
  BY <1>1, <1>2, <1>3, <1>4 DEF RunInv

\* A step of the run path leaves every RUNNING job with a request that answers
\* for it: an owner stays one until it writes the stage that ends the run, and
\* one that finds the job no longer RUNNING may go.
LEMMA RunStepOwner ==
  ASSUME RunInv, RunningHasOwner, NEW r \in Requests, RunStep(r)
  PROVE  RunningHasOwner'
<1> SUFFICES ASSUME NEW j \in Jobs, jobs'[j].stage = "RUNNING"
             PROVE  (\E q \in Requests : job[q] = j /\ op[q] = "run" /\ Owner(q))'
  BY DEF RunningHasOwner
<1>1. jobs' = jobs
  BY RunStepInv
<1>2. PICK q \in Requests : job[q] = j /\ op[q] = "run" /\ Owner(q)
  BY <1>1 DEF RunningHasOwner
<1>3. job' = job /\ op' = op
  BY DEF RunStep, RouteRead, Preflight, WorkerRead, EventLen, EventAppend,
         RunFixture, RunReplay, StoreArtifact, FailCheck, shared, thread
<1>4. Owner(q)'
  <2>1. CASE q # r
    BY <1>2, <2>1 DEF Owner, RunInv, RunTypeOK, RunStep, RouteRead, Preflight,
         WorkerRead, EventLen, EventAppend, RunFixture, RunReplay, StoreArtifact,
         FailCheck, shared, thread, Goto
  <2>2. CASE q = r
    BY <1>1, <1>2, <2>2 DEF Owner, RunInv, RunTypeOK, RunStep, RouteRead, Preflight,
         WorkerRead, EventLen, EventAppend, RunFixture, RunReplay, StoreArtifact,
         FailCheck, shared, thread, Goto
  <2> QED BY <2>1, <2>2
<1> QED
  BY <1>2, <1>3, <1>4

-----------------------------------------------------------------------------
\* The requests of a job between the RUNNING event and the SUCCEEDED event of
\* their run.
Open(j) ==
  {r \in Requests :
     /\ job[r] = j
     /\ \/ pc[r] \in {"execute", "store_artifact"}
        \/ /\ goal[r] = "SUCCEEDED"
           /\ pc[r] \in {"trans_read", "trans_write", "trans_index", "event_len", "event_append"}}

\* Every success reported, and every success still to be reported, has a start
\* of its own in the stream.
Balanced(j) ==
  /\ IsFiniteSet(Open(j))
  /\ Cardinality(Positions(events[j], Len(events[j]), "SUCCEEDED")) + Cardinality(Open(j))
       <= Cardinality(Positions(events[j], Len(events[j]), "RUNNING"))

EventsInv == StartedBeforeSucceeded /\ \A j \in Jobs : Balanced(j)

\* A stream has finitely many events of a stage.
LEMMA PositionsFinite ==
  ASSUME NEW s, NEW n \in Nat, NEW stage
  PROVE  IsFiniteSet(Positions(s, n, stage)) /\ Cardinality(Positions(s, n, stage)) \in Nat
<1>1. IsFiniteSet(1..n)
  BY FS_Interval
<1>2. Positions(s, n, stage) \subseteq 1..n
  BY DEF Positions
<1> QED
  BY <1>1, <1>2, FS_Subset, FS_CardinalityType

\* With empty streams and no run under way the balance holds.
LEMMA EventsInitially ==
  ASSUME \A j \in Jobs : events[j] = <<>> /\ Open(j) = {}
  PROVE  EventsInv
<1>1. \A s, stage : Positions(s, 0, stage) = {}
  BY DEF Positions
<1>2. \A j \in Jobs : Len(events[j]) = 0
  OBVIOUS
<1>3. IsFiniteSet({}) /\ Cardinality({}) = 0
  BY FS_EmptySet
<1>4. ASSUME NEW j \in Jobs, NEW n \in 0..Len(events[j])
      PROVE  Cardinality(Positions(events[j], n, "SUCCEEDED"))
               <= Cardinality(Positions(events[j], n, "RUNNING"))
  <2>1. n = 0
    BY <1>2
  <2>2. /\ Positions(events[j], n, "SUCCEEDED") = {}
        /\ Positions(events[j], n, "RUNNING") = {}
    BY <1>1, <2>1
  <2>3. /\ Cardinality(Positions(events[j], n, "SUCCEEDED")) = 0
        /\ Cardinality(Positions(events[j], n, "RUNNING")) = 0
    BY <1>3, <2>2
  <2> QED
    BY <2>3
<1>5. ASSUME NEW j \in Jobs PROVE Balanced(j)
  <2>1. \A stage : Cardinality(Positions(events[j], Len(events[j]), stage)) = 0
    BY <1>1, <1>2, <1>3
  <2>2. IsFiniteSet(Open(j)) /\ Cardinality(Open(j)) = 0
    BY <1>3
  <2> QED
    BY <2>1, <2>2 DEF Balanced
<1> QED
  BY <1>4, <1>5 DEF EventsInv, StartedBeforeSucceeded

\* The same after a step that loses every stream and every run under way.
LEMMA EventsLost ==
  ASSUME \A j \in Jobs : events'[j] = <<>> /\ Open(j)' = {}
  PROVE  EventsInv'
<1>1. \A s, stage : Positions(s, 0, stage) = {}
  BY DEF Positions
<1>2. IsFiniteSet({}) /\ Cardinality({}) = 0
  BY FS_EmptySet
<1>3. ASSUME NEW j \in Jobs, NEW n \in 0..Len(events'[j])
      PROVE  Cardinality(Positions(events'[j], n, "SUCCEEDED"))
               <= Cardinality(Positions(events'[j], n, "RUNNING"))
  <2>1. n = 0
    OBVIOUS
  <2>2. /\ Positions(events'[j], n, "SUCCEEDED") = {}
        /\ Positions(events'[j], n, "RUNNING") = {}
    BY <1>1, <2>1
  <2>3. /\ Cardinality(Positions(events'[j], n, "SUCCEEDED")) = 0
        /\ Cardinality(Positions(events'[j], n, "RUNNING")) = 0
    BY <1>2, <2>2
  <2> QED
    BY <2>3
<1>4. ASSUME NEW j \in Jobs PROVE Balanced(j)'
  <2>1. \A stage : Cardinality(Positions(events'[j], Len(events'[j]), stage)) = 0
    BY <1>1, <1>2
  <2>2. IsFiniteSet(Open(j)') /\ Cardinality(Open(j)') = 0
    BY <1>2
  <2> QED
    BY <2>1, <2>2 DEF Balanced
<1> QED
  BY <1>3, <1>4 DEF EventsInv, StartedBeforeSucceeded

\* The balance survives every step that appends no event and opens no run.
LEMMA EventsKept ==
  ASSUME RunTypeOK, EventsInv, events' = events, \A j \in Jobs : Open(j)' \subseteq Open(j)
  PROVE  EventsInv'
<1>1. StartedBeforeSucceeded'
  BY DEF EventsInv, StartedBeforeSucceeded, Positions
<1>2. ASSUME NEW j \in Jobs PROVE Balanced(j)'
  <2> DEFINE S == Cardinality(Positions(events[j], Len(events[j]), "SUCCEEDED"))
             R == Cardinality(Positions(events[j], Len(events[j]), "RUNNING"))
  <2>1. Len(events[j]) \in Nat
    BY DEF RunTypeOK
  <2>2. S \in Nat /\ R \in Nat
    BY <2>1, PositionsFinite
  <2>3. IsFiniteSet(Open(j)) /\ S + Cardinality(Open(j)) <= R
    BY DEF EventsInv, Balanced
  <2>4. /\ IsFiniteSet(Open(j)') /\ Cardinality(Open(j)') <= Cardinality(Open(j))
        /\ Cardinality(Open(j)) \in Nat /\ Cardinality(Open(j)') \in Nat
    BY <2>3, FS_Subset, FS_CardinalityType
  <2>5. S + Cardinality(Open(j)') <= R
    BY <2>2, <2>3, <2>4
  <2> QED
    BY <2>4, <2>5 DEF Balanced, Positions
<1> QED
  BY <1>1, <1>2 DEF EventsInv

\* One more event is one more position of its stage.
LEMMA PositionsAppend ==
  ASSUME NEW s \in Seq(Event), NEW e \in Event, NEW stage
  PROVE  /\ Len(Append(s, e)) = Len(s) + 1
         /\ \A m \in 0..Len(s) : Positions(Append(s, e), m, stage) = Positions(s, m, stage)
         /\ Cardinality(Positions(Append(s, e), Len(s) + 1, stage)) =
              Cardinality(Positions(s, Len(s), stage)) + (IF e.stage = stage THEN 1 ELSE 0)
<1> DEFINE n == Len(s)
           t == Append(s, e)
<1>1. /\ n \in Nat /\ Len(t) = n + 1 /\ t[n + 1] = e
      /\ \A i \in 1..n : t[i] = s[i]
  OBVIOUS
<1> HIDE DEF n, t
<1>2. ASSUME NEW m \in 0..n PROVE Positions(t, m, stage) = Positions(s, m, stage)
  BY <1>1 DEF Positions
<1>3. Positions(t, n + 1, stage) =
        Positions(s, n, stage) \cup (IF e.stage = stage THEN {n + 1} ELSE {})
  BY <1>1 DEF Positions
<1>4. n + 1 \notin Positions(s, n, stage)
  BY <1>1 DEF Positions
<1>5. IsFiniteSet(Positions(s, n, stage)) /\ Cardinality(Positions(s, n, stage)) \in Nat
  BY <1>1, PositionsFinite
<1>6. Cardinality(Positions(s, n, stage) \cup {n + 1}) = Cardinality(Positions(s, n, stage)) + 1
  BY <1>4, <1>5, FS_AddElement
<1>7. Cardinality(Positions(t, n + 1, stage)) =
        Cardinality(Positions(s, n, stage)) + (IF e.stage = stage THEN 1 ELSE 0)
  <2>1. CASE e.stage = stage
    BY <1>3, <1>6, <2>1
  <2>2. CASE e.stage # stage
    <3>1. Positions(t, n + 1, stage) = Positions(s, n, stage)
      BY <1>3, <2>2
    <3> QED
      BY <1>5, <2>2, <3>1
  <2> QED
    BY <2>1, <2>2
<1> QED
  BY <1>1, <1>2, <1>7 DEF n, t

\* Appending the event of a request: a start opens a run, a success closes the
\* one that its request had opened, the other stages count for nothing.
LEMMA EventAppendKeeps ==
  ASSUME RunTypeOK, EventsInv, NEW r \in Requests, EventAppend(r)
  PROVE  EventsInv'
<1>1. PICK k \in Jobs : k = job[r]
  BY DEF RunTypeOK
<1>2. PICK e \in Event : e.stage = goal[r] /\ events' = [events EXCEPT ![k] = Append(@, e)]
  <2>1. [id |-> seq[r], stage |-> goal[r]] \in Event
    BY DEF Event, RunTypeOK
  <2> QED
    BY <1>1, <2>1 DEF EventAppend
<1>3. PICK s \in Seq(Event) : s = events[k]
  BY DEF RunTypeOK
<1>4. events'[k] = Append(s, e) /\ \A j \in Jobs : j # k => events'[j] = events[j]
  BY <1>2, <1>3 DEF RunTypeOK
<1>5. /\ job' = job /\ goal' = goal /\ pc[r] = "event_append"
      /\ pc' = [pc EXCEPT ![r] = IF goal[r] = "RUNNING" THEN "execute" ELSE "replied"]
  BY DEF EventAppend, Goto, thread
<1>6. ASSUME NEW j \in Jobs, j # k PROVE Balanced(j)'
  <2>1. Open(j)' = Open(j)
    BY <1>1, <1>5, <1>6 DEF Open, RunTypeOK
  <2>2. events'[j] = events[j]
    BY <1>4, <1>6
  <2> QED
    BY <2>1, <2>2 DEF EventsInv, Balanced, Positions
<1> DEFINE S == Cardinality(Positions(s, Len(s), "SUCCEEDED"))
           R == Cardinality(Positions(s, Len(s), "RUNNING"))
           S1 == Cardinality(Positions(Append(s, e), Len(s) + 1, "SUCCEEDED"))
           R1 == Cardinality(Positions(Append(s, e), Len(s) + 1, "RUNNING"))
           O == Cardinality(Open(k))
           O1 == Cardinality(Open(k)')
<1>7. S \in Nat /\ R \in Nat
  BY PositionsFinite
<1>8. IsFiniteSet(Open(k)) /\ S + O <= R /\ O \in Nat
  BY <1>3, FS_CardinalityType DEF EventsInv, Balanced
<1>9. /\ S1 = S + (IF goal[r] = "SUCCEEDED" THEN 1 ELSE 0)
      /\ R1 = R + (IF goal[r] = "RUNNING" THEN 1 ELSE 0)
  BY <1>2, PositionsAppend
<1> HIDE DEF S, R, S1, R1
<1>10. IsFiniteSet(Open(k)') /\ O1 \in Nat /\ S1 + O1 <= R1
  <2>1. CASE goal[r] = "RUNNING"
    <3>1. Open(k)' = Open(k) \cup {r} /\ r \notin Open(k)
      BY <1>1, <1>5, <2>1 DEF Open, RunTypeOK
    <3>2. IsFiniteSet(Open(k)') /\ O1 = O + 1
      BY <1>8, <3>1, FS_AddElement
    <3> QED
      BY <1>7, <1>8, <1>9, <2>1, <3>2
  <2>2. CASE goal[r] = "SUCCEEDED"
    <3>1. Open(k)' = Open(k) \ {r} /\ r \in Open(k)
      BY <1>1, <1>5, <2>2 DEF Open, RunTypeOK
    <3>2. IsFiniteSet(Open(k)') /\ O1 = O - 1
      BY <1>8, <3>1, FS_RemoveElement
    <3>3. O1 \in Nat
      BY <3>2, FS_CardinalityType
    <3> QED
      BY <1>7, <1>8, <1>9, <2>2, <3>2, <3>3
  <2>3. CASE goal[r] \notin {"RUNNING", "SUCCEEDED"}
    <3>1. Open(k)' = Open(k)
      BY <1>1, <1>5, <2>3 DEF Open, RunTypeOK
    <3> QED
      BY <1>7, <1>8, <1>9, <2>3, <3>1
  <2> QED
    BY <2>1, <2>2, <2>3
<1>11. Len(events'[k]) = Len(s) + 1
  BY <1>4
<1>12. Balanced(k)'
  BY <1>4, <1>10, <1>11 DEF Balanced, S1, R1
<1>13. S1 <= R1
  BY <1>7, <1>9, <1>10
<1>14. ASSUME NEW j \in Jobs, NEW m \in 0..Len(events'[j])
       PROVE  Cardinality(Positions(events'[j], m, "SUCCEEDED"))
                <= Cardinality(Positions(events'[j], m, "RUNNING"))
  <2>1. CASE j # k
    <3>1. events'[j] = events[j]
      BY <1>4, <2>1
    <3> QED
      BY <1>14, <3>1 DEF EventsInv, StartedBeforeSucceeded
  <2>2. CASE j = k /\ m \in 0..Len(s)
    <3>1. Cardinality(Positions(s, m, "SUCCEEDED")) <= Cardinality(Positions(s, m, "RUNNING"))
      BY <1>3, <2>2 DEF EventsInv, StartedBeforeSucceeded
    <3>2. \A stage : Positions(Append(s, e), m, stage) = Positions(s, m, stage)
      BY <2>2, PositionsAppend
    <3> QED
      BY <1>4, <2>2, <3>1, <3>2
  <2>3. CASE j = k /\ m = Len(s) + 1
    BY <1>4, <1>13, <2>3 DEF S1, R1
  <2> QED
    BY <1>11, <1>14, <2>1, <2>2, <2>3
<1>15. StartedBeforeSucceeded'
  BY <1>14 DEF StartedBeforeSucceeded
<1> QED
  BY <1>6, <1>12, <1>15 DEF EventsInv

\* Every step of the run path keeps the balance.
LEMMA RunStepEvents ==
  ASSUME RunTypeOK, EventsInv, NEW r \in Requests, RunStep(r)
  PROVE  EventsInv'
<1>1. CASE EventAppend(r)
  BY <1>1, EventAppendKeeps
<1>2. CASE ~EventAppend(r)
  <2>1. events' = events
    BY <1>2 DEF RunStep, RouteRead, Preflight, WorkerRead, EventLen, RunFixture,
         RunReplay, StoreArtifact, FailCheck, shared
  <2>2. \A j \in Jobs : Open(j)' \subseteq Open(j)
    BY <1>2 DEF Open, RunTypeOK, RunStep, RouteRead, Preflight, WorkerRead, EventLen,
         RunFixture, RunReplay, StoreArtifact, FailCheck, shared, thread, Goto
  <2> QED
    BY <2>1, <2>2, EventsKept
<1> QED
  BY <1>1, <1>2

-----------------------------------------------------------------------------
\* A record that shows a cancellation or fixture evidence.
Tainted(rec) == rec.cancel \/ rec.refs = "fixture"

\* A transition taints a record only with the fixture evidence of its thread.
LEMMA TaintOfCopy ==
  ASSUME NEW rec, NEW g, NEW m
  PROVE  /\ ~Tainted(NewJob) /\ ~Tainted(NoJob)
         /\ Tainted(Transitioned(rec, g, m)) => Tainted(rec) \/ m = "fixture"
<1>1. ~Tainted(NewJob) /\ ~Tainted(NoJob)
  BY DEF Tainted, NewJob, NoJob
<1>2. /\ Transitioned(rec, g, m).cancel = rec.cancel
      /\ Transitioned(rec, g, m).refs = IF g = "SUCCEEDED" THEN m ELSE rec.refs
  BY DEF Transitioned
<1>3. Tainted(Transitioned(rec, g, m)) => Tainted(rec) \/ m = "fixture"
  BY <1>2, Zenon DEF Tainted
<1> QED
  BY <1>1, <1>3

\* A step of the run path takes back no request to cancel, and selects the
\* fixture branch only where the route reads a cancellation.
LEMMA RunStepAsked ==
  ASSUME RunInv, NEW r \in Requests, RunStep(r)
  PROVE  /\ job' = job /\ op' = op
         /\ \A q \in Requests : pc[q] # "new" => pc'[q] # "new"
         /\ \A j \in Jobs : CancelAsked(j) => CancelAsked(j)'
         /\ \A q \in Requests : mode'[q] = "fixture" =>
              \/ mode[q] = "fixture"
              \/ Tainted(jobs[job[q]]) /\ q = r /\ RouteRead(r)
<1>1. job' = job /\ op' = op
  BY DEF RunStep, RouteRead, Preflight, WorkerRead, EventLen, EventAppend,
         RunFixture, RunReplay, StoreArtifact, FailCheck, shared, thread
<1>2. \A q \in Requests : pc[q] # "new" => pc'[q] # "new"
  BY DEF RunInv, RunTypeOK, RunStep, RouteRead, Preflight, WorkerRead, EventLen, EventAppend,
         RunFixture, RunReplay, StoreArtifact, FailCheck, shared, thread, Goto
<1>3. \A j \in Jobs : CancelAsked(j) => CancelAsked(j)'
  BY <1>1, <1>2 DEF CancelAsked
<1>4. ASSUME NEW q \in Requests, mode'[q] = "fixture", mode[q] # "fixture"
      PROVE  Tainted(jobs[job[q]]) /\ q = r /\ RouteRead(r)
  <2>1. mode' # mode
    BY <1>4
  <2>2. RouteRead(r)
    BY <2>1 DEF RunStep, Preflight, WorkerRead, EventLen, EventAppend,
         RunFixture, RunReplay, StoreArtifact, FailCheck, shared, thread
  <2>3. q = r
    BY <1>4, <2>2 DEF RouteRead, RunInv, RunTypeOK
  <2>4. jobs[job[r]].cancel
    BY <2>1, <2>2, Zenon DEF RouteRead
  <2> QED
    BY <2>2, <2>3, <2>4, Zenon DEF Tainted
<1> QED
  BY <1>1, <1>2, <1>3, <1>4
=============================================================================
