----------------------------- MODULE BacktestRun -----------------------------
(***************************************************************************)
(* The run path of a backtest job, as one HTTP request executes it: the    *)
(* route POST /api/backtest-jobs/{id}/run (backtest_execution.py), the     *)
(* worker function it calls (nautilus_backtest_worker.py), the runtime     *)
(* event service and the local artifact store.                             *)
(*                                                                         *)
(* FastAPI runs every route in a thread of its pool and the services hold  *)
(* no lock, so one step below is one access of shared state; what a thread *)
(* read before is kept in its local variables.  How a job record is        *)
(* created, changed and cancelled depends on the store and is added by     *)
(* BacktestJobsMemory and BacktestJobsPostgres, which extend this module.  *)
(*                                                                         *)
(* A job id is a digest of the canonical creation payload, so one element  *)
(* of Jobs stands for a job id and for its creation key.                   *)
(***************************************************************************)
EXTENDS Naturals, Sequences, FiniteSets

CONSTANTS Requests,   \* HTTP requests; each is handled once, by one thread
          Jobs        \* job ids, equivalently canonical creation payloads

VARIABLES jobs,       \* the records get_job reads, by id
          events,     \* the runtime event stream of each job
          artifacts,  \* jobs whose replay artifact is in the artifact store
          pc,         \* where the thread of a request stands
          op,         \* what the request asks for
          job,        \* the job it is about
          goal,       \* the stage it is writing or reporting
          mode,       \* how its worker call produces evidence
          seq         \* the event number it computed before appending

shared == <<jobs, events, artifacts>>
thread == <<op, job, goal, mode, seq>>
runVars == <<shared, pc, thread>>

-----------------------------------------------------------------------------
Stages == {"CREATED", "RUNNING", "SUCCEEDED", "FAILED", "CANCEL_REQUESTED"}
Goals == Stages \ {"CREATED"}

\* result_artifact_refs: empty, the stored replay artifact, or the refs of the
\* fixture runner, which name no stored artifact
Refs == {"none", "replay", "fixture"}
Modes == Refs \ {"none"}

JobRecord == [stage : Stages, cancel : BOOLEAN, refs : Refs]
NewJob == [stage |-> "CREATED", cancel |-> FALSE, refs |-> "none"]
NoJob == [stage |-> "ABSENT", cancel |-> FALSE, refs |-> "none"]

Event == [id : Nat, stage : Goals]

Ops == {"create", "cancel", "run"}
Ended == {"replied", "raised"}
Labels == Ended \cup
  {"new", "create_store", "create_index", "cancel_write", "cancel_index",
   "preflight", "worker", "trans_read", "trans_write", "trans_index",
   "event_len", "event_append", "execute", "store_artifact", "fail_check"}

Exists(j) == jobs[j] # NoJob

\* Faulty variants: success without refs; a record rebuilt instead of copied.
TransitionedNoRefs(rec, stage, refs) == [rec EXCEPT !.stage = stage]
TransitionedAfresh(rec, stage, refs) ==
  [stage |-> stage, cancel |-> FALSE, refs |-> IF stage = "SUCCEEDED" THEN refs ELSE "none"]

\* What model_copy(update=...) leaves of a record when the stage is written;
\* the refs are replaced only on success (result_artifact_refs is not None).
Transitioned(rec, stage, refs) ==
  [stage |-> stage, cancel |-> rec.cancel,
   refs |-> IF stage = "SUCCEEDED" THEN refs ELSE rec.refs]

CancelRequested(rec) ==
  [stage |-> "CANCEL_REQUESTED", cancel |-> TRUE, refs |-> rec.refs]

-----------------------------------------------------------------------------
RunInit ==
  /\ jobs = [j \in Jobs |-> NoJob]
  /\ events = [j \in Jobs |-> <<>>]
  /\ artifacts = {}
  /\ pc = [r \in Requests |-> "new"]
  /\ op \in [Requests -> Ops]
  /\ job \in [Requests -> Jobs]
  /\ goal = [r \in Requests |-> "RUNNING"]
  /\ mode = [r \in Requests |-> "replay"]
  /\ seq = [r \in Requests |-> 0]

Goto(r, label) == pc' = [pc EXCEPT ![r] = label]

\* Faulty variant: the route forgets to pass store, spec and dataset on.
RouteReadNoStore(r) ==
  /\ pc[r] = "new"
  /\ op[r] = "run"
  /\ Goto(r, IF Exists(job[r]) THEN "worker" ELSE "replied")
  /\ mode' = [mode EXCEPT ![r] = "fixture"]
  /\ UNCHANGED <<shared, op, job, goal, seq>>

\* get_job in the route: 404 without a record; a job whose cancellation is
\* already requested goes to the worker without store, spec and dataset, which
\* selects the fixture branch there should the worker not see the request.
RouteRead(r) ==
  /\ pc[r] = "new"
  /\ op[r] = "run"
  /\ IF ~Exists(job[r]) THEN Goto(r, "replied") /\ UNCHANGED mode
     ELSE IF jobs[job[r]].cancel
     THEN Goto(r, "worker") /\ mode' = [mode EXCEPT ![r] = "fixture"]
     ELSE Goto(r, "preflight") /\ UNCHANGED mode
  /\ UNCHANGED <<shared, op, job, goal, seq>>

\* Dependency check, spec lookup, compile-hash comparison and dataset
\* selection.  They depend on state outside this model, so every outcome is
\* possible: proceed, answer 422 or 403, or raise a ValueError, which the route
\* treats as a failure of the run.
Preflight(r) ==
  /\ pc[r] = "preflight"
  /\ \E label \in {"worker", "replied", "fail_check"} : Goto(r, label)
  /\ UNCHANGED <<shared, thread>>

\* Faulty variant: the worker does not look at cancel_requested.
WorkerReadUnchecked(r) ==
  /\ pc[r] = "worker"
  /\ Goto(r, "trans_read")
  /\ goal' = [goal EXCEPT ![r] = "RUNNING"]
  /\ UNCHANGED <<shared, op, job, mode, seq>>

\* run_backtest_job reads the job again and reports a requested cancellation
\* with an event only; otherwise it moves the job to RUNNING.
WorkerRead(r) ==
  /\ pc[r] = "worker"
  /\ IF jobs[job[r]].cancel
     THEN Goto(r, "event_len") /\ goal' = [goal EXCEPT ![r] = "CANCEL_REQUESTED"]
     ELSE Goto(r, "trans_read") /\ goal' = [goal EXCEPT ![r] = "RUNNING"]
  /\ UNCHANGED <<shared, op, job, mode, seq>>

\* append_event counts the events already in the stream ...
EventLen(r) ==
  /\ pc[r] = "event_len"
  /\ seq' = [seq EXCEPT ![r] = Len(events[job[r]]) + 1]
  /\ Goto(r, "event_append")
  /\ UNCHANGED <<shared, op, job, goal, mode>>

\* Faulty variant: the start of a run is not reported.
EventAppendEndOnly(r) ==
  /\ pc[r] = "event_append"
  /\ events' = IF goal[r] = "RUNNING" THEN events
               ELSE [events EXCEPT ![job[r]] = Append(@, [id |-> seq[r], stage |-> goal[r]])]
  /\ Goto(r, IF goal[r] = "RUNNING" THEN "execute" ELSE "replied")
  /\ UNCHANGED <<jobs, artifacts, thread>>

\* ... and appends the event with that number.
EventAppend(r) ==
  /\ pc[r] = "event_append"
  /\ events' = [events EXCEPT ![job[r]] = Append(@, [id |-> seq[r], stage |-> goal[r]])]
  /\ Goto(r, IF goal[r] = "RUNNING" THEN "execute" ELSE "replied")
  /\ UNCHANGED <<jobs, artifacts, thread>>

\* run_backtest_fixture, which cannot fail here and stores nothing.
RunFixture(r) ==
  /\ pc[r] = "execute"
  /\ mode[r] = "fixture"
  /\ goal' = [goal EXCEPT ![r] = "SUCCEEDED"]
  /\ Goto(r, "trans_read")
  /\ UNCHANGED <<shared, op, job, mode, seq>>

\* Faulty variant: a ValueError of the replay is answered and not recorded.
RunReplayUnrecorded(r) ==
  /\ pc[r] = "execute"
  /\ mode[r] = "replay"
  /\ \E label \in {"store_artifact", "replied", "raised"} : Goto(r, label)
  /\ UNCHANGED <<shared, thread>>

\* run_strategy_spec_catalog_replay: evidence, a ValueError (missing catalog,
\* dataset mismatch) handled by the route, or another exception, which is not.
RunReplay(r) ==
  /\ pc[r] = "execute"
  /\ mode[r] = "replay"
  /\ \E label \in {"store_artifact", "fail_check", "raised"} : Goto(r, label)
  /\ UNCHANGED <<shared, thread>>

\* Faulty variant: success is recorded and the artifact is not written.
StoreArtifactSkipped(r) ==
  /\ pc[r] = "store_artifact"
  /\ goal' = [goal EXCEPT ![r] = "SUCCEEDED"]
  /\ Goto(r, "trans_read")
  /\ UNCHANGED <<shared, op, job, mode, seq>>

\* put_json: an atomic rename of a complete file, or an exception before it.
StoreArtifact(r) ==
  /\ pc[r] = "store_artifact"
  /\ \/ /\ artifacts' = artifacts \cup {job[r]}
        /\ goal' = [goal EXCEPT ![r] = "SUCCEEDED"]
        /\ Goto(r, "trans_read")
     \/ /\ \E label \in {"fail_check", "raised"} : Goto(r, label)
        /\ UNCHANGED <<artifacts, goal>>
  /\ UNCHANGED <<jobs, events, op, job, mode, seq>>

\* _record_run_failure_if_started: only a job found RUNNING is marked FAILED,
\* whichever request it was that started it.
FailCheck(r) ==
  /\ pc[r] = "fail_check"
  /\ IF jobs[job[r]].stage = "RUNNING"
     THEN Goto(r, "trans_read") /\ goal' = [goal EXCEPT ![r] = "FAILED"]
     ELSE Goto(r, "replied") /\ UNCHANGED goal
  /\ UNCHANGED <<shared, op, job, mode, seq>>

RunStep(r) ==
  \/ RouteRead(r) \/ Preflight(r) \/ WorkerRead(r)
  \/ EventLen(r) \/ EventAppend(r)
  \/ RunFixture(r) \/ RunReplay(r) \/ StoreArtifact(r) \/ FailCheck(r)

-----------------------------------------------------------------------------
RunTypeOK ==
  /\ jobs \in [Jobs -> JobRecord \cup {NoJob}]
  /\ events \in [Jobs -> Seq(Event)]
  /\ artifacts \subseteq Jobs
  /\ pc \in [Requests -> Labels]
  /\ op \in [Requests -> Ops]
  /\ job \in [Requests -> Jobs]
  /\ goal \in [Requests -> Goals]
  /\ mode \in [Requests -> Modes]
  /\ seq \in [Requests -> Nat]

\* A record may name only evidence that exists: SUCCEEDED comes with refs, and
\* the replay ref names an artifact that is already in the store.
Backed(j, rec) ==
  /\ rec.stage = "SUCCEEDED" => rec.refs # "none"
  /\ rec.refs = "replay" => j \in artifacts

\* A request between writing RUNNING and writing the stage that ends its run,
\* or one that ended with an unexpected exception in between.
Owner(r) ==
  \/ goal[r] = "RUNNING" /\ pc[r] \in {"trans_index", "event_len", "event_append",
                                       "execute", "store_artifact", "fail_check", "raised"}
  \/ goal[r] \in {"SUCCEEDED", "FAILED"} /\ pc[r] \in {"trans_read", "trans_write", "raised"}

\* Evidence before success.  Every record that get_job can return is backed by
\* what is stored: the worker puts the artifact before it writes SUCCEEDED, and
\* no interleaving of runs, cancellations and duplicate creations undoes that.
EvidenceBacked == \A j \in Jobs : Backed(j, jobs[j])

\* Somebody answers for a RUNNING job: a request that will still end the run,
\* or one that died with an exception.  Racing failures, cancellations and
\* duplicate runs never leave a job RUNNING behind their back.
RunningHasOwner ==
  \A j \in Jobs : jobs[j].stage = "RUNNING" =>
    \E r \in Requests : job[r] = j /\ op[r] = "run" /\ Owner(r)

\* In the event stream a run starts before it succeeds: up to every point it
\* holds at least as many RUNNING events as SUCCEEDED ones, though the streams
\* are shared by all requests that run the job.
Positions(s, n, stage) == {i \in 1..n : s[i].stage = stage}
StartedBeforeSucceeded ==
  \A j \in Jobs : \A n \in 0..Len(events[j]) :
    Cardinality(Positions(events[j], n, "SUCCEEDED"))
      <= Cardinality(Positions(events[j], n, "RUNNING"))

\* Some request to cancel the job has been taken up.
CancelAsked(j) == \E r \in Requests : job[r] = j /\ op[r] = "cancel" /\ pc[r] # "new"

\* The fixture branch of the worker is reached through the API only when some
\* request asked to cancel the job (the route saw cancel_requested and the
\* worker, reading again, did not).
FixtureOnlyAfterCancel == \A j \in Jobs : jobs[j].refs = "fixture" => CancelAsked(j)

\* The run route promises the backend-owned BacktestNode path
\* (backtest_execution.py:34 and the mode of its response, line 173): no job
\* run through it succeeds on fixture evidence.
NoFixtureEvidence == \A j \in Jobs : jobs[j].refs # "fixture"

\* A RUNNING job does not stay RUNNING, unless a request of that job ended with
\* an unexpected exception.
RunsSettle ==
  \A j \in Jobs : jobs[j].stage = "RUNNING" ~>
    \/ jobs[j].stage # "RUNNING"
    \/ \E r \in Requests : job[r] = j /\ pc[r] = "raised"
=============================================================================
