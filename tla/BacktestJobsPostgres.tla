------------------------- MODULE BacktestJobsPostgres -------------------------
(***************************************************************************)
(* Backtest jobs kept in Postgres: PostgresBacktestJobService              *)
(* (packages/backtest_jobs/postgres_service.py) over                       *)
(* PostgresBacktestJobRepository (packages/postgres/                       *)
(* backtest_job_repository.py).  A change is one SQL statement on the      *)
(* columns it names, so a thread carries no copy of the record; rows are   *)
(* never deleted, so the get_job before an UPDATE decides nothing but the  *)
(* 404.  Any statement may fail, before or after the server applied it,    *)
(* and that exception leaves the route.  The process may be killed: rows   *)
(* and artifacts survive, the runtime events (always in memory) and the    *)
(* requests under way do not.                                              *)
(***************************************************************************)
EXTENDS BacktestRun

CONSTANT MaxCrashes          \* bound: how often the process is killed
ASSUME MaxCrashesAssumption == MaxCrashes \in Nat

VARIABLE crashes

vars == <<runVars, crashes>>

Init == RunInit /\ crashes = 0

-----------------------------------------------------------------------------
\* create_job scans all rows for one with the same canonical payload ...
CreateScan(r) ==
  /\ pc[r] = "new"
  /\ op[r] = "create"
  /\ Goto(r, IF Exists(job[r]) THEN "replied" ELSE "create_store")
  /\ UNCHANGED <<shared, thread, crashes>>

\* ... and saves a new record; ON CONFLICT (job_id) DO UPDATE overwrites the
\* stage, refs and cancellation of a row inserted since the scan.
CreateSave(r) ==
  /\ pc[r] = "create_store"
  /\ jobs' = [jobs EXCEPT ![job[r]] = NewJob]
  /\ \E label \in {"replied", "raised"} : Goto(r, label)
  /\ UNCHANGED <<events, artifacts, thread, crashes>>

\* request_cancel: get_job for the 404 ...
CancelRead(r) ==
  /\ pc[r] = "new"
  /\ op[r] = "cancel"
  /\ Goto(r, IF Exists(job[r]) THEN "cancel_write" ELSE "replied")
  /\ UNCHANGED <<shared, thread, crashes>>

\* ... then the UPDATE of the stage columns and cancel_requested.
CancelUpdate(r) ==
  /\ pc[r] = "cancel_write"
  /\ jobs' = [jobs EXCEPT ![job[r]] = CancelRequested(@)]
  /\ \E label \in {"replied", "raised"} : Goto(r, label)
  /\ UNCHANGED <<events, artifacts, thread, crashes>>

\* transition_job: update_status on the row as it is now.
TransUpdate(r) ==
  /\ pc[r] = "trans_read"
  /\ jobs' = [jobs EXCEPT ![job[r]] = Transitioned(@, goal[r], mode[r])]
  /\ \E label \in {"event_len", "raised"} : Goto(r, label)
  /\ UNCHANGED <<events, artifacts, thread, crashes>>

\* A statement fails without having been applied.
SqlLabels == {"create_store", "cancel_write", "preflight", "worker", "trans_read", "fail_check"}
StatementFails(r) ==
  /\ pc[r] \in SqlLabels
  /\ Goto(r, "raised")
  /\ UNCHANGED <<shared, thread, crashes>>

\* The API process is killed and started again.
Crash ==
  /\ crashes < MaxCrashes
  /\ crashes' = crashes + 1
  /\ pc' = [r \in Requests |-> IF pc[r] \in Ended \cup {"new"} THEN pc[r] ELSE "raised"]
  /\ events' = [j \in Jobs |-> <<>>]
  /\ UNCHANGED <<jobs, artifacts, thread>>

Step(r) ==
  \/ RunStep(r) /\ UNCHANGED crashes
  \/ CreateScan(r) \/ CreateSave(r)
  \/ CancelRead(r) \/ CancelUpdate(r) \/ TransUpdate(r) \/ StatementFails(r)

\* All requests answered: nothing is left to do.
Finished == (\A r \in Requests : pc[r] \in Ended) /\ UNCHANGED vars

Next == (\E r \in Requests : Step(r)) \/ Crash \/ Finished

Spec == Init /\ [][Next]_vars

\* Every thread of the pool is scheduled again and again.
FairSpec == Spec /\ \A r \in Requests : WF_vars(Step(r))

-----------------------------------------------------------------------------
TypeOK == RunTypeOK /\ crashes \in 0..MaxCrashes

\* A recorded cancellation survives every concurrent transition: only the
\* upsert of a creation that scanned before the row existed can clear it.
CancelClearedOnlyByCreate ==
  [][\A j \in Jobs : jobs[j].cancel /\ ~jobs'[j].cancel =>
       \E r \in Requests : job[r] = j /\ pc[r] = "create_store" /\ pc'[r] # pc[r]]_vars

\* A creation of the job is over, whether it saved, found or failed.
CreateEnded(r, j) == job[r] = j /\ op[r] = "create" /\ pc[r] \in Ended

\* With rows updated column by column, fixture evidence needs even more than a
\* cancellation: two creations of the same job that raced, the second of which
\* cleared the cancellation between the route's read and the worker's.
FixtureOnlyAfterCreateRace ==
  \A j \in Jobs : jobs[j].refs = "fixture" =>
    /\ CancelAsked(j)
    /\ \E p, q \in Requests : p # q /\ CreateEnded(p, j) /\ CreateEnded(q, j)

\* "If an equivalent job already exists in Postgres, return it (idempotent)."
\* (postgres_service.py:37): a creation leaves an existing job alone.
CreateIsIdempotent ==
  [][\A r \in Requests : op[r] = "create" /\ pc'[r] # pc[r] /\ Exists(job[r])
       => jobs'[job[r]] = jobs[job[r]]]_vars

\* "worker observes state and exits safely" (doc/nautilus_builder_
\* implementation_prompts.md:215): a job whose cancellation is recorded does
\* not become SUCCEEDED.
CancelledNeverSucceeds ==
  \A j \in Jobs : ~(jobs[j].cancel /\ jobs[j].stage = "SUCCEEDED")

\* "On worker crash: RUNNING -> WORKER_LOST" (doc/nautilus_builder_
\* hardguards.md:435): a RUNNING job leaves RUNNING in the end.
RunningIsLeft ==
  \A j \in Jobs : jobs[j].stage = "RUNNING" ~> jobs[j].stage # "RUNNING"
=============================================================================
