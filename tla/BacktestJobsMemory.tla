-------------------------- MODULE BacktestJobsMemory --------------------------
(***************************************************************************)
(* Backtest jobs kept by BacktestJobService (packages/backtest_jobs/       *)
(* service.py): two dictionaries, by id and by creation key, and records   *)
(* replaced as a whole by model_copy.  Every change reads the record,      *)
(* copies it, stores the copy by id and then stores it by key; other       *)
(* threads run in between.                                                 *)
(***************************************************************************)
EXTENDS BacktestRun

VARIABLES byKey,   \* _jobs_by_key; jobs is _jobs_by_id
          copy     \* the record a thread copied and is about to store

vars == <<runVars, byKey, copy>>

Init ==
  /\ RunInit
  /\ byKey = [j \in Jobs |-> NoJob]
  /\ copy = [r \in Requests |-> NoJob]

-----------------------------------------------------------------------------
\* create_job: an existing record is returned, otherwise a new one is built.
CreateLookup(r) ==
  /\ pc[r] = "new"
  /\ op[r] = "create"
  /\ IF byKey[job[r]] # NoJob
     THEN Goto(r, "replied") /\ UNCHANGED copy
     ELSE Goto(r, "create_store") /\ copy' = [copy EXCEPT ![r] = NewJob]
  /\ UNCHANGED <<shared, thread, byKey>>

\* _jobs_by_key[key] = job ...
CreateStore(r) ==
  /\ pc[r] = "create_store"
  /\ byKey' = [byKey EXCEPT ![job[r]] = copy[r]]
  /\ Goto(r, "create_index")
  /\ UNCHANGED <<shared, thread, copy>>

\* ... then _jobs_by_id[job.job_id] = job.
CreateIndex(r) ==
  /\ pc[r] = "create_index"
  /\ jobs' = [jobs EXCEPT ![job[r]] = copy[r]]
  /\ Goto(r, "replied")
  /\ UNCHANGED <<events, artifacts, thread, byKey, copy>>

\* request_cancel, whatever the stage of the job; 404 without a record.
CancelRead(r) ==
  /\ pc[r] = "new"
  /\ op[r] = "cancel"
  /\ IF Exists(job[r])
     THEN /\ copy' = [copy EXCEPT ![r] = CancelRequested(jobs[job[r]])]
          /\ Goto(r, "cancel_write")
     ELSE Goto(r, "replied") /\ UNCHANGED copy
  /\ UNCHANGED <<shared, thread, byKey>>

\* transition_job, called by the worker and by the failure handler.
TransRead(r) ==
  /\ pc[r] = "trans_read"
  /\ copy' = [copy EXCEPT ![r] = Transitioned(jobs[job[r]], goal[r], mode[r])]
  /\ Goto(r, "trans_write")
  /\ UNCHANGED <<shared, thread, byKey>>

\* The copy replaces the record by id, with all its fields ...
WriteById(r) ==
  /\ pc[r] \in {"cancel_write", "trans_write"}
  /\ jobs' = [jobs EXCEPT ![job[r]] = copy[r]]
  /\ Goto(r, IF pc[r] = "cancel_write" THEN "cancel_index" ELSE "trans_index")
  /\ UNCHANGED <<events, artifacts, thread, byKey, copy>>

\* ... and then by key.
WriteByKey(r) ==
  /\ pc[r] \in {"cancel_index", "trans_index"}
  /\ byKey' = [byKey EXCEPT ![job[r]] = copy[r]]
  /\ Goto(r, IF pc[r] = "cancel_index" THEN "replied" ELSE "event_len")
  /\ UNCHANGED <<shared, thread, copy>>

Step(r) ==
  \/ RunStep(r) /\ UNCHANGED <<byKey, copy>>
  \/ CreateLookup(r) \/ CreateStore(r) \/ CreateIndex(r)
  \/ CancelRead(r) \/ TransRead(r) \/ WriteById(r) \/ WriteByKey(r)

\* All requests answered: nothing is left to do.
Finished == (\A r \in Requests : pc[r] \in Ended) /\ UNCHANGED vars

Next == (\E r \in Requests : Step(r)) \/ Finished

Spec == Init /\ [][Next]_vars

-----------------------------------------------------------------------------
TypeOK ==
  /\ RunTypeOK
  /\ byKey \in [Jobs -> JobRecord \cup {NoJob}]
  /\ copy \in [Requests -> JobRecord \cup {NoJob}]

\* Evidence also backs what create_job returns from the key dictionary, and the
\* copies that threads hold between reading and storing.
EvidenceBackedEverywhere ==
  /\ EvidenceBacked
  /\ \A j \in Jobs : Backed(j, byKey[j])
  /\ \A r \in Requests : Backed(job[r], copy[r])
=============================================================================
