----------------------------- MODULE WorkflowSpine -----------------------------
(***************************************************************************)
(* The workflow spine (packages/workflow_spine): one call creates a        *)
(* strategy, a version and a test job and announces them, later calls      *)
(* record a result and an AI suggestion.  Each save and each publish is a  *)
(* step of its own and may fail, and the process may be restarted.         *)
(*                                                                         *)
(* Ids are built from a counter in the service (itertools.count), so an id *)
(* is its number here.  store is the repository behind the service:        *)
(*   memory    dictionaries, gone after a restart                          *)
(*   sqlite    every table durable; its connection serves one thread       *)
(*   postgres  _PgWorkflowAdapter of fastapi_app.py: results go to the     *)
(*             dictionaries and to Postgres, all else to the dictionaries  *)
(* by is the request whose data a row holds: its display name, its project *)
(* and its AI thread.                                                      *)
(***************************************************************************)
EXTENDS Naturals, Sequences, FiniteSets, SequencesExt

CONSTANTS Requests,       \* calls of create_version_and_enqueue_test
          OfP,            \* the ones of project "p"; the others are of "q"
          Threaded,       \* the ones with an AI thread and an improvement cycle
          ResultIds, SuggestionIds, \* chosen by the callers
          MaxFaults       \* bound: failed steps and restarts
ASSUME SpineAssumption == IsFiniteSet(Requests) /\ "none" \notin Requests /\ MaxFaults \in Nat

VARIABLES store, counter,
          strategies, versions, jobs, suggestions, \* the dictionaries, by id
          results,        \* the result table, in the order of a listing
          copies,         \* postgres: the results in the dictionaries
          stream,         \* published events
          ctl,            \* per request: [at, id]; at is the last step done
          faults, restarts
spineVars == <<store, counter, strategies, versions, jobs, suggestions, results, copies,
               stream, ctl, faults, restarts>>

-----------------------------------------------------------------------------
None == [by |-> "none"]
Ids == 1..Cardinality(Requests)
Project(r) == IF r \in OfP THEN "p" ELSE "q"

StrategyIdentity == [by : Requests]
StrategyVersionIdentity == [by : Requests]
WorkflowJobRecord == [by : Requests]
WorkflowResultRecord == [by : Requests, id : ResultIds, job : Ids]
AiSuggestionRecord == [by : Requests, result : ResultIds, lineage : Ids, thread : Requests]

Empty(S) == [i \in S |-> None]
SpineInit ==
  /\ store \in {"memory", "sqlite", "postgres"}
  /\ counter = 0
  /\ strategies = Empty(Ids) /\ versions = Empty(Ids) /\ jobs = Empty(Ids)
  /\ suggestions = Empty(SuggestionIds) /\ results = <<>> /\ copies = Empty(ResultIds)
  /\ stream = {} /\ ctl = [r \in Requests |-> [at |-> "new", id |-> 0]]
  /\ faults = 0 /\ restarts = 0

-----------------------------------------------------------------------------
Busy(r) == ctl[r].at \notin {"new", "done", "failed"}
To(r, at) == ctl' = [ctl EXCEPT ![r].at = at]

\* next(self._counter)
TakeNumber(r) ==
  /\ ctl[r].at = "new"
  /\ store = "sqlite" => ~ \E q \in Requests : Busy(q)
  /\ counter' = counter + 1
  /\ ctl' = [ctl EXCEPT ![r] = [at |-> "numbered", id |-> counter + 1]]
  /\ UNCHANGED <<store, strategies, versions, jobs, suggestions, results, copies, stream,
                 faults, restarts>>

Tables == <<strategies, versions, jobs>>
SaveStrategy(r) == /\ ctl[r].at = "numbered" /\ To(r, "strategy")
                   /\ strategies' = [strategies EXCEPT ![ctl[r].id] = [by |-> r]]
                   /\ UNCHANGED <<versions, jobs, stream>>
SaveVersion(r) == /\ ctl[r].at = "strategy" /\ To(r, "version")
                  /\ versions' = [versions EXCEPT ![ctl[r].id] = [by |-> r]]
                  /\ UNCHANGED <<strategies, jobs, stream>>
SaveJob(r) == /\ ctl[r].at = "version" /\ To(r, "job")
              /\ jobs' = [jobs EXCEPT ![ctl[r].id] = [by |-> r]]
              /\ UNCHANGED <<strategies, versions, stream>>
PublishVersioned(r) == /\ ctl[r].at = "job" /\ To(r, "versioned")
                       /\ stream' = stream \cup {<<"strategy.versioned", ctl[r].id>>}
                       /\ UNCHANGED Tables
PublishEnqueued(r) == /\ ctl[r].at = "versioned" /\ To(r, "done")
                      /\ stream' = stream \cup {<<"test.enqueued", ctl[r].id>>}
                      /\ UNCHANGED Tables

\* Faulty: the job is announced before it is saved
CreateAnnouncedFirst(r) ==
  /\ \/ SaveStrategy(r) \/ SaveVersion(r) \/ SaveJob(r) \/ PublishVersioned(r)
     \/ PublishEnqueued(r)
     \/ /\ ctl[r].at = "version" /\ UNCHANGED <<ctl, strategies, versions, jobs>>
        /\ stream' = stream \cup {<<"test.enqueued", ctl[r].id>>}
  /\ UNCHANGED <<store, counter, suggestions, results, copies, faults, restarts>>
\* create_version_and_enqueue_test after its number was taken
CreateStep(r) ==
  /\ \/ SaveStrategy(r) \/ SaveVersion(r) \/ SaveJob(r)
     \/ PublishVersioned(r) \/ PublishEnqueued(r)
  /\ UNCHANGED <<store, counter, suggestions, results, copies, faults, restarts>>

\* a save or a publish raises; nothing is undone
CreateFails(r) ==
  /\ Busy(r) /\ faults < MaxFaults
  /\ faults' = faults + 1 /\ To(r, "failed")
  /\ UNCHANGED <<store, counter, strategies, versions, jobs, suggestions, results, copies,
                 stream, restarts>>

-----------------------------------------------------------------------------
Rank(K, k) == Cardinality({i \in K : i <= k})
\* The rows of s at the positions K, in their order: a filter, written as a
\* function of the rank.
Rows(s, K) == [n \in 1..Cardinality(K) |-> s[CHOOSE k \in K : Rank(K, k) = n]]
Others(i) == Rows(results, {k \in DOMAIN results : results[k].id # i})
\* A saved result goes to the end of a listing: the dictionary is sorted by
\* created_at, insert or replace makes a new rowid.  Postgres keeps the
\* created_at column of a result it replaces.
Saved(x) ==
  IF store = "postgres" /\ \E k \in DOMAIN results : results[k].id = x.id
  THEN [k \in DOMAIN results |-> IF results[k].id = x.id THEN x ELSE results[k]]
  ELSE Append(Others(x.id), x)

\* record_result_completed; with postgres the second of its two saves may fail
RecordResult(i, j) ==
  /\ jobs[j] # None
  /\ LET x == [by |-> jobs[j].by, id |-> i, job |-> j] IN
       /\ copies' = IF store = "postgres" THEN [copies EXCEPT ![i] = x] ELSE copies
       /\ \/ /\ results' = Saved(x)
             /\ stream' = stream \cup {<<"result.completed", i>>}
             /\ UNCHANGED faults
          \/ /\ store = "postgres" /\ faults < MaxFaults /\ faults' = faults + 1
             /\ UNCHANGED <<results, stream>>
  /\ UNCHANGED <<store, counter, strategies, versions, jobs, suggestions, ctl, restarts>>

\* repository.result: Postgres first, then the dictionary
Result(i) ==
  LET hits == {k \in DOMAIN results : results[k].id = i}
  IN  IF hits # {} THEN results[CHOOSE k \in hits : TRUE] ELSE copies[i]

SuggestionOf(x, v) == [by |-> x.by, result |-> x.id, lineage |-> x.job, thread |-> v.by]
\* record_suggestion_created: the version of the result must exist and carry a thread
RecordSuggestion(s, i) ==
  /\ Result(i) # None
  /\ LET x == Result(i)
         v == versions[x.job]
     IN  /\ v # None /\ v.by \in Threaded
         /\ suggestions' = [suggestions EXCEPT ![s] = SuggestionOf(x, v)]
  /\ stream' = stream \cup {<<"suggestion.created", s>>}
  /\ UNCHANGED <<store, counter, strategies, versions, jobs, results, copies, ctl, faults, restarts>>

\* the process dies and starts again: a new service counts from 1
Restart ==
  /\ faults < MaxFaults /\ faults' = faults + 1 /\ restarts' = restarts + 1
  /\ counter' = 0 /\ stream' = {}
  /\ ctl' = [r \in Requests |-> IF Busy(r) THEN [ctl[r] EXCEPT !.at = "failed"] ELSE ctl[r]]
  /\ copies' = Empty(ResultIds)
  /\ IF store = "sqlite" THEN UNCHANGED <<strategies, versions, jobs, suggestions>>
     ELSE /\ strategies' = Empty(Ids) /\ versions' = Empty(Ids) /\ jobs' = Empty(Ids)
          /\ suggestions' = Empty(SuggestionIds)
  /\ results' = IF store = "memory" THEN <<>> ELSE results
  /\ UNCHANGED store

SpineNext ==
  \/ \E r \in Requests : TakeNumber(r) \/ CreateStep(r) \/ CreateFails(r)
  \/ \E i \in ResultIds, j \in Ids : RecordResult(i, j)
  \/ \E s \in SuggestionIds, i \in ResultIds : RecordSuggestion(s, i)
  \/ Restart
SpineSpec == SpineInit /\ [][SpineNext]_spineVars

-----------------------------------------------------------------------------
Page(s, limit, offset) ==
  IF offset >= Len(s) THEN <<>>
  ELSE SubSeq(s, offset + 1, IF offset + limit > Len(s) THEN Len(s) ELSE offset + limit)
OfProject(s, p) == Rows(s, {k \in DOMAIN s : Project(s[k].by) = p})
Mine(p) == OfProject(results, p)
\* list_results: sqlite cuts the page before it looks at the project
ListResults(limit, offset, p) ==
  CASE store = "memory" -> Page(Mine(p), limit, offset)
    [] store = "postgres" -> Page(Reverse(Mine(p)), limit, offset)
    [] store = "sqlite" -> OfProject(Page(results, limit, offset), p)

\* suggestions_for_lineage with the caller's project: 403 when there are some
\* and none is the caller's
Suggested(l, p) == {s \in SuggestionIds : suggestions[s] # None /\ suggestions[s].lineage = l
                                          /\ Project(suggestions[s].by) = p}
\* WorkflowReadModel fed from the suggestions of the lineage: a result of
\* another lineage goes to the status of that one, and a result of another
\* project ends the request with 403
LineageStatus(l, p) ==
  LET shown == {Result(suggestions[s].result) : s \in Suggested(l, p)}
  IN  CASE \E s \in SuggestionIds : suggestions[s] # None /\ suggestions[s].lineage = l
                                    /\ Suggested(l, p) = {} -> "forbidden"
        [] Suggested(l, p) = {} /\ ~ \E s \in SuggestionIds :
              suggestions[s] # None /\ suggestions[s].lineage = l -> "not_found"
        [] Suggested(l, p) # {} /\ \E x \in shown : x # None /\ Project(x.by) # p -> "forbidden"
        [] OTHER -> IF \E x \in shown : x # None /\ x.job = l THEN "completed" ELSE "suggested"

-----------------------------------------------------------------------------
SpineTypeOK ==
  /\ counter \in 0..Cardinality(Requests)
  /\ strategies \in [Ids -> StrategyIdentity \cup {None}]
  /\ versions \in [Ids -> StrategyVersionIdentity \cup {None}]
  /\ jobs \in [Ids -> WorkflowJobRecord \cup {None}]
  /\ \A k \in DOMAIN results : results[k] \in WorkflowResultRecord
  /\ copies \in [ResultIds -> WorkflowResultRecord \cup {None}]
  /\ suggestions \in [SuggestionIds -> AiSuggestionRecord \cup {None}]
  /\ faults \in 0..MaxFaults /\ restarts \in 0..faults

\* A job found in the repository has its version and its strategy, and before
\* a restart all three hold the data of one request (service.py:69-71 saves in
\* this order).  After a restart over sqlite the numbers start again and a
\* half-finished request leaves the job of another one under its own strategy.
JobHasParents ==
  \A i \in Ids : jobs[i] # None =>
     /\ versions[i] # None /\ strategies[i] # None
     /\ restarts = 0 => versions[i] = jobs[i] /\ strategies[i] = jobs[i]

\* What is announced exists: a worker that reads test.enqueued finds the job,
\* and sees the version announced too.
AnnouncedIsSaved ==
  \A i \in Ids : <<"test.enqueued", i>> \in stream =>
     jobs[i] # None /\ <<"strategy.versioned", i>> \in stream

\* A job nobody will ever be told about exists only after a failed step: with
\* no request under way and no fault every saved job was announced
\* (service.py:71-97 undoes nothing).
StrandedOnlyAfterFault ==
  (faults = 0 /\ ~ \E r \in Requests : Busy(r)) =>
     \A i \in Ids : jobs[i] # None => <<"test.enqueued", i>> \in stream

\* A suggestion talks about a result in the AI thread of the request that
\* made the result's version.  After a restart the version is looked up under
\* a number that may have been given to another request (service.py:145).
SuggestionInOwnThread ==
  restarts = 0 => \A s \in SuggestionIds : suggestions[s] # None => suggestions[s].thread = suggestions[s].by

\* A client that reads pages until one is empty has seen every result of its
\* project, in memory and with Postgres; sqlite may answer an empty page first
\* (postgres_repository.py:164-177).
PagingFindsAll ==
  store # "sqlite" =>
    \A p \in {"p", "q"}, o \in 0..Len(results) :
       ListResults(1, o, p) = <<>> =>
         \A x \in Range(Mine(p)) : \E k \in 0..o : o > k /\ x \in Range(ListResults(1, k, p))

\* A caller is refused the status of a lineage of its own only when a result
\* id was used again for another job: result ids are chosen by the callers and
\* shared by all projects (workflow_results.py:101, service.py:111).
OwnStatusNotRefused ==
  restarts = 0 =>
    \A l \in Ids : (jobs[l] # None /\ LineageStatus(l, Project(jobs[l].by)) = "forbidden") =>
       \E s \in SuggestionIds : /\ suggestions[s] # None /\ suggestions[s].lineage = l
                               /\ Result(suggestions[s].result).job # l

\* The rows, events, pages and answers of the spine belong together: a job has
\* its parents and is announced only when saved, a suggestion stays in its
\* thread, and a caller finds its own results and their status
\* (StrategyTestWorkflowService over its repositories).
SpineIsConsistent ==
  /\ JobHasParents /\ AnnouncedIsSaved /\ StrandedOnlyAfterFault
  /\ SuggestionInOwnThread /\ PagingFindsAll /\ OwnStatusNotRefused
===============================================================================
