---------------------------- MODULE StrategyMemory ----------------------------
(***************************************************************************)
(* InMemoryStrategyRepository (packages/strategy_spec/repository.py): a    *)
(* list of specs per strategy id, and the user and project an id belongs   *)
(* to.  The API calls it from a pool of threads without a lock, so a       *)
(* request is a sequence of dictionary and list operations.                *)
(*                                                                         *)
(* A spec is its status and the request that posted it.  The id of a new   *)
(* strategy is strategy_ and the number of ids; the number stands for the  *)
(* id.  The demo strategies have ids of their own: Demo of them.           *)
(***************************************************************************)
EXTENDS Naturals, Sequences, FiniteSets

CONSTANTS Threads,      \* requests
          Demo          \* demo strategies, saved under explicit ids at startup
ASSUME MemoryAssumption == IsFiniteSet(Threads) /\ Demo \in Nat

VARIABLES records,      \* id -> list of specs, <<>> when the id is unknown
          scopes,       \* id -> the context of the last save, "none" before
          call,         \* per request: [op, who, at, id]
          seen,         \* per approval: the status it decided on
          saved,        \* ids returned by saves that ended
          raced         \* saves, or an approval and another write, overlapped
memoryVars == <<records, scopes, call, seen, saved, raced>>

-----------------------------------------------------------------------------
Users == {"alice", "bob"}
Numbers == 1..(Demo + Cardinality(Threads))
DemoNumbers == 1..Demo
StrategyStatus == {"draft", "validated", "backtested", "approved", "execution_ready"}
_PROMOTE_MAP == [backtested |-> "approved", approved |-> "execution_ready"]

Ops == {"save", "update_draft", "create_version", "approve_strategy", "clone_strategy"}
Known == {i \in Numbers : records[i] # <<>>}
Latest(i) == records[i][Len(records[i])]
StrategySpec(by, status) == [by |-> by, status |-> status]

\* seed_demo_strategies: save_explicit appends to the list of an explicit id
SaveExplicit(versions, spec) == Append(versions, spec)

MemoryInit ==
  /\ records = [i \in Numbers |->
        IF i \in DemoNumbers THEN SaveExplicit(<<>>, StrategySpec("alice", "backtested")) ELSE <<>>]
  /\ scopes = [i \in Numbers |-> IF i \in DemoNumbers THEN "alice" ELSE "none"]
  /\ call \in [Threads -> [op : Ops, who : Users, at : {"new"}, id : {0}]]
  /\ seen = [t \in Threads |-> "none"]
  /\ saved = {} /\ raced = FALSE

End(t) == call' = [call EXCEPT ![t].at = "done"]
At(t, at) == call[t].at = at

-----------------------------------------------------------------------------
\* Faulty: the scope is not compared
InScopeAny(t, i) == TRUE
\* _assert_scope
InScope(t, i) == scopes[i] = call[t].who
\* an approval between its read and its write
Approving(i) == \E u \in Threads : At(u, "approving") /\ call[u].id = i

\* another save has its number and has not stored its spec yet
Storing(t) == \E u \in Threads \ {t} : At(u, "numbered")
Number == Cardinality(Known) + 1
\* save, first line: the number of ids is read
SaveNumber(t) ==
  /\ call[t].op = "save" /\ At(t, "new")
  /\ call' = [call EXCEPT ![t].at = "numbered", ![t].id = Number]
  /\ raced' = (raced \/ Storing(t))
  /\ UNCHANGED <<records, scopes, seen, saved>>
\* the scope is checked, the latest spec is copied as a draft, then save
CloneNumber(t) ==
  /\ call[t].op = "clone_strategy" /\ At(t, "new")
  /\ \E i \in Known :
       IF InScope(t, i)
       THEN /\ call' = [call EXCEPT ![t].at = "numbered", ![t].id = Number]
            /\ raced' = (raced \/ Storing(t))
       ELSE End(t) /\ UNCHANGED raced
  /\ UNCHANGED <<records, scopes, seen, saved>>
\* setdefault(strategy_id, []).append(spec)
SaveAppend(t) ==
  /\ At(t, "numbered")
  /\ \E s \in IF call[t].op = "save" THEN {"draft", "backtested"} ELSE {"draft"} :
       records' = [records EXCEPT ![call[t].id] = Append(@, StrategySpec(call[t].who, s))]
  /\ raced' = (raced \/ Approving(call[t].id))
  /\ call' = [call EXCEPT ![t].at = "appended"]
  /\ UNCHANGED <<scopes, seen, saved>>
\* the scope is stored and the record returned
SaveScope(t) ==
  /\ At(t, "appended") /\ End(t)
  /\ scopes' = [scopes EXCEPT ![call[t].id] = call[t].who]
  /\ saved' = saved \cup {<<t, call[t].id>>}
  /\ UNCHANGED <<records, seen, raced>>

\* update_draft replaces the latest spec, whatever it has become
UpdateDraft(t) ==
  /\ call[t].op = "update_draft" /\ At(t, "new") /\ End(t)
  /\ \E i \in Known, s \in {"draft", "backtested"} :
       IF InScope(t, i)
       THEN /\ records' = [records EXCEPT ![i] = [@ EXCEPT ![Len(@)] = StrategySpec(call[t].who, s)]]
            /\ raced' = (raced \/ Approving(i))
       ELSE UNCHANGED <<records, raced>>
  /\ UNCHANGED <<scopes, seen, saved>>

CreateVersion(t) ==
  /\ call[t].op = "create_version" /\ At(t, "new") /\ End(t)
  /\ \E i \in Known, s \in {"draft", "backtested"} :
       IF InScope(t, i)
       THEN /\ records' = [records EXCEPT ![i] = Append(@, StrategySpec(call[t].who, s))]
            /\ raced' = (raced \/ Approving(i))
       ELSE UNCHANGED <<records, raced>>
  /\ UNCHANGED <<scopes, seen, saved>>

Promoted(s) == IF s \in DOMAIN _PROMOTE_MAP THEN _PROMOTE_MAP[s] ELSE "none"
\* approve_strategy decides on the latest status ...
ApproveRead(t) ==
  /\ call[t].op = "approve_strategy" /\ At(t, "new")
  /\ \E i \in Known :
       IF InScope(t, i) /\ Promoted(Latest(i).status) # "none"
       THEN /\ seen' = [seen EXCEPT ![t] = Latest(i).status]
            /\ call' = [call EXCEPT ![t].at = "approving", ![t].id = i]
       ELSE End(t) /\ UNCHANGED seen
  /\ UNCHANGED <<records, scopes, saved, raced>>
\* ... and update_status gives the result to the spec that is latest by then
ApproveWrite(t) ==
  /\ At(t, "approving") /\ End(t)
  /\ LET i == call[t].id IN
       /\ records' = [records EXCEPT ![i] = [@ EXCEPT ![Len(@)].status = Promoted(seen[t])]]
       /\ raced' = (raced \/ \E u \in Threads \ {t} : At(u, "approving") /\ call[u].id = i)
  /\ UNCHANGED <<scopes, seen, saved>>

MemoryNext == \E t \in Threads : SaveNumber(t) \/ CloneNumber(t) \/ SaveAppend(t) \/ SaveScope(t)
                \/ UpdateDraft(t) \/ CreateVersion(t) \/ ApproveRead(t) \/ ApproveWrite(t)
MemorySpec == MemoryInit /\ [][MemoryNext]_memoryVars

-----------------------------------------------------------------------------
MemoryTypeOK ==
  /\ \A i \in Numbers : \A k \in DOMAIN records[i] :
        records[i][k] \in [by : Users, status : StrategyStatus]
  /\ scopes \in [Numbers -> Users \cup {"none"}]

\* Every version of a strategy was posted by the user it belongs to, unless
\* two saves took the same number (repository.py:22): then the later one puts
\* its spec into the strategy of the earlier one and takes it over.
VersionsOfOwner ==
  ~raced => \A i \in Numbers : scopes[i] # "none" =>
     \A k \in DOMAIN records[i] : records[i][k].by = scopes[i]

\* Saves and clones that do not overlap return ids of their own, the demo
\* strategies' included.
SavedIdsDistinct ==
  ~raced => \A x, y \in saved : (x[2] = y[2] => x = y) /\ x[2] \notin DemoNumbers

\* A spec nobody posted as approved became so from backtested: at the moment
\* of the write the latest spec has the status the approval was decided on,
\* unless something was posted in between (repository.py:172-176).
ApprovalOfSeen ==
  ~raced => \A t \in Threads : At(t, "approving") =>
     /\ Latest(call[t].id).status = seen[t]
     /\ seen[t] \in {"backtested", "approved"}

\* As long as no two creations overlap, a strategy keeps its number, its owner
\* and the versions its owner posted, and an approval is of what was looked at
\* (InMemoryStrategyRepository).
VersionsStayOwn == VersionsOfOwner /\ SavedIdsDistinct /\ ApprovalOfSeen
===============================================================================
