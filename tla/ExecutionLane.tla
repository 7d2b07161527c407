----------------------------- MODULE ExecutionLane -----------------------------
(***************************************************************************)
(* The execution lane: commands are queued for a runtime profile, claimed  *)
(* by a worker call and reported; a start request claims a paper command   *)
(* and runs a TradingNode in a thread, a stop request ends it              *)
(* (packages/execution_lane/service.py and sessions.py,                    *)
(* services/workers/execution_lane_worker.py).                             *)
(*                                                                         *)
(* One registered runtime profile is modelled; a payload may bring its own *)
(* command id, so command ids and idempotency keys are chosen freely.      *)
(* Routes run in threads and the service holds no lock: a step is one      *)
(* access of shared state, and what a thread read before is kept in copy,  *)
(* held and result.  A session id is a digest of profile and command, so   *)
(* sessions are indexed by command.  A node is named after the request     *)
(* that started it.                                                        *)
(***************************************************************************)
EXTENDS Naturals, Sequences, FiniteSets, SequencesExt

CONSTANTS Requests,   \* API requests, each handled once by one thread
          Commands,   \* command ids
          Keys,       \* idempotency keys
          Native,     \* TRUE: NativeTradingNodeSessionRunner, FALSE: the contract runner
          Nobody      \* no request, no command

ASSUME NativeAssumption == Native \in BOOLEAN
ASSUME NobodyAssumption == Nobody \notin Requests /\ Nobody \notin Commands

VARIABLES commands,   \* _commands: status and claimer of each command
          queue,      \* insertion order of _commands
          index,      \* _idempotency_index
          reports,    \* _reports
          sessions,   \* _sessions of the service: lifecycle status
          registry,   \* _sessions of the native runner: the node to stop
          node,       \* the TradingNode a request started and its thread
          pc, op, cmd, key,   \* thread of a request: position and parameters
          copy,       \* command record read by claim_command or record_report
          held,       \* node popped from the registry by a stop
          result      \* lifecycle status the thread is about to record

vars == <<commands, queue, index, reports, sessions, registry, node,
          pc, op, cmd, key, copy, held, result>>

-----------------------------------------------------------------------------
CommandRecord == [status : {"ABSENT", "QUEUED", "CLAIMED", "REPORTED"},
                  by : Requests \cup {Nobody}]
NoCommand == [status |-> "ABSENT", by |-> Nobody]
NewCommand == [status |-> "QUEUED", by |-> Nobody]
Claimed(r) == [status |-> "CLAIMED", by |-> r]
Reported(rec) == [status |-> "REPORTED", by |-> rec.by]

StopResults == {"DISPOSED", "STOP_TIMEOUT", "NOT_FOUND"}
SessionStatus == {"RUNNING"} \cup StopResults
\* a node that was asked to stop is "stopping" until its thread ends
NodeStates == {"none", "running", "stopping", "exited", "disposed"}

Ops == {"enqueue", "run_once", "start", "stop"}
\* failed: an error answer or an exception; replied: the operation completed
Ended == {"replied", "failed"}
Labels == Ended \cup
  {"new", "enqueue_store", "enqueue_index", "claim_read", "claim_write", "plan",
   "node_start", "node_register", "stop_pop", "stop_join",
   "session_store", "report_read", "report_store", "report_write"}

Init ==
  /\ commands = [c \in Commands |-> NoCommand]
  /\ queue = <<>>
  /\ index = [k \in Keys |-> Nobody]
  /\ reports = {}
  /\ sessions = [c \in Commands |-> "ABSENT"]
  /\ registry = [c \in Commands |-> Nobody]
  /\ node = [r \in Requests |-> "none"]
  /\ pc = [r \in Requests |-> "new"]
  /\ op \in [Requests -> Ops]
  /\ cmd \in [Requests -> Commands]
  /\ key \in [Requests -> Keys]
  /\ copy = [r \in Requests |-> NoCommand]
  /\ held = [r \in Requests |-> Nobody]
  /\ result = [r \in Requests |-> "RUNNING"]

Goto(r, label) == pc' = [pc EXCEPT ![r] = label]

-----------------------------------------------------------------------------
\* enqueue_command: validation and the match with the profile may reject the
\* payload; a known idempotency key returns the command it names.
EnqueueLookup(r) ==
  /\ pc[r] = "new" /\ op[r] = "enqueue"
  /\ \/ Goto(r, "failed")
     \/ Goto(r, IF index[key[r]] # Nobody THEN "replied" ELSE "enqueue_store")
  /\ UNCHANGED <<commands, queue, index, reports, sessions, registry, node,
                 op, cmd, key, copy, held, result>>

\* _commands[command_id] = command: a new dict entry goes to the end, an
\* existing one is overwritten in place.
EnqueueStore(r) ==
  /\ pc[r] = "enqueue_store"
  /\ commands' = [commands EXCEPT ![cmd[r]] = NewCommand]
  /\ queue' = IF Contains(queue, cmd[r]) THEN queue ELSE Append(queue, cmd[r])
  /\ Goto(r, "enqueue_index")
  /\ UNCHANGED <<index, reports, sessions, registry, node, op, cmd, key, copy, held, result>>

EnqueueIndex(r) ==
  /\ pc[r] = "enqueue_index"
  /\ index' = [index EXCEPT ![key[r]] = cmd[r]]
  /\ Goto(r, "replied")
  /\ UNCHANGED <<commands, queue, reports, sessions, registry, node,
                 op, cmd, key, copy, held, result>>

-----------------------------------------------------------------------------
Queued == {i \in 1..Len(queue) : commands[queue[i]].status = "QUEUED"}

\* claim_next: the first queued command in insertion order, or KeyError; an
\* insertion during the iteration over the dict raises RuntimeError.
ClaimNext(r) ==
  /\ pc[r] = "new" /\ op[r] = "run_once"
  /\ \/ /\ Queued = {} \/ \E q \in Requests : pc[q] = "enqueue_store"
        /\ Goto(r, "failed") /\ UNCHANGED cmd
     \/ \E i \in Queued :
          /\ \A j \in Queued : i <= j
          /\ cmd' = [cmd EXCEPT ![r] = queue[i]]
          /\ Goto(r, "claim_read")
  /\ UNCHANGED <<commands, queue, index, reports, sessions, registry, node,
                 op, key, copy, held, result>>

\* start_execution_lane_paper_session up to the claim: the command must exist,
\* the plan be ready, the credentials resolve and the node configuration build.
StartCheck(r) ==
  /\ pc[r] = "new" /\ op[r] = "start"
  /\ \/ Goto(r, "failed")
     \/ commands[cmd[r]] # NoCommand /\ Goto(r, "claim_read")
  /\ UNCHANGED <<commands, queue, index, reports, sessions, registry, node,
                 op, cmd, key, copy, held, result>>

\* claim_command reads the command and rejects it unless it is queued ...
ClaimRead(r) ==
  /\ pc[r] = "claim_read"
  /\ Goto(r, IF commands[cmd[r]].status = "QUEUED" THEN "claim_write" ELSE "failed")
  /\ UNCHANGED <<commands, queue, index, reports, sessions, registry, node,
                 op, cmd, key, copy, held, result>>

\* ... and stores it as claimed by this worker.
ClaimWrite(r) ==
  /\ pc[r] = "claim_write"
  /\ commands' = [commands EXCEPT ![cmd[r]] = Claimed(r)]
  /\ Goto(r, IF op[r] = "start" THEN "node_start" ELSE "plan")
  /\ UNCHANGED <<queue, index, reports, sessions, registry, node,
                 op, cmd, key, copy, held, result>>

\* run-once builds the runtime plan after the claim; a profile registered anew
\* since then no longer matches the command and the request fails.
Plan(r) ==
  /\ pc[r] = "plan"
  /\ \E label \in {"report_read", "failed"} : Goto(r, label)
  /\ UNCHANGED <<commands, queue, index, reports, sessions, registry, node,
                 op, cmd, key, copy, held, result>>

-----------------------------------------------------------------------------
\* Faulty variant: the native runner starts a node and does not remember it.
NodeStartUnregistered(r) ==
  /\ pc[r] = "node_start"
  /\ \/ Goto(r, "failed") /\ UNCHANGED node
     \/ /\ node' = IF Native THEN [node EXCEPT ![r] = "running"] ELSE node
        /\ Goto(r, "session_store")
  /\ result' = [result EXCEPT ![r] = "RUNNING"]
  /\ UNCHANGED <<commands, queue, index, reports, sessions, registry,
                 op, cmd, key, copy, held>>

\* Runner.start: the native runner builds a node and starts its thread, which
\* may fail; the contract runner starts nothing.
NodeStart(r) ==
  /\ pc[r] = "node_start"
  /\ \/ Goto(r, "failed") /\ UNCHANGED node
     \/ Native /\ node' = [node EXCEPT ![r] = "running"] /\ Goto(r, "node_register")
     \/ ~Native /\ Goto(r, "session_store") /\ UNCHANGED node
  /\ result' = [result EXCEPT ![r] = "RUNNING"]
  /\ UNCHANGED <<commands, queue, index, reports, sessions, registry,
                 op, cmd, key, copy, held>>

\* The runner remembers the node under its session id, replacing any other.
NodeRegister(r) ==
  /\ pc[r] = "node_register"
  /\ registry' = [registry EXCEPT ![cmd[r]] = r]
  /\ Goto(r, "session_store")
  /\ UNCHANGED <<commands, queue, index, reports, sessions, node,
                 op, cmd, key, copy, held, result>>

\* The thread of a node ends, on its own or because it was asked to.
NodeExits(r) ==
  /\ node[r] \in {"running", "stopping"}
  /\ node' = [node EXCEPT ![r] = "exited"]
  /\ UNCHANGED <<commands, queue, index, reports, sessions, registry,
                 pc, op, cmd, key, copy, held, result>>

\* stop_execution_lane_session: 404 without a session record.
StopRead(r) ==
  /\ pc[r] = "new" /\ op[r] = "stop"
  /\ Goto(r, IF sessions[cmd[r]] = "ABSENT" THEN "failed" ELSE "stop_pop")
  /\ UNCHANGED <<commands, queue, index, reports, sessions, registry, node,
                 op, cmd, key, copy, held, result>>

\* Runner.stop of the native runner pops the node and asks it to stop, which
\* may raise.
PopNode(r, n) ==
  /\ registry' = [registry EXCEPT ![cmd[r]] = Nobody]
  /\ held' = [held EXCEPT ![r] = n]
  /\ \/ /\ node' = [node EXCEPT ![n] = IF @ = "running" THEN "stopping" ELSE @]
        /\ Goto(r, "stop_join")
     \/ Goto(r, "failed") /\ UNCHANGED node
  /\ UNCHANGED result

\* A stop that ends without a node.
AnswerStop(r, status) ==
  /\ result' = [result EXCEPT ![r] = status]
  /\ Goto(r, "session_store")
  /\ UNCHANGED <<registry, held, node>>

\* Faulty variant: a stop of an unknown session is reported as DISPOSED, and the
\* contract runner refuses a second stop.
StopPopMixedUp(r) ==
  /\ pc[r] = "stop_pop"
  /\ LET n == registry[cmd[r]] IN
     IF Native /\ n # Nobody THEN PopNode(r, n)
     ELSE AnswerStop(r, IF Native \/ sessions[cmd[r]] # "DISPOSED" THEN "DISPOSED" ELSE "NOT_FOUND")
  /\ UNCHANGED <<commands, queue, index, reports, sessions, op, cmd, key, copy>>

\* Without a node the native runner answers NOT_FOUND; the contract runner
\* always answers DISPOSED.
StopPop(r) ==
  /\ pc[r] = "stop_pop"
  /\ LET n == registry[cmd[r]] IN
     IF Native /\ n # Nobody THEN PopNode(r, n)
     ELSE AnswerStop(r, IF Native THEN "NOT_FOUND" ELSE "DISPOSED")
  /\ UNCHANGED <<commands, queue, index, reports, sessions, op, cmd, key, copy>>

\* Faulty variant: the node is disposed without looking at its thread.
StopJoinUnchecked(r) ==
  /\ pc[r] = "stop_join"
  /\ node' = [node EXCEPT ![held[r]] = "disposed"]
  /\ result' = [result EXCEPT ![r] = "DISPOSED"]
  /\ Goto(r, "session_store")
  /\ UNCHANGED <<commands, queue, index, reports, sessions, registry,
                 op, cmd, key, copy, held>>

\* join with a timeout: once the thread has ended the node is disposed, which
\* may raise; a thread still alive gives STOP_TIMEOUT and the node is left alone.
StopJoin(r) ==
  /\ pc[r] = "stop_join"
  /\ \/ /\ node[held[r]] \notin {"running", "stopping"}
        /\ node' = [node EXCEPT ![held[r]] = "disposed"]
        /\ result' = [result EXCEPT ![r] = "DISPOSED"]
        /\ Goto(r, "session_store")
     \/ /\ node[held[r]] \notin {"running", "stopping"}
        /\ Goto(r, "failed") /\ UNCHANGED <<node, result>>
     \/ /\ node[held[r]] \in {"running", "stopping"}
        /\ result' = [result EXCEPT ![r] = "STOP_TIMEOUT"]
        /\ Goto(r, "session_store") /\ UNCHANGED node
  /\ UNCHANGED <<commands, queue, index, reports, sessions, registry,
                 op, cmd, key, copy, held>>

\* record_session
SessionStore(r) ==
  /\ pc[r] = "session_store"
  /\ sessions' = [sessions EXCEPT ![cmd[r]] = result[r]]
  /\ Goto(r, "report_read")
  /\ UNCHANGED <<commands, queue, index, reports, registry, node,
                 op, cmd, key, copy, held, result>>

-----------------------------------------------------------------------------
\* record_report reads the command, stores the report ...
ReportRead(r) ==
  /\ pc[r] = "report_read"
  /\ copy' = [copy EXCEPT ![r] = commands[cmd[r]]]
  /\ Goto(r, "report_store")
  /\ UNCHANGED <<commands, queue, index, reports, sessions, registry, node,
                 op, cmd, key, held, result>>

\* Faulty variant: the report is lost and the command still marked.
ReportStoreLost(r) ==
  /\ pc[r] = "report_store"
  /\ Goto(r, "report_write")
  /\ UNCHANGED <<commands, queue, index, reports, sessions, registry, node,
                 op, cmd, key, copy, held, result>>

ReportStore(r) ==
  /\ pc[r] = "report_store"
  /\ reports' = reports \cup {[cmd |-> cmd[r], type |-> op[r]]}
  /\ Goto(r, "report_write")
  /\ UNCHANGED <<commands, queue, index, sessions, registry, node,
                 op, cmd, key, copy, held, result>>

\* Faulty variant: the copy is stored with the status it was read with.
ReportWriteUnchanged(r) ==
  /\ pc[r] = "report_write"
  /\ commands' = [commands EXCEPT ![cmd[r]] = copy[r]]
  /\ Goto(r, "replied")
  /\ UNCHANGED <<queue, index, reports, sessions, registry, node,
                 op, cmd, key, copy, held, result>>

\* ... and stores the copy of the command as reported.
ReportWrite(r) ==
  /\ pc[r] = "report_write"
  /\ commands' = [commands EXCEPT ![cmd[r]] = Reported(copy[r])]
  /\ Goto(r, "replied")
  /\ UNCHANGED <<queue, index, reports, sessions, registry, node,
                 op, cmd, key, copy, held, result>>

Step(r) ==
  \/ EnqueueLookup(r) \/ EnqueueStore(r) \/ EnqueueIndex(r)
  \/ ClaimNext(r) \/ StartCheck(r) \/ ClaimRead(r) \/ ClaimWrite(r) \/ Plan(r)
  \/ NodeStart(r) \/ NodeRegister(r) \/ StopRead(r) \/ StopPop(r) \/ StopJoin(r)
  \/ SessionStore(r) \/ ReportRead(r) \/ ReportStore(r) \/ ReportWrite(r)

Finished == (\A r \in Requests : pc[r] \in Ended) /\ UNCHANGED vars

Next == (\E r \in Requests : Step(r) \/ NodeExits(r)) \/ Finished

Spec == Init /\ [][Next]_vars

\* Threads of the pool are scheduled again and again; when a node's thread ends
\* is not up to this code, so it gets no fairness.
FairSpec == Spec /\ \A r \in Requests : WF_vars(Step(r))

-----------------------------------------------------------------------------
TypeOK ==
  /\ commands \in [Commands -> CommandRecord]
  /\ queue \in Seq(Commands)
  /\ index \in [Keys -> Commands \cup {Nobody}]
  /\ reports \subseteq [cmd : Commands, type : Ops]
  /\ sessions \in [Commands -> SessionStatus \cup {"ABSENT"}]
  /\ registry \in [Commands -> Requests \cup {Nobody}]
  /\ node \in [Requests -> NodeStates]
  /\ pc \in [Requests -> Labels]
  /\ op \in [Requests -> Ops]
  /\ cmd \in [Requests -> Commands]
  /\ key \in [Requests -> Keys]
  /\ copy \in [Requests -> CommandRecord]
  /\ held \in [Requests -> Requests \cup {Nobody}]
  /\ result \in [Requests -> SessionStatus]

\* A command shown as REPORTED has a report, however claims, reports and
\* repeated enqueues of it interleave (record_report stores the report first).
ReportedHasReport ==
  \A c \in Commands : commands[c].status = "REPORTED" => \E rep \in reports : rep.cmd = c

\* A running node can be stopped: it is registered, about to be, or its entry
\* was taken by another start of the command or by a stop that failed.
RunningNodeReachable ==
  \A r \in Requests : node[r] = "running" =>
    \/ registry[cmd[r]] = r
    \/ pc[r] = "node_register"
    \/ \E q \in Requests \ {r} : cmd[q] = cmd[r] /\ node[q] # "none"
    \/ \E q \in Requests : held[q] = r /\ pc[q] = "failed"

\* A node is disposed only after its thread has ended ("do NOT call dispose()
\* while the node may still be executing", sessions.py:216), whatever stops and
\* starts race for the session.
DisposeAfterExit ==
  [][\A r \in Requests : node'[r] = "disposed" => node[r] \in {"exited", "disposed"}]_vars

\* A session is shown as DISPOSED only if a node of its command was disposed.
DisposedSessionHadNode ==
  Native => \A c \in Commands : sessions[c] = "DISPOSED" =>
    \E r \in Requests : cmd[r] = c /\ node[r] = "disposed"

\* A claimed command is reported in the end unless a request for it failed
\* after the claim; a request cannot be stuck behind another one.
ClaimsAreReported ==
  \A c \in Commands : commands[c].status = "CLAIMED" ~>
    \/ commands[c].status # "CLAIMED"
    \/ \E r \in Requests : cmd[r] = c /\ pc[r] = "failed"

\* "Idempotent so callers can stop defensively" (sessions.py:202): a stop leaves
\* a session that is already DISPOSED so.  Kept by the contract runner.
StopIsIdempotent ==
  [][\A r \in Requests : op[r] = "stop" /\ pc[r] = "session_store" /\ pc'[r] # pc[r]
       /\ sessions[cmd[r]] = "DISPOSED" => sessions'[cmd[r]] = "DISPOSED"]_vars

\* claim_command raises "execution lane command is not queued" (service.py:120)
\* so that a command is claimed once, and enqueueing a known key returns the
\* command it names: a command has at most one running node.
OneNodePerCommand ==
  \A r, q \in Requests : node[r] = "running" /\ node[q] = "running" /\ cmd[r] = cmd[q] => r = q
=============================================================================
