-------------------------- MODULE ExecutionLaneProofs --------------------------
(***************************************************************************)
(* For any number of requests, commands and keys: a reported command has a *)
(* report, a running node can be stopped unless a second start or a failed *)
(* stop took its entry, no node is disposed under its running thread, and  *)
(* with the contract runner a stop leaves a disposed session disposed.     *)
(***************************************************************************)
EXTENDS ExecutionLane, TLAPS

\* A request has a node only after the claim, and starts it as RUNNING.
NodeAfterClaim ==
  \A r \in Requests :
    /\ pc[r] \in {"new", "claim_read", "claim_write", "node_start"} => node[r] = "none"
    /\ pc[r] = "node_register" => node[r] # "none" /\ result[r] = "RUNNING"

\* Whatever the runner remembers, or a stop took from it, is a node of the
\* session's command.
NodeOf(n, c) == n \in Requests /\ node[n] # "none" /\ cmd[n] = c
RegistryBacked == \A c \in Commands : registry[c] # Nobody => NodeOf(registry[c], c)
HeldBacked == \A r \in Requests : pc[r] = "stop_join" => NodeOf(held[r], cmd[r])

\* A report is stored before the command is marked, a node disposed before its
\* session is.
ReportFirst ==
  \A r \in Requests : pc[r] = "report_write" => \E rep \in reports : rep.cmd = cmd[r]
DisposeFirst ==
  Native => \A r \in Requests : pc[r] = "session_store" /\ result[r] = "DISPOSED" =>
    \E q \in Requests : cmd[q] = cmd[r] /\ node[q] = "disposed"

\* The inductive invariant.
Inv == /\ TypeOK /\ NodeAfterClaim /\ RegistryBacked /\ HeldBacked /\ ReportFirst /\ DisposeFirst
       /\ ReportedHasReport /\ RunningNodeReachable /\ DisposedSessionHadNode

\* Initially there is no command, no node and no session.
LEMMA InitInv == Init => Inv
<1> SUFFICES ASSUME Init PROVE Inv
  OBVIOUS
<1>1. NoCommand \in CommandRecord
  BY DEF NoCommand, CommandRecord
<1>2. TypeOK
  BY <1>1 DEF Init, TypeOK, Labels, Ended, SessionStatus, NodeStates
<1>3. NodeAfterClaim /\ RegistryBacked /\ HeldBacked /\ ReportFirst /\ DisposeFirst
  BY DEF Init, NodeAfterClaim, RegistryBacked, HeldBacked, ReportFirst, DisposeFirst
<1>4. ReportedHasReport /\ RunningNodeReachable /\ DisposedSessionHadNode
  BY DEF Init, ReportedHasReport, RunningNodeReachable, DisposedSessionHadNode, NoCommand
<1> QED
  BY <1>2, <1>3, <1>4 DEF Inv

\* Every step keeps the types.
LEMMA StepTyped ==
  ASSUME TypeOK, HeldBacked, NEW r \in Requests, Step(r) \/ NodeExits(r)
  PROVE  TypeOK'
<1>1. NewCommand \in CommandRecord /\ Claimed(r) \in CommandRecord
  BY DEF NewCommand, Claimed, CommandRecord
<1>2. copy[r] \in CommandRecord /\ Reported(copy[r]) \in CommandRecord
  BY DEF TypeOK, Reported, CommandRecord
<1>3. pc' = pc \/ \E label \in Labels : Goto(r, label)
  BY DEF Step, EnqueueLookup, EnqueueStore, EnqueueIndex, ClaimNext, StartCheck, ClaimRead,
         ClaimWrite, Plan, NodeStart, NodeRegister, StopRead, StopPop, PopNode, AnswerStop,
         StopJoin, SessionStore, ReportRead, ReportStore, ReportWrite, NodeExits, Labels, Ended
<1>4. pc' \in [Requests -> Labels]
  BY <1>3 DEF TypeOK, Goto
<1>5. commands' \in [Commands -> CommandRecord] /\ copy' \in [Requests -> CommandRecord]
  BY <1>1, <1>2 DEF TypeOK, Step, EnqueueLookup, EnqueueStore, EnqueueIndex, ClaimNext,
         StartCheck, ClaimRead, ClaimWrite, Plan, NodeStart, NodeRegister, StopRead, StopPop,
         StopJoin, SessionStore, ReportRead, ReportStore, ReportWrite, NodeExits
<1>6. queue' \in Seq(Commands) /\ index' \in [Keys -> Commands \cup {Nobody}]
  <2>1. Append(queue, cmd[r]) \in Seq(Commands)
    BY DEF TypeOK
  <2>2. queue' = queue \/ queue' = Append(queue, cmd[r])
    BY DEF Step, EnqueueLookup, EnqueueStore, EnqueueIndex, ClaimNext,
         StartCheck, ClaimRead, ClaimWrite, Plan, NodeStart, NodeRegister, StopRead, StopPop,
         StopJoin, SessionStore, ReportRead, ReportStore, ReportWrite, NodeExits
  <2>3. index' = index \/ index' = [index EXCEPT ![key[r]] = cmd[r]]
    BY DEF Step, EnqueueLookup, EnqueueStore, EnqueueIndex, ClaimNext,
         StartCheck, ClaimRead, ClaimWrite, Plan, NodeStart, NodeRegister, StopRead, StopPop,
         StopJoin, SessionStore, ReportRead, ReportStore, ReportWrite, NodeExits
  <2> QED
    BY <2>1, <2>2, <2>3 DEF TypeOK
<1>7. reports' \subseteq [cmd : Commands, type : Ops]
  BY DEF TypeOK, Step, EnqueueLookup, EnqueueStore, EnqueueIndex, ClaimNext,
         StartCheck, ClaimRead, ClaimWrite, Plan, NodeStart, NodeRegister, StopRead, StopPop,
         StopJoin, SessionStore, ReportRead, ReportStore, ReportWrite, NodeExits
<1>8. sessions' \in [Commands -> SessionStatus \cup {"ABSENT"}] /\ result' \in [Requests -> SessionStatus]
  BY DEF TypeOK, Step, EnqueueLookup, EnqueueStore, EnqueueIndex, ClaimNext,
         StartCheck, ClaimRead, ClaimWrite, Plan, NodeStart, NodeRegister, StopRead, StopPop,
         PopNode, AnswerStop, StopJoin, SessionStore, ReportRead, ReportStore, ReportWrite,
         NodeExits, SessionStatus, StopResults
<1>9. /\ registry' \in [Commands -> Requests \cup {Nobody}]
      /\ held' \in [Requests -> Requests \cup {Nobody}]
  <2>1. registry' = registry \/ \E n \in Requests \cup {Nobody} : registry' = [registry EXCEPT ![cmd[r]] = n]
    BY DEF Step, EnqueueLookup, EnqueueStore, EnqueueIndex, ClaimNext, StartCheck,
         ClaimRead, ClaimWrite, Plan, NodeStart, NodeRegister, StopRead, StopPop, PopNode,
         AnswerStop, StopJoin, SessionStore, ReportRead, ReportStore, ReportWrite, NodeExits
  <2>2. held' = held \/ held' = [held EXCEPT ![r] = registry[cmd[r]]]
    BY DEF Step, EnqueueLookup, EnqueueStore, EnqueueIndex, ClaimNext, StartCheck,
         ClaimRead, ClaimWrite, Plan, NodeStart, NodeRegister, StopRead, StopPop, PopNode,
         AnswerStop, StopJoin, SessionStore, ReportRead, ReportStore, ReportWrite, NodeExits
  <2> QED
    BY <2>1, <2>2 DEF TypeOK
<1>10. node' \in [Requests -> NodeStates]
  BY DEF TypeOK, Step, EnqueueLookup, EnqueueStore, EnqueueIndex, ClaimNext,
         StartCheck, ClaimRead, ClaimWrite, Plan, NodeStart, NodeRegister, StopRead, StopPop,
         PopNode, AnswerStop, StopJoin, SessionStore, ReportRead, ReportStore, ReportWrite,
         NodeExits, NodeStates
<1>11. op' \in [Requests -> Ops] /\ cmd' \in [Requests -> Commands] /\ key' \in [Requests -> Keys]
  <2>1. \A i \in Queued : queue[i] \in Commands
    BY DEF TypeOK, Queued
  <2> QED
    BY <2>1 DEF TypeOK, Step, EnqueueLookup, EnqueueStore, EnqueueIndex, ClaimNext,
         StartCheck, ClaimRead, ClaimWrite, Plan, NodeStart, NodeRegister, StopRead, StopPop,
         StopJoin, SessionStore, ReportRead, ReportStore, ReportWrite, NodeExits
<1> QED
  BY <1>4, <1>5, <1>6, <1>7, <1>8, <1>9, <1>10, <1>11 DEF TypeOK

\* What a step does to the nodes and parameters of all requests.
LEMMA StepFacts ==
  ASSUME TypeOK, NodeAfterClaim, HeldBacked, NEW r \in Requests, Step(r) \/ NodeExits(r)
  PROVE  /\ \A q \in Requests : node[q] # "none" => node'[q] # "none" /\ cmd'[q] = cmd[q]
         /\ \A q \in Requests : node[q] = "disposed" => node'[q] = "disposed"
         /\ \A q \in Requests : node'[q] = "disposed" => node[q] \in {"exited", "disposed"}
         /\ \A q \in Requests : q # r => pc'[q] = pc[q] /\ cmd'[q] = cmd[q]
                /\ held'[q] = held[q] /\ result'[q] = result[q]
         /\ pc[r] # "new" => cmd' = cmd
         /\ reports \subseteq reports'
<1>1. pc[r] # "new" => cmd' = cmd
  BY DEF Step, EnqueueLookup, EnqueueStore, EnqueueIndex, ClaimNext, StartCheck,
         ClaimRead, ClaimWrite, Plan, NodeStart, NodeRegister, StopRead, StopPop, PopNode,
         AnswerStop, StopJoin, SessionStore, ReportRead, ReportStore, ReportWrite, NodeExits
<1>2. \A q \in Requests : q # r => pc'[q] = pc[q] /\ cmd'[q] = cmd[q]
                /\ held'[q] = held[q] /\ result'[q] = result[q]
  BY DEF TypeOK, Goto, Step, EnqueueLookup, EnqueueStore, EnqueueIndex, ClaimNext, StartCheck,
         ClaimRead, ClaimWrite, Plan, NodeStart, NodeRegister, StopRead, StopPop, PopNode,
         AnswerStop, StopJoin, SessionStore, ReportRead, ReportStore, ReportWrite, NodeExits
<1>3. reports \subseteq reports'
  BY DEF Step, EnqueueLookup, EnqueueStore, EnqueueIndex, ClaimNext, StartCheck,
         ClaimRead, ClaimWrite, Plan, NodeStart, NodeRegister, StopRead, StopPop, PopNode,
         AnswerStop, StopJoin, SessionStore, ReportRead, ReportStore, ReportWrite, NodeExits
<1>4. \A q \in Requests : node[q] # "none" => node'[q] # "none" /\ cmd'[q] = cmd[q]
  BY <1>1, <1>2 DEF TypeOK, NodeAfterClaim, Step, EnqueueLookup, EnqueueStore, EnqueueIndex, ClaimNext, StartCheck,
         ClaimRead, ClaimWrite, Plan, NodeStart, NodeRegister, StopRead, StopPop, PopNode,
         AnswerStop, StopJoin, SessionStore, ReportRead, ReportStore, ReportWrite, NodeExits
<1>5. \A q \in Requests : node[q] = "disposed" => node'[q] = "disposed"
  BY DEF TypeOK, NodeAfterClaim, Step, EnqueueLookup, EnqueueStore, EnqueueIndex, ClaimNext, StartCheck,
         ClaimRead, ClaimWrite, Plan, NodeStart, NodeRegister, StopRead, StopPop, PopNode,
         AnswerStop, StopJoin, SessionStore, ReportRead, ReportStore, ReportWrite, NodeExits
<1>6. \A q \in Requests : node'[q] = "disposed" => node[q] \in {"exited", "disposed"}
  BY DEF TypeOK, NodeStates, HeldBacked, NodeOf, Step, EnqueueLookup, EnqueueStore, EnqueueIndex, ClaimNext, StartCheck,
         ClaimRead, ClaimWrite, Plan, NodeStart, NodeRegister, StopRead, StopPop, PopNode,
         AnswerStop, StopJoin, SessionStore, ReportRead, ReportStore, ReportWrite, NodeExits
<1> QED
  BY <1>1, <1>2, <1>3, <1>4, <1>5, <1>6

\* Every step keeps what the runner and the stops know about nodes.
LEMMA StepNodes ==
  ASSUME Inv, NEW r \in Requests, Step(r) \/ NodeExits(r)
  PROVE  NodeAfterClaim' /\ RegistryBacked' /\ HeldBacked'
<1>1. TypeOK /\ NodeAfterClaim /\ RegistryBacked /\ HeldBacked
  BY DEF Inv
<1>2. NodeAfterClaim'
  BY <1>1 DEF TypeOK, NodeAfterClaim, HeldBacked, NodeOf, Goto, Step, EnqueueLookup, EnqueueStore, EnqueueIndex, ClaimNext, StartCheck,
         ClaimRead, ClaimWrite, Plan, NodeStart, NodeRegister, StopRead, StopPop, PopNode,
         AnswerStop, StopJoin, SessionStore, ReportRead, ReportStore, ReportWrite, NodeExits
<1>3. RegistryBacked'
  <2>1. \A c \in Commands : registry'[c] \in {registry[c], Nobody} \/
          (registry'[c] = r /\ cmd[r] = c /\ pc[r] = "node_register")
    BY <1>1 DEF TypeOK, Step, EnqueueLookup, EnqueueStore, EnqueueIndex, ClaimNext, StartCheck,
         ClaimRead, ClaimWrite, Plan, NodeStart, NodeRegister, StopRead, StopPop, PopNode,
         AnswerStop, StopJoin, SessionStore, ReportRead, ReportStore, ReportWrite, NodeExits
  <2> QED
    BY <1>1, <2>1, StepFacts DEF RegistryBacked, NodeOf, NodeAfterClaim
<1>4. HeldBacked'
  <2>1. pc'[r] = "stop_join" =>
          \/ pc[r] = "stop_join" /\ held'[r] = held[r]
          \/ pc[r] = "stop_pop" /\ registry[cmd[r]] # Nobody /\ held'[r] = registry[cmd[r]]
    <3>1. CASE StopPop(r)
      BY <1>1, <3>1 DEF TypeOK, Goto, StopPop, PopNode, AnswerStop
    <3>2. CASE NodeExits(r)
      BY <3>2 DEF NodeExits
    <3>3. CASE Step(r) /\ ~StopPop(r)
      BY <1>1, <3>3 DEF TypeOK, Goto, Step, EnqueueLookup, EnqueueStore, EnqueueIndex, ClaimNext,
         StartCheck, ClaimRead, ClaimWrite, Plan, NodeStart, NodeRegister, StopRead, StopJoin,
         SessionStore, ReportRead, ReportStore, ReportWrite
    <3> QED
      BY <3>1, <3>2, <3>3
  <2>2. ASSUME NEW q \in Requests, pc'[q] = "stop_join" PROVE NodeOf(held[q], cmd[q])' 
    <3>1. CASE q # r
      BY <1>1, <2>2, <3>1, StepFacts DEF HeldBacked, NodeOf
    <3>2. CASE q = r
      BY <1>1, <2>1, <2>2, <3>2, StepFacts DEF HeldBacked, RegistryBacked, NodeOf, TypeOK
    <3> QED BY <3>1, <3>2
  <2> QED
    BY <2>2 DEF HeldBacked
<1> QED
  BY <1>2, <1>3, <1>4

\* Every step keeps the order in which reports and sessions are stored.
LEMMA StepRecords ==
  ASSUME Inv, NEW r \in Requests, Step(r) \/ NodeExits(r)
  PROVE  ReportFirst' /\ DisposeFirst' /\ ReportedHasReport' /\ DisposedSessionHadNode'
<1>1. TypeOK /\ NodeAfterClaim /\ HeldBacked
  BY DEF Inv
<1>2. ReportFirst'
  <2>1. pc'[r] = "report_write" => pc[r] # "new" /\
          (pc[r] = "report_write" \/ reports' = reports \cup {[cmd |-> cmd[r], type |-> op[r]]})
    BY <1>1 DEF TypeOK, Goto, Step, EnqueueLookup, EnqueueStore, EnqueueIndex, ClaimNext, StartCheck,
         ClaimRead, ClaimWrite, Plan, NodeStart, NodeRegister, StopRead, StopPop, PopNode,
         AnswerStop, StopJoin, SessionStore, ReportRead, ReportStore, ReportWrite, NodeExits
  <2>2. ASSUME NEW q \in Requests, pc'[q] = "report_write"
        PROVE  \E rep \in reports' : rep.cmd = cmd'[q]
    <3>1. CASE pc[q] = "report_write"
      <4>1. cmd'[q] = cmd[q]
        BY <1>1, <3>1, StepFacts
      <4> QED
        BY <1>1, <3>1, <4>1, StepFacts DEF Inv, ReportFirst
    <3>2. CASE pc[q] # "report_write"
      <4>1. q = r
        BY <1>1, <2>2, <3>2, StepFacts
      <4>2. cmd' = cmd /\ [cmd |-> cmd[r], type |-> op[r]] \in reports'
        BY <1>1, <2>1, <2>2, <3>2, <4>1, StepFacts
      <4>3. [cmd |-> cmd[r], type |-> op[r]].cmd = cmd[r]
        OBVIOUS
      <4> QED
        BY <4>1, <4>2, <4>3
    <3> QED BY <3>1, <3>2
  <2> QED
    BY <2>2 DEF ReportFirst
<1>3. ReportedHasReport'
  <2>1. \A c \in Commands : commands'[c].status = "REPORTED" =>
          commands[c].status = "REPORTED" \/ (pc[r] = "report_write" /\ cmd[r] = c)
    BY <1>1 DEF TypeOK, NewCommand, Claimed, Step, EnqueueLookup, EnqueueStore, EnqueueIndex, ClaimNext, StartCheck,
         ClaimRead, ClaimWrite, Plan, NodeStart, NodeRegister, StopRead, StopPop, PopNode,
         AnswerStop, StopJoin, SessionStore, ReportRead, ReportStore, ReportWrite, NodeExits
  <2> QED
    BY <1>1, <2>1, StepFacts DEF Inv, ReportedHasReport, ReportFirst
<1>4. DisposeFirst'
  <2>1. Native /\ pc'[r] = "session_store" /\ result'[r] = "DISPOSED" => pc[r] # "new" /\
          \/ pc[r] = "session_store" /\ result[r] = "DISPOSED"
          \/ pc[r] = "stop_join" /\ node'[held[r]] = "disposed"
    <3>1. CASE StopPop(r)
      BY <1>1, <3>1 DEF TypeOK, Goto, StopPop, PopNode, AnswerStop
    <3>2. CASE StopJoin(r)
      BY <1>1, <3>2 DEF TypeOK, Goto, StopJoin, HeldBacked, NodeOf
    <3>3. CASE NodeStart(r)
      BY <1>1, <3>3 DEF TypeOK, NodeStart
    <3>4. CASE NodeExits(r)
      BY <3>4 DEF NodeExits
    <3>5. CASE NodeRegister(r)
      BY <1>1, <3>5 DEF TypeOK, NodeRegister, NodeAfterClaim
    <3>6. CASE Step(r) /\ ~(StopPop(r) \/ StopJoin(r) \/ NodeStart(r) \/ NodeRegister(r))
      BY <1>1, <3>6 DEF TypeOK, Goto, Step, EnqueueLookup, EnqueueStore, EnqueueIndex, ClaimNext,
         StartCheck, ClaimRead, ClaimWrite, Plan, StopRead, SessionStore, ReportRead,
         ReportStore, ReportWrite
    <3> QED
      BY <3>1, <3>2, <3>3, <3>4, <3>5, <3>6
  <2>2. ASSUME Native, NEW q \in Requests, pc'[q] = "session_store", result'[q] = "DISPOSED"
        PROVE  \E n \in Requests : cmd'[n] = cmd'[q] /\ node'[n] = "disposed"
    <3>1. CASE pc[q] = "session_store" /\ result[q] = "DISPOSED"
      <4>1. cmd'[q] = cmd[q]
        BY <1>1, <3>1, StepFacts
      <4>2. PICK n \in Requests : cmd[n] = cmd[q] /\ node[n] = "disposed"
        BY <2>2, <3>1 DEF Inv, DisposeFirst
      <4> QED
        BY <1>1, <4>1, <4>2, StepFacts
    <3>2. CASE q = r /\ pc[r] = "stop_join" /\ node'[held[r]] = "disposed"
      BY <1>1, <3>2, StepFacts DEF HeldBacked, NodeOf
    <3> QED
      BY <1>1, <2>1, <2>2, <3>1, <3>2, StepFacts
  <2> QED
    BY <2>2 DEF DisposeFirst
<1>5. DisposedSessionHadNode'
  <2>1. \A c \in Commands : sessions'[c] = "DISPOSED" =>
          sessions[c] = "DISPOSED" \/ (pc[r] = "session_store" /\ result[r] = "DISPOSED" /\ cmd[r] = c)
    BY <1>1 DEF TypeOK, Step, EnqueueLookup, EnqueueStore, EnqueueIndex, ClaimNext, StartCheck,
         ClaimRead, ClaimWrite, Plan, NodeStart, NodeRegister, StopRead, StopPop, PopNode,
         AnswerStop, StopJoin, SessionStore, ReportRead, ReportStore, ReportWrite, NodeExits
  <2>2. ASSUME Native, NEW c \in Commands, sessions'[c] = "DISPOSED"
        PROVE  \E n \in Requests : cmd'[n] = c /\ node'[n] = "disposed"
    <3>1. PICK n \in Requests : cmd[n] = c /\ node[n] = "disposed"
      BY <2>1, <2>2 DEF Inv, DisposeFirst, DisposedSessionHadNode
    <3> QED
      BY <1>1, <3>1, StepFacts
  <2> QED
    BY <2>2 DEF DisposedSessionHadNode
<1> QED
  BY <1>2, <1>3, <1>4, <1>5

\* A running node stays registered until a stop or another start takes its entry.
LEMMA StepReachable ==
  ASSUME Inv, NEW r \in Requests, Step(r) \/ NodeExits(r)
  PROVE  RunningNodeReachable'
<1>1. TypeOK /\ NodeAfterClaim /\ HeldBacked /\ RegistryBacked /\ RunningNodeReachable
  BY DEF Inv
<1> SUFFICES ASSUME NEW n \in Requests, node'[n] = "running"
             PROVE  \/ registry'[cmd'[n]] = n
                    \/ pc'[n] = "node_register"
                    \/ \E q \in Requests \ {n} : cmd'[q] = cmd'[n] /\ node'[q] # "none"
                    \/ \E q \in Requests : held'[q] = n /\ pc'[q] = "failed"
  BY DEF RunningNodeReachable
<1>2. CASE node[n] # "running"
  BY <1>1, <1>2 DEF TypeOK, Goto, Step, EnqueueLookup, EnqueueStore, EnqueueIndex, ClaimNext, StartCheck,
         ClaimRead, ClaimWrite, Plan, NodeStart, NodeRegister, StopRead, StopPop, PopNode,
         AnswerStop, StopJoin, SessionStore, ReportRead, ReportStore, ReportWrite, NodeExits
<1>3. CASE node[n] = "running"
  <2>1. cmd'[n] = cmd[n] /\ cmd[n] \in Commands
    BY <1>1, <1>3, StepFacts DEF TypeOK
  <2>2. CASE registry[cmd[n]] = n
    <3>1. CASE NodeRegister(r)
      <4>1. registry' = [registry EXCEPT ![cmd[r]] = r] /\ node[r] # "none"
        BY <1>1, <3>1 DEF NodeRegister, NodeAfterClaim
      <4> QED
        BY <1>1, <2>1, <2>2, <4>1, StepFacts DEF TypeOK
    <3>2. CASE StopPop(r)
      <4>1. n # Nobody
        BY NobodyAssumption
      <4> QED
        BY <1>1, <2>1, <2>2, <3>2, <4>1 DEF StopPop, PopNode, AnswerStop, Goto, TypeOK
    <3>3. CASE ~NodeRegister(r) /\ ~StopPop(r)
      <4>1. registry' = registry
        BY <3>3 DEF Step, EnqueueLookup, EnqueueStore, EnqueueIndex, ClaimNext, StartCheck,
             ClaimRead, ClaimWrite, Plan, NodeStart, StopRead, StopJoin, SessionStore,
             ReportRead, ReportStore, ReportWrite, NodeExits
      <4> QED
        BY <2>1, <2>2, <4>1
    <3> QED
      BY <3>1, <3>2, <3>3
  <2>3. CASE pc[n] = "node_register"
    BY <1>1, <2>1, <2>3 DEF TypeOK, Goto, Step, EnqueueLookup, EnqueueStore, EnqueueIndex, ClaimNext, StartCheck,
         ClaimRead, ClaimWrite, Plan, NodeStart, NodeRegister, StopRead, StopPop, PopNode,
         AnswerStop, StopJoin, SessionStore, ReportRead, ReportStore, ReportWrite, NodeExits
  <2>4. CASE \E q \in Requests \ {n} : cmd[q] = cmd[n] /\ node[q] # "none"
    BY <1>1, <2>1, <2>4, StepFacts
  <2>5. CASE \E q \in Requests : held[q] = n /\ pc[q] = "failed"
    <3>1. PICK q \in Requests : held[q] = n /\ pc[q] = "failed"
      BY <2>5
    <3>2. held'[q] = n /\ pc'[q] = "failed"
      BY <1>1, <3>1 DEF TypeOK, Goto, Step, EnqueueLookup, EnqueueStore, EnqueueIndex, ClaimNext, StartCheck,
         ClaimRead, ClaimWrite, Plan, NodeStart, NodeRegister, StopRead, StopPop, PopNode,
         AnswerStop, StopJoin, SessionStore, ReportRead, ReportStore, ReportWrite, NodeExits
    <3> QED
      BY <3>1, <3>2
  <2> QED
    BY <1>1, <1>3, <2>2, <2>3, <2>4, <2>5 DEF RunningNodeReachable
<1> QED
  BY <1>2, <1>3

\* The invariant is inductive.
LEMMA NextInv == Inv /\ [Next]_vars => Inv'
<1> SUFFICES ASSUME Inv, [Next]_vars PROVE Inv'
  OBVIOUS
<1>1. CASE UNCHANGED vars
  BY <1>1 DEF vars, Inv, TypeOK, NodeAfterClaim, RegistryBacked, HeldBacked, NodeOf, ReportFirst,
     DisposeFirst, ReportedHasReport, RunningNodeReachable, DisposedSessionHadNode
<1>2. ASSUME NEW r \in Requests, Step(r) \/ NodeExits(r) PROVE Inv'
  <2>1. TypeOK'
    BY <1>2, StepTyped DEF Inv
  <2> QED
    BY <1>2, <2>1, StepNodes, StepRecords, StepReachable DEF Inv
<1> QED
  BY <1>1, <1>2 DEF Next, Finished

\* The service, the runner's registry and the request threads keep their types.
THEOREM TypeCorrect == Spec => []TypeOK
<1>1. Inv => TypeOK
  BY DEF Inv
<1> QED
  BY <1>1, InitInv, NextInv, PTL DEF Spec

\* record_report stores the report before it marks the command: a command shown
\* as REPORTED always has a report.
THEOREM ReportsAlwaysThere == Spec => []ReportedHasReport
<1>1. Inv => ReportedHasReport
  BY DEF Inv
<1> QED
  BY <1>1, InitInv, NextInv, PTL DEF Spec

\* A running node can be reached by a stop unless a second start of its command
\* or a stop that failed took its registry entry (sessions.py:188 and 199).
THEOREM NodesStayReachable == Spec => []RunningNodeReachable
<1>1. Inv => RunningNodeReachable
  BY DEF Inv
<1> QED
  BY <1>1, InitInv, NextInv, PTL DEF Spec

\* A session is shown as DISPOSED by the native runner only after a node of its
\* command was disposed.
THEOREM DisposedMeansDisposed == Spec => []DisposedSessionHadNode
<1>1. Inv => DisposedSessionHadNode
  BY DEF Inv
<1> QED
  BY <1>1, InitInv, NextInv, PTL DEF Spec

\* No node is disposed while its thread may still be executing (sessions.py:216).
THEOREM NeverDisposedAlive == Spec => DisposeAfterExit
<1>1. Inv /\ [Next]_vars =>
        [\A r \in Requests : node'[r] = "disposed" => node[r] \in {"exited", "disposed"}]_vars
  <2> SUFFICES ASSUME Inv, Next
               PROVE  (\A r \in Requests : node'[r] = "disposed" => node[r] \in {"exited", "disposed"})
                      \/ UNCHANGED vars
    OBVIOUS
  <2>1. ASSUME NEW r \in Requests, Step(r) \/ NodeExits(r)
        PROVE  \A q \in Requests : node'[q] = "disposed" => node[q] \in {"exited", "disposed"}
    BY <2>1, StepFacts DEF Inv
  <2> QED
    BY <2>1 DEF Next, Finished
<1> QED
  BY <1>1, InitInv, NextInv, PTL DEF Spec, DisposeAfterExit

\* Where the thread of a stop can be, and what it records, with the contract
\* runner.
StopsDispose ==
  \A r \in Requests : op[r] = "stop" =>
    /\ pc[r] \in {"new", "stop_pop", "session_store", "report_read", "report_store", "report_write"} \cup Ended
    /\ pc[r] = "session_store" => result[r] = "DISPOSED"

\* A step of a request with the contract runner keeps that.
LEMMA StepStops ==
  ASSUME ~Native, Inv, StopsDispose, NEW r \in Requests, Step(r) \/ NodeExits(r)
  PROVE  StopsDispose'
<1>1. TypeOK /\ NodeAfterClaim /\ HeldBacked
  BY DEF Inv
<1>2. op' = op
  BY DEF Step, EnqueueLookup, EnqueueStore, EnqueueIndex, ClaimNext, StartCheck,
         ClaimRead, ClaimWrite, Plan, NodeStart, NodeRegister, StopRead, StopPop, PopNode,
         AnswerStop, StopJoin, SessionStore, ReportRead, ReportStore, ReportWrite, NodeExits
<1>3. ASSUME NEW q \in Requests, op[q] = "stop"
      PROVE  /\ pc'[q] \in {"new", "stop_pop", "session_store", "report_read", "report_store", "report_write"} \cup Ended
             /\ pc'[q] = "session_store" => result'[q] = "DISPOSED"
  <2>1. CASE q # r
    BY <1>1, <1>3, <2>1, StepFacts DEF StopsDispose
  <2>2. CASE q = r /\ NodeExits(r)
    BY <1>3, <2>2 DEF NodeExits, StopsDispose
  <2>3. CASE q = r /\ StopPop(r)
    BY <1>1, <2>3 DEF StopPop, AnswerStop, Goto, TypeOK
  <2>4. CASE q = r /\ (StopRead(r) \/ SessionStore(r) \/ ReportRead(r) \/ ReportStore(r) \/ ReportWrite(r))
    BY <1>1, <2>4 DEF StopRead, SessionStore, ReportRead, ReportStore, ReportWrite, Goto, TypeOK, Ended
  <2>5. CASE q = r /\ (EnqueueLookup(r) \/ EnqueueStore(r) \/ EnqueueIndex(r) \/ ClaimNext(r) \/ StartCheck(r))
    BY <1>3, <2>5 DEF EnqueueLookup, EnqueueStore, EnqueueIndex, ClaimNext, StartCheck, StopsDispose, Ended
  <2>6. CASE q = r /\ (ClaimRead(r) \/ ClaimWrite(r) \/ Plan(r) \/ NodeStart(r) \/ NodeRegister(r) \/ StopJoin(r))
    BY <1>3, <2>6 DEF ClaimRead, ClaimWrite, Plan, NodeStart, NodeRegister, StopJoin, StopsDispose, Ended
  <2> QED
    BY <2>1, <2>2, <2>3, <2>4, <2>5, <2>6 DEF Step
<1> QED
  BY <1>2, <1>3 DEF StopsDispose

\* "Idempotent so callers can stop defensively" (sessions.py:202) holds of the
\* contract runner for any number of requests: a stop of a session that is
\* already DISPOSED leaves it so, whatever starts and stops race for it.
THEOREM StopsStayDisposed == ASSUME ~Native PROVE Spec => StopIsIdempotent
<1>1. Init => StopsDispose
  BY DEF Init, StopsDispose
<1>2. Inv /\ StopsDispose /\ [Next]_vars => StopsDispose'
  <2> SUFFICES ASSUME Inv, StopsDispose, [Next]_vars PROVE StopsDispose'
    OBVIOUS
  <2>1. CASE UNCHANGED vars
    BY <2>1 DEF vars, StopsDispose
  <2> QED
    BY <2>1, StepStops DEF Next, Finished
<1>3. Inv /\ StopsDispose /\ [Next]_vars =>
        [\A r \in Requests : op[r] = "stop" /\ pc[r] = "session_store" /\ pc'[r] # pc[r]
           /\ sessions[cmd[r]] = "DISPOSED" => sessions'[cmd[r]] = "DISPOSED"]_vars
  <2> SUFFICES ASSUME Inv, StopsDispose, Next, NEW q \in Requests, op[q] = "stop", pc[q] = "session_store", pc'[q] # pc[q]
               PROVE  sessions'[cmd[q]] = "DISPOSED"
    BY DEF Next, Finished
  <2>1. PICK r \in Requests : Step(r) \/ NodeExits(r)
    BY DEF Next, Finished, vars
  <2>2. TypeOK /\ NodeAfterClaim /\ HeldBacked
    BY DEF Inv
  <2>3. q = r
    BY <2>1, <2>2, StepFacts
  <2>4. SessionStore(q)
    BY <2>1, <2>3 DEF Step, EnqueueLookup, EnqueueStore, EnqueueIndex, ClaimNext, StartCheck,
         ClaimRead, ClaimWrite, Plan, NodeStart, NodeRegister, StopRead, StopPop,
         StopJoin, ReportRead, ReportStore, ReportWrite, NodeExits
  <2> QED
    BY <2>2, <2>4 DEF SessionStore, StopsDispose, TypeOK
<1> QED
  BY <1>1, <1>2, <1>3, InitInv, NextInv, PTL DEF Spec, StopIsIdempotent
=============================================================================
