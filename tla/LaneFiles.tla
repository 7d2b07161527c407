------------------------------- MODULE LaneFiles -------------------------------
(***************************************************************************)
(* The files of the execution lane: the env file in which                  *)
(* LocalEnvCredentialSlotStore keeps credential values                     *)
(* (packages/execution_lane/credentials.py), and the JSON files of         *)
(* ExecutionLaneFilePersistence (persistence.py).  Both are written with   *)
(* write_text, which opens the file for writing, thereby emptying it, and  *)
(* then writes; there is no lock and no temporary file.  The process may   *)
(* be killed between the two.                                              *)
(*                                                                         *)
(* An env key has a class: what _validate_env_key looks at.  A value is    *)
(* the name of the slot that wrote it.                                     *)
(***************************************************************************)
EXTENDS Naturals, FiniteSets

CONSTANTS Slots,        \* create_slot requests
          Commands,     \* command files
          MaxKills      \* bound: kills of the process
ASSUME FilesAssumption == "none" \notin Slots /\ MaxKills \in Nat

VARIABLES env,          \* the env file: key -> the slot whose value it holds, or "none"
          slot,         \* per request: [at, keys, merged]
          overlapped,   \* two creations were under way at once
          command,      \* per command file: "absent", "torn" or its content
          saving,       \* per command file: the content being saved, or "none"
          reports,      \* per command file: what the caller was told is saved
          hit,          \* command files whose last save was killed
          kills
fileVars == <<env, slot, overlapped, command, saving, reports, hit, kills>>

-----------------------------------------------------------------------------
\* Keys by what the checks see: kept by the venue prefix and an allowed suffix
KeyClasses == {"venue_key", "venue_secret", "other_venue", "bare", "public", "odd_suffix"}
ValueClasses == {"text", "blank", "newline"}
\* Faulty: the prefix of the venue is not required
ValidKeyAnyVenue(k) == k \in {"venue_key", "venue_secret", "other_venue"}
\* _validate_env_key
ValidKey(k) == k \in {"venue_key", "venue_secret"}
\* _validate_env_value
ValidValue(v) == v = "text"

Nothing == [k \in KeyClasses |-> "none"]

FilesInit ==
  /\ env = Nothing
  /\ slot = [s \in Slots |-> [at |-> "new", keys |-> {}, merged |-> Nothing]]
  /\ overlapped = FALSE
  /\ command = [c \in Commands |-> "absent"] /\ saving = [c \in Commands |-> "none"]
  /\ reports = [c \in Commands |-> "absent"]
  /\ hit = {} /\ kills = 0

Writing(s) == slot[s].at \in {"read", "emptied"}
\* ExecutionCredentialSlotRequest is rejected, or the env file is read and merged
CreateSlot(s) ==
  /\ slot[s].at = "new"
  /\ \E asked \in SUBSET KeyClasses \ {{}}, v \in ValueClasses :
       IF (\A k \in asked : ValidKey(k)) /\ ValidValue(v)
       THEN slot' = [slot EXCEPT ![s] =
              [at |-> "read", keys |-> asked,
               merged |-> [k \in KeyClasses |-> IF k \in asked THEN s ELSE env[k]]]]
       ELSE slot' = [slot EXCEPT ![s].at = "rejected"]
  /\ overlapped' = (overlapped \/ \E t \in Slots : Writing(t))
  /\ UNCHANGED <<env, command, saving, reports, hit, kills>>
\* write_text: the file is emptied ...
EmptyEnv(s) ==
  /\ slot[s].at = "read"
  /\ env' = Nothing /\ slot' = [slot EXCEPT ![s].at = "emptied"]
  /\ UNCHANGED <<overlapped, command, saving, reports, hit, kills>>
\* Faulty: only the new values are written
BodyOfRequest(s) == [k \in KeyClasses |-> IF k \in slot[s].keys THEN s ELSE "none"]
Body(s) == slot[s].merged
\* ... and written; the slot is returned
FillEnv(s) ==
  /\ slot[s].at = "emptied"
  /\ env' = Body(s) /\ slot' = [slot EXCEPT ![s].at = "created"]
  /\ UNCHANGED <<overlapped, command, saving, reports, hit, kills>>

\* resolve_slot_values: the values of the keys, whoever wrote them
Resolve(s) == IF \A k \in slot[s].keys : env[k] # "none" THEN "values" ELSE "missing"

\* save_profile, save_command, save_report
SaveCommand(c, v) ==
  /\ saving[c] = "none" /\ reports[c] # v
  /\ command' = [command EXCEPT ![c] = "torn"] /\ saving' = [saving EXCEPT ![c] = v]
  /\ UNCHANGED <<env, slot, overlapped, reports, hit, kills>>
Wrote(c) ==
  /\ command' = [command EXCEPT ![c] = saving[c]] /\ reports' = [reports EXCEPT ![c] = saving[c]]
WriteCommand(c) ==
  /\ saving[c] # "none" /\ saving' = [saving EXCEPT ![c] = "none"]
  /\ Wrote(c) /\ hit' = hit \ {c}
  /\ UNCHANGED <<env, slot, overlapped, kills>>
\* load_profile and load_command: a torn file does not validate
Load(c) == IF command[c] = "torn" THEN "ValidationError" ELSE command[c]

\* the process is killed and started again; requests and saves under way are gone
Kill ==
  /\ kills < MaxKills /\ kills' = kills + 1
  /\ slot' = [s \in Slots |-> IF Writing(s) THEN [slot[s] EXCEPT !.at = "killed"] ELSE slot[s]]
  /\ saving' = [c \in Commands |-> "none"]
  /\ hit' = hit \cup {c \in Commands : saving[c] # "none"}
  /\ UNCHANGED <<env, overlapped, command, reports>>

FilesNext ==
  \/ \E s \in Slots : CreateSlot(s) \/ EmptyEnv(s) \/ FillEnv(s)
  \/ \E c \in Commands : WriteCommand(c) \/ \E v \in {"queued", "claimed"} : SaveCommand(c, v)
  \/ Kill
FilesSpec == FilesInit /\ [][FilesNext]_fileVars

-----------------------------------------------------------------------------
FilesTypeOK ==
  /\ env \in [KeyClasses -> Slots \cup {"none"}]
  /\ \A s \in Slots : slot[s].at \in {"new", "rejected", "read", "emptied", "created", "killed"}
  /\ \A s \in Slots : slot[s].keys \subseteq {"venue_key", "venue_secret"}
  /\ command \in [Commands -> {"absent", "torn", "queued", "claimed"}]
  /\ kills \in 0..MaxKills

\* A slot that was created resolves, each key to the value it was created
\* with or to the one of another created slot with the same key (the file is
\* shared by all projects), as long as no two creations overlapped
\* (credentials.py:153 reads before it writes), no creation is in the middle
\* of its write and none was killed there.
CreatedIsResolvable ==
  (~overlapped /\ ~ \E t \in Slots : slot[t].at \in {"emptied", "killed"}) =>
     \A s \in Slots : slot[s].at = "created" =>
        /\ Resolve(s) = "values"
        /\ \A k \in slot[s].keys :
              \E t \in Slots : env[k] = t /\ slot[t].at = "created" /\ k \in slot[t].keys

\* A command file loads as what the caller last saw saved, unless the process
\* was killed inside a save of it, which loses the content saved before as
\* well (persistence.py:42); the next save repairs it.
SavedLoads ==
  \A c \in Commands : (saving[c] = "none" /\ c \notin hit) => Load(c) = reports[c]

\* What the execution lane wrote to a file it reads back, up to overlapping
\* creations and a kill between emptying and writing (create_slot,
\* save_command).
FilesReadBack == CreatedIsResolvable /\ SavedLoads
===============================================================================
