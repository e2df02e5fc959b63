-------------------------- MODULE RecordingControl --------------------------
(***************************************************************************)
(* `start` and `stop` (commands.py), the runtime state file current.json   *)
(* and its lock file (runtime_state.py), and Audio Hijack (recording.py).  *)
(*                                                                         *)
(* Both commands read the state before they take the lock, and act under   *)
(* the lock on what they read.  A start is named by its invocation, so a   *)
(* meeting started twice is two members of Starts; its row in the state    *)
(* file, its recording and its queued job all carry that name.             *)
(***************************************************************************)
EXTENDS Naturals, FiniteSets

CONSTANTS
  Starts,     \* `start` invocations
  Stops,      \* terminals that run `stop`, again and again
  Sessions,   \* Audio Hijack sessions
  SessionOf,  \* the session of each start's platform
  Refused,    \* starts on the platform `system` while it is disabled
  Overlap,    \* may a command begin while another one runs?
  Faults,     \* which faults may happen
  None

Commands == Starts \union Stops

ASSUME ConstantsAssumption ==
  /\ Starts \intersect Stops = {} /\ None \notin Starts
  /\ SessionOf \in [Starts -> Sessions]
  /\ Refused \subseteq Starts
  /\ Overlap \in BOOLEAN
  /\ Faults \subseteq {"crash", "abort", "recorder", "trigger"}

VARIABLES
  stateFile,  \* the start that current.json names, or None
  lockFile,   \* does current.lock exist?
  recording,  \* what each Audio Hijack session records, or None
  queued,     \* how often each recording was appended to the queue
  pc, loaded  \* per command: its next step; the state a stop has read

vars == <<stateFile, lockFile, recording, queued, pc, loaded>>

Init ==
  /\ stateFile = None /\ lockFile = FALSE
  /\ recording = [s \in Sessions |-> None]
  /\ queued = [m \in Starts |-> 0]
  /\ pc = [c \in Commands |-> "idle"]
  /\ loaded = [c \in Stops |-> None]

Goto(c, label) == pc' = [pc EXCEPT ![c] = label]

Running(c) == pc[c] \notin {"idle", "done"}

MayBegin == Overlap \/ \A c \in Commands : ~Running(c)

(* The command is over; a start runs once. *)
End(c) ==
  /\ Goto(c, IF c \in Starts THEN "done" ELSE "idle")
  /\ loaded' = [s \in Stops |-> IF s = c THEN None ELSE loaded[s]]

-----------------------------------------------------------------------------
(* The lock file *)

(* Mutant: the lock file is opened without O_EXCL. *)
Lock_NotExclusive(c) ==
  /\ pc[c] = "lock"
  /\ lockFile' = TRUE /\ Goto(c, "recorder") /\ UNCHANGED loaded
  /\ UNCHANGED <<stateFile, recording, queued>>

(* O_CREAT | O_EXCL; StateLockError ends the command. *)
Lock(c) ==
  /\ pc[c] = "lock"
  /\ \/ ~lockFile /\ lockFile' = TRUE /\ Goto(c, "recorder") /\ UNCHANGED loaded
     \/ lockFile /\ End(c) /\ UNCHANGED lockFile
  /\ UNCHANGED <<stateFile, recording, queued>>

Unlock(c) ==
  /\ pc[c] = "unlock"
  /\ lockFile' = FALSE
  /\ \/ c \in Starts /\ End(c)
     \/ c \in Stops /\ Goto(c, "trigger") /\ UNCHANGED loaded
  /\ UNCHANGED <<stateFile, recording, queued>>

Inside == {"recorder", "write", "clear", "unlock"}

(* The operator follows the message "If stale, remove the lock file". *)
RemoveStaleLock ==
  /\ lockFile /\ \A c \in Commands : pc[c] \notin Inside
  /\ lockFile' = FALSE
  /\ UNCHANGED <<stateFile, recording, queued, pc, loaded>>

-----------------------------------------------------------------------------
(* start *)

(* Mutant: no check for a meeting in progress. *)
StartCheck_NoCheck(m) ==
  /\ pc[m] = "idle" /\ MayBegin
  /\ \/ m \notin Refused /\ Goto(m, "lock") /\ UNCHANGED loaded
     \/ m \in Refused /\ End(m)
  /\ UNCHANGED <<stateFile, lockFile, recording, queued>>

StartCheck(m) ==
  /\ pc[m] = "idle" /\ MayBegin
  /\ \/ stateFile = None /\ m \notin Refused /\ Goto(m, "lock") /\ UNCHANGED loaded
     \/ (stateFile # None \/ m \in Refused) /\ End(m)
  /\ UNCHANGED <<stateFile, lockFile, recording, queued>>

(* A session that already runs goes on with the recording it has. *)
StartRecorder(m) ==
  /\ pc[m] = "recorder"
  /\ recording' = [recording EXCEPT ![SessionOf[m]] = IF @ = None THEN m ELSE @]
  /\ Goto(m, "write")
  /\ UNCHANGED <<stateFile, lockFile, queued, loaded>>

WriteState(m) ==
  /\ pc[m] = "write"
  /\ stateFile' = m
  /\ Goto(m, "unlock")
  /\ UNCHANGED <<lockFile, recording, queued, loaded>>

-----------------------------------------------------------------------------
(* stop *)

(* Mutant: the command goes on without an active recording. *)
StopLoad_Always(c) ==
  /\ pc[c] = "idle" /\ MayBegin
  /\ loaded' = [loaded EXCEPT ![c] = stateFile]
  /\ Goto(c, "lock")
  /\ UNCHANGED <<stateFile, lockFile, recording, queued>>

(* With no active recording the command only prints a warning. *)
StopLoad(c) ==
  /\ pc[c] = "idle" /\ MayBegin /\ stateFile # None
  /\ loaded' = [loaded EXCEPT ![c] = stateFile]
  /\ Goto(c, "lock")
  /\ UNCHANGED <<stateFile, lockFile, recording, queued>>

(* Mutant: the session of the platform "meet" is stopped, whatever the     *)
(* state says. *)
StopRecorder_DefaultSession(c) ==
  /\ pc[c] = "recorder"
  /\ recording' = [recording EXCEPT ![CHOOSE s \in Sessions : TRUE] = None]
  /\ Goto(c, "clear")
  /\ UNCHANGED <<stateFile, lockFile, queued, loaded>>

StopRecorder(c) ==
  /\ pc[c] = "recorder"
  /\ recording' = [recording EXCEPT ![SessionOf[loaded[c]]] = None]
  /\ Goto(c, "clear")
  /\ UNCHANGED <<stateFile, lockFile, queued, loaded>>

(* Mutant: the state is left behind. *)
ClearState_Keeps(c) ==
  /\ pc[c] = "clear"
  /\ Goto(c, "unlock")
  /\ UNCHANGED <<stateFile, lockFile, recording, queued, loaded>>

ClearState(c) ==
  /\ pc[c] = "clear"
  /\ stateFile' = None
  /\ Goto(c, "unlock")
  /\ UNCHANGED <<lockFile, recording, queued, loaded>>

(* The job is appended to the queue file; when that fails the command      *)
(* reports that processing was not triggered. *)
Trigger(c) ==
  /\ pc[c] = "trigger"
  /\ queued' = [queued EXCEPT ![loaded[c]] = @ + 1]
  /\ End(c)
  /\ UNCHANGED <<stateFile, lockFile, recording>>

TriggerFails(c) ==
  /\ "trigger" \in Faults /\ pc[c] = "trigger"
  /\ End(c)
  /\ UNCHANGED <<stateFile, lockFile, recording, queued>>

-----------------------------------------------------------------------------
(* Faults *)

(* Mutant: the state is cleared even if the recorder could not be stopped. *)
RecorderFails_ClearsState(c) ==
  /\ "recorder" \in Faults /\ pc[c] = "recorder"
  /\ stateFile' = None
  /\ lockFile' = FALSE /\ End(c)
  /\ UNCHANGED <<recording, queued>>

(* Audio Hijack cannot be driven: the exception leaves through the lock's  *)
(* finally clause. *)
RecorderFails(c) ==
  /\ "recorder" \in Faults /\ pc[c] = "recorder"
  /\ lockFile' = FALSE /\ End(c)
  /\ UNCHANGED <<stateFile, recording, queued>>

(* Mutant: no finally clause. *)
Abort_KeepsLock(c) ==
  /\ "abort" \in Faults /\ Running(c)
  /\ End(c)
  /\ UNCHANGED <<stateFile, lockFile, recording, queued>>

(* Ctrl-C, or a state file that cannot be written. *)
Abort(c) ==
  /\ "abort" \in Faults /\ Running(c)
  /\ lockFile' = (lockFile /\ pc[c] \notin Inside) /\ End(c)
  /\ UNCHANGED <<stateFile, recording, queued>>

(* SIGKILL or power loss.  Audio Hijack is another process and goes on. *)
Crash(c) ==
  /\ "crash" \in Faults /\ Running(c)
  /\ End(c)
  /\ UNCHANGED <<stateFile, lockFile, recording, queued>>

-----------------------------------------------------------------------------
StartStep(m) == StartCheck(m) \/ StartRecorder(m) \/ WriteState(m)

StopStep(c) ==
  StopLoad(c) \/ StopRecorder(c) \/ ClearState(c) \/ Trigger(c) \/ TriggerFails(c)

Fault(c) == RecorderFails(c) \/ Abort(c) \/ Crash(c)

Next ==
  \/ \E m \in Starts : StartStep(m)
  \/ \E c \in Stops : StopStep(c)
  \/ \E c \in Commands : Lock(c) \/ Unlock(c) \/ Fault(c)
  \/ RemoveStaleLock

Spec == Init /\ [][Next]_vars

(* A command, once started, runs on. *)
Advance(c) ==
  /\ Running(c)
  /\ \/ Lock(c) \/ Unlock(c)
     \/ c \in Starts /\ StartStep(c)
     \/ c \in Stops /\ StopStep(c)

Fairness == \A c \in Commands : WF_vars(Advance(c))

-----------------------------------------------------------------------------
(* Properties *)

StartPcs == {"idle", "lock", "recorder", "write", "unlock", "done"}
StopPcs == {"idle", "lock", "recorder", "clear", "unlock", "trigger"}

(* The files name starts; each command is at one of its own steps; a stop  *)
(* that runs has read a state. *)
TypeOK ==
  /\ stateFile \in Starts \union {None} /\ lockFile \in BOOLEAN
  /\ recording \in [Sessions -> Starts \union {None}]
  /\ queued \in [Starts -> Nat]
  /\ pc \in [Commands -> StartPcs \union StopPcs]
  /\ \A m \in Starts : pc[m] \in StartPcs
  /\ \A c \in Stops : pc[c] \in StopPcs
  /\ loaded \in [Stops -> Starts \union {None}]
  /\ \A c \in Stops : Running(c) => loaded[c] \in Starts

(* RuntimeStateStore.lock: only one command at a time is between taking    *)
(* the lock and leaving it, and the lock file exists all that time.        *)
LockExclusion ==
  /\ \A c \in Commands : pc[c] \in Inside => lockFile
  /\ \A c, d \in Commands : pc[c] \in Inside /\ pc[d] \in Inside => c = d

(* A queued job's recording is complete: whatever starts and stops race or *)
(* die, the queue worker never transcribes audio still being recorded.     *)
JobsAreStopped ==
  \A m \in Starts : queued[m] > 0 => \A s \in Sessions : recording[s] # m

(* One command at a time: no recording is queued twice, though a stop may  *)
(* die at any step and be run again.                                       *)
OneJobPerRecording == \A m \in Starts : queued[m] <= 1

(* A start never takes the state file from a recording in progress.        *)
NoClobber ==
  [][\A m \in Starts : WriteState(m) => stateFile = None]_vars

-----------------------------------------------------------------------------
(* One command at a time, whatever fails: this is RecordingSession. *)
Ended == {loaded[c] : c \in {d \in Stops : pc[d] \in {"unlock", "trigger"}}}

Session == INSTANCE RecordingSession WITH
             current <- stateFile, ended <- Ended, jobs <- queued

SessionSpec == Session!Spec
=============================================================================
