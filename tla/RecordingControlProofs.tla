----------------------- MODULE RecordingControlProofs -----------------------
(***************************************************************************)
(* Proofs about RecordingControl: what holds however starts and stops      *)
(* overlap, and what holds when they do not.                               *)
(***************************************************************************)
EXTENDS RecordingHistory, TLAPS

-----------------------------------------------------------------------------
(* Type correctness *)

LEMMA EndType ==
  ASSUME TypeOK, NEW c \in Commands, End(c)
  PROVE  /\ pc' \in [Commands -> StartPcs \union StopPcs]
         /\ \A m \in Starts : pc'[m] \in StartPcs
         /\ \A d \in Stops : pc'[d] \in StopPcs
         /\ loaded' \in [Stops -> Starts \union {None}]
         /\ \A d \in Stops : Running(d)' => loaded'[d] \in Starts
BY ConstantsAssumption DEF TypeOK, End, Goto, Running, Commands, StartPcs, StopPcs

(* Starts and stops are different commands, at different steps. *)
LEMMA GotoType ==
  ASSUME TypeOK, NEW c \in Commands, NEW label, Goto(c, label),
         c \in Starts => label \in StartPcs, c \in Stops => label \in StopPcs
  PROVE  /\ pc' \in [Commands -> StartPcs \union StopPcs]
         /\ \A m \in Starts : pc'[m] \in StartPcs
         /\ \A d \in Stops : pc'[d] \in StopPcs
BY ConstantsAssumption DEF TypeOK, Goto, Commands

LEMMA TypeInit == Init => TypeOK
<1> SUFFICES ASSUME Init PROVE TypeOK
  OBVIOUS
<1>1. /\ stateFile \in Starts \union {None} /\ lockFile \in BOOLEAN
      /\ recording \in [Sessions -> Starts \union {None}]
      /\ queued \in [Starts -> Nat] /\ loaded \in [Stops -> Starts \union {None}]
  BY DEF Init
<1>2. \A c \in Commands : pc[c] = "idle"
  BY DEF Init
<1>3. /\ pc \in [Commands -> StartPcs \union StopPcs]
      /\ \A c \in Starts : pc[c] \in StartPcs
      /\ \A c \in Stops : pc[c] \in StopPcs /\ ~Running(c)
  BY <1>2 DEF Init, Running, StartPcs, StopPcs, Commands
<1> QED
  BY <1>1, <1>3 DEF TypeOK

LEMMA TypeNext == TypeOK /\ [Next]_vars => TypeOK'
<1> SUFFICES ASSUME TypeOK, [Next]_vars PROVE TypeOK'
  OBVIOUS
<1> USE ConstantsAssumption
<1>1. ASSUME NEW m \in Starts, StartCheck(m) PROVE TypeOK'
  <2>1. CASE End(m)
    BY <1>1, <2>1, EndType DEF StartCheck, TypeOK, Commands
  <2>2. CASE Goto(m, "lock") /\ UNCHANGED loaded
    <3>1. /\ pc' \in [Commands -> StartPcs \union StopPcs]
          /\ \A n \in Starts : pc'[n] \in StartPcs
          /\ \A d \in Stops : pc'[d] \in StopPcs
      BY <2>2, GotoType DEF Commands, StartPcs
    <3> QED
      BY <1>1, <2>2, <3>1 DEF StartCheck, TypeOK, Goto, Running, Commands
  <2> QED
    BY <1>1, <2>1, <2>2 DEF StartCheck
<1>2. ASSUME NEW m \in Starts, StartRecorder(m) \/ WriteState(m) PROVE TypeOK'
  BY <1>2 DEF StartRecorder, WriteState, TypeOK, Goto, Running, StartPcs, StopPcs, Commands
<1>3. ASSUME NEW c \in Stops, StopLoad(c) \/ StopRecorder(c) \/ ClearState(c) PROVE TypeOK'
  BY <1>3 DEF StopLoad, StopRecorder, ClearState, TypeOK, Goto, Running, StartPcs, StopPcs, Commands
<1>4. ASSUME NEW c \in Stops, Trigger(c) \/ TriggerFails(c) PROVE TypeOK'
  <2>1. c \in Commands /\ End(c)
    BY <1>4 DEF Trigger, TriggerFails, Commands
  <2>2. queued' \in [Starts -> Nat]
    BY <1>4 DEF Trigger, TriggerFails, TypeOK, Running
  <2> QED
    BY <1>4, <2>1, <2>2, EndType DEF Trigger, TriggerFails, TypeOK
<1>5. ASSUME NEW c \in Commands, Lock(c) \/ Unlock(c) PROVE TypeOK'
  <2>1. CASE End(c)
    BY <1>5, <2>1, EndType DEF Lock, Unlock, TypeOK
  <2>2. CASE Goto(c, "recorder") /\ UNCHANGED loaded
    <3>1. /\ pc' \in [Commands -> StartPcs \union StopPcs]
          /\ \A n \in Starts : pc'[n] \in StartPcs
          /\ \A d \in Stops : pc'[d] \in StopPcs
      BY <2>2, GotoType DEF StartPcs, StopPcs
    <3>2. Lock(c)
      BY <1>5, <2>2 DEF Unlock, End, Goto, TypeOK
    <3> QED
      BY <2>2, <3>1, <3>2 DEF Lock, TypeOK, Goto, Running, Commands
  <2>3. CASE c \in Stops /\ Goto(c, "trigger") /\ UNCHANGED loaded
    <3>1. /\ pc' \in [Commands -> StartPcs \union StopPcs]
          /\ \A n \in Starts : pc'[n] \in StartPcs
          /\ \A d \in Stops : pc'[d] \in StopPcs
      BY <2>3, GotoType DEF StopPcs
    <3> QED
      BY <1>5, <2>3, <3>1 DEF Lock, Unlock, TypeOK, Goto, Running, Commands
  <2> QED
    BY <1>5, <2>1, <2>2, <2>3 DEF Lock, Unlock
<1>6. ASSUME NEW c \in Commands, Fault(c) PROVE TypeOK'
  BY <1>6, EndType DEF Fault, RecorderFails, Abort, Crash, TypeOK
<1>7. CASE RemoveStaleLock
  BY <1>7 DEF RemoveStaleLock, TypeOK, Running
<1>8. CASE UNCHANGED vars
  BY <1>8 DEF vars, TypeOK, Running
<1> QED
  BY <1>1, <1>2, <1>3, <1>4, <1>5, <1>6, <1>7, <1>8 DEF Next, StartStep, StopStep

(* Every step of every command keeps TypeOK. *)
THEOREM TypeCorrect == Spec => []TypeOK
BY TypeInit, TypeNext, PTL DEF Spec

-----------------------------------------------------------------------------
(* Mutual exclusion *)

(* A step of one command leaves the others where they are. *)
LEMMA OneMoves ==
  ASSUME TypeOK, NEW c \in Commands,
         End(c) \/ \E label \in StartPcs \union StopPcs : Goto(c, label)
  PROVE  \A d \in Commands : d # c => pc'[d] = pc[d]
BY DEF End, Goto, TypeOK

(* The lock file changes hands only by Lock, and only when it is free.     *)
THEOREM MutualExclusion == Spec => []LockExclusion
<1>1. Init => LockExclusion
  BY DEF Init, LockExclusion, Inside
<1>2. TypeOK /\ LockExclusion /\ [Next]_vars => LockExclusion'
  <2> SUFFICES ASSUME TypeOK, LockExclusion, [Next]_vars PROVE LockExclusion'
    OBVIOUS
  <2> USE ConstantsAssumption DEF Inside
  <2>1. ASSUME NEW c \in Commands,
               \A d \in Commands : d # c => pc'[d] = pc[d],
               \/ pc'[c] \in Inside => pc[c] \in Inside /\ lockFile' = lockFile
               \/ ~lockFile /\ lockFile',
               pc[c] \in Inside \/ (lockFile => lockFile')
        PROVE  LockExclusion'
    BY <2>1 DEF LockExclusion
  <2>2. ASSUME NEW m \in Starts, StartCheck(m) PROVE LockExclusion'
    <3>1. /\ \A d \in Commands : d # m => pc'[d] = pc[d]
          /\ pc'[m] \in {"lock", "done"} /\ m \in Commands /\ lockFile' = lockFile
      BY <2>2 DEF StartCheck, End, Goto, TypeOK, Commands
    <3> QED
      BY <2>1, <3>1
  <2>3. ASSUME NEW m \in Starts, StartRecorder(m) \/ WriteState(m) PROVE LockExclusion'
    <3>1. /\ \A d \in Commands : d # m => pc'[d] = pc[d]
          /\ pc[m] \in Inside /\ m \in Commands /\ lockFile' = lockFile
      BY <2>3 DEF StartRecorder, WriteState, Goto, TypeOK, Commands
    <3> QED
      BY <2>1, <3>1
  <2>4. ASSUME NEW c \in Stops, StopStep(c) PROVE LockExclusion'
    <3>1. /\ \A d \in Commands : d # c => pc'[d] = pc[d]
          /\ pc[c] \in Inside \/ pc'[c] \in {"lock", "idle"}
          /\ c \in Commands /\ lockFile' = lockFile
      BY <2>4 DEF StopStep, StopLoad, StopRecorder, ClearState, Trigger, TriggerFails,
         End, Goto, TypeOK, Commands
    <3> QED
      BY <2>1, <3>1
  <2>5. ASSUME NEW c \in Commands, Lock(c) PROVE LockExclusion'
    <3>1. /\ \A d \in Commands : d # c => pc'[d] = pc[d]
          /\ \/ ~lockFile /\ lockFile'
             \/ pc'[c] \notin Inside /\ lockFile' = lockFile
      BY <2>5 DEF Lock, End, Goto, TypeOK
    <3> QED
      BY <2>1, <3>1
  <2>6. ASSUME NEW c \in Commands, Unlock(c) \/ Fault(c) PROVE LockExclusion'
    <3>1. /\ \A d \in Commands : d # c => pc'[d] = pc[d]
          /\ pc'[c] \notin Inside
          /\ pc[c] \in Inside \/ lockFile' = lockFile
      BY <2>6 DEF Unlock, Fault, RecorderFails, Abort, Crash, End, Goto, TypeOK
    <3> QED
      BY <2>1, <3>1
  <2>7. CASE RemoveStaleLock
    BY <2>7 DEF RemoveStaleLock, LockExclusion
  <2>8. CASE UNCHANGED vars
    BY <2>8 DEF vars, LockExclusion
  <2> QED
    BY <2>2, <2>3, <2>4, <2>5, <2>6, <2>7, <2>8 DEF Next, StartStep
<1> QED
  BY <1>1, <1>2, TypeCorrect, PTL DEF Spec

-----------------------------------------------------------------------------
(* Jobs are queued only for audio that is complete                         *)

(* A recording that the state file, a stop or the queue knows of is past   *)
(* its start; what a session records began on that session; and a stop     *)
(* that has stopped the recorder holds a recording that is not running.    *)
Known(m) == stateFile = m \/ (\E c \in Stops : loaded[c] = m) \/ queued[m] > 0

IsRecorded(m) == \E s \in Sessions : recording[s] = m

Past == {"clear", "unlock", "trigger"}

AudioInv ==
  /\ \A m \in Starts : Known(m) => pc[m] \in {"unlock", "done"}
  /\ \A m \in Starts, s \in Sessions : recording[s] = m => s = SessionOf[m]
  /\ \A c \in Stops : pc[c] \in Past => ~IsRecorded(loaded[c])
  /\ JobsAreStopped

(* A step that starts no recording, and makes no recording known that was  *)
(* not, keeps AudioInv if the stops that are past their recorder hold none *)
(* that runs.                                                              *)
LEMMA AudioKept ==
  ASSUME TypeOK, AudioInv,
         \A s \in Sessions : recording'[s] \in {recording[s], None},
         \A m \in Starts : Known(m)' => Known(m) \/ pc'[m] \in {"unlock", "done"},
         \A m \in Starts : pc[m] \in {"unlock", "done"} => pc'[m] \in {"unlock", "done"},
         \A m \in Starts : queued'[m] > 0 => queued[m] > 0 \/ ~IsRecorded(m),
         \A c \in Stops : pc'[c] \in Past => ~IsRecorded(loaded[c])'
  PROVE  AudioInv'
<1>1. \A m \in Starts : IsRecorded(m)' => IsRecorded(m)
  BY ConstantsAssumption DEF IsRecorded
<1>2. \A m \in Starts, s \in Sessions : recording'[s] = m => s = SessionOf[m]
  BY ConstantsAssumption DEF AudioInv
<1>3. JobsAreStopped'
  <2> SUFFICES ASSUME NEW m \in Starts, queued'[m] > 0, NEW s \in Sessions,
                      recording'[s] = m
               PROVE  FALSE
    BY DEF JobsAreStopped
  <2>1. IsRecorded(m)
    BY <1>1 DEF IsRecorded
  <2>2. queued[m] > 0
    BY <2>1
  <2> QED
    BY <2>1, <2>2 DEF AudioInv, JobsAreStopped, IsRecorded
<1> QED
  BY <1>2, <1>3 DEF AudioInv

LEMMA AudioInit == Init => AudioInv
<1> SUFFICES ASSUME Init PROVE AudioInv
  OBVIOUS
<1>1. ASSUME NEW m \in Starts PROVE ~Known(m) /\ ~IsRecorded(m)
  BY ConstantsAssumption DEF Init, Known, IsRecorded
<1>2. \A c \in Stops : pc[c] \notin Past
  BY DEF Init, Past, Commands
<1>3. JobsAreStopped
  BY DEF Init, JobsAreStopped
<1> QED
  BY <1>1, <1>2, <1>3 DEF AudioInv, IsRecorded

(* The one step that starts a recording: the start is not known yet.       *)
LEMMA StartRecorderAudio ==
  ASSUME TypeOK, AudioInv, NEW m \in Starts, StartRecorder(m)
  PROVE  AudioInv'
<1>1. /\ pc[m] = "recorder" /\ pc' = [pc EXCEPT ![m] = "write"]
      /\ UNCHANGED <<stateFile, queued, loaded>>
      /\ recording' = [recording EXCEPT ![SessionOf[m]] = IF @ = None THEN m ELSE @]
  BY DEF StartRecorder, Goto
<1>2. ~Known(m)
  BY <1>1 DEF AudioInv
<1>3. \A n \in Starts : n # m => (IsRecorded(n)' => IsRecorded(n))
  BY <1>1 DEF IsRecorded, TypeOK
<1>4. \A n \in Starts : Known(n)' = Known(n)
  BY <1>1 DEF Known
<1>5. \A n \in Starts : Known(n)' => pc'[n] \in {"unlock", "done"}
  BY <1>1, <1>2, <1>4 DEF AudioInv, TypeOK, Commands
<1>6. \A n \in Starts, s \in Sessions : recording'[s] = n => s = SessionOf[n]
  BY <1>1 DEF AudioInv, TypeOK
<1>7. ASSUME NEW c \in Stops, pc'[c] \in Past PROVE ~IsRecorded(loaded[c])'
  <2>1. pc[c] = pc'[c] /\ loaded[c] \in Starts /\ loaded' = loaded
    BY <1>1, <1>7, ConstantsAssumption DEF TypeOK, Running, Past, Commands
  <2>2. loaded[c] # m
    BY <1>2 DEF Known
  <2> QED
    BY <1>3, <1>7, <2>1, <2>2 DEF AudioInv
<1>8. JobsAreStopped'
  <2> SUFFICES ASSUME NEW n \in Starts, queued'[n] > 0, NEW s \in Sessions,
                      recording'[s] = n
               PROVE  FALSE
    BY DEF JobsAreStopped
  <2>1. queued[n] > 0 /\ n # m
    BY <1>1, <1>2 DEF Known
  <2>2. IsRecorded(n)
    BY <1>3, <2>1 DEF IsRecorded
  <2> QED
    BY <2>1, <2>2 DEF AudioInv, JobsAreStopped, IsRecorded
<1> QED
  BY <1>5, <1>6, <1>7, <1>8 DEF AudioInv

(* A step that leaves the recorder and the queue alone. *)
LEMMA QuietAudio ==
  ASSUME TypeOK, TypeOK', AudioInv, UNCHANGED <<recording, queued>>,
         \A m \in Starts : stateFile' = m => Known(m) \/ pc'[m] \in {"unlock", "done"},
         \A c \in Stops : loaded'[c] \in {None, loaded[c], stateFile},
         \A m \in Starts : pc[m] \in {"unlock", "done"} => pc'[m] \in {"unlock", "done"},
         \A c \in Stops : pc'[c] \in Past => pc[c] \in Past /\ loaded'[c] = loaded[c]
  PROVE  AudioInv'
<1>1. \A s \in Sessions : recording'[s] \in {recording[s], None}
  OBVIOUS
<1>2. \A m \in Starts : Known(m)' => Known(m) \/ pc'[m] \in {"unlock", "done"}
  BY ConstantsAssumption DEF Known
<1>3. \A c \in Stops : pc'[c] \in Past => ~IsRecorded(loaded[c])'
  BY DEF AudioInv, IsRecorded
<1>4. \A m \in Starts : queued'[m] > 0 => queued[m] > 0
  OBVIOUS
<1> QED
  BY <1>1, <1>2, <1>3, <1>4, AudioKept

LEMMA AudioNext == TypeOK /\ TypeOK' /\ AudioInv /\ [Next]_vars => AudioInv'
<1> SUFFICES ASSUME TypeOK, TypeOK', AudioInv, [Next]_vars PROVE AudioInv'
  OBVIOUS
<1> USE ConstantsAssumption
<1>1. ASSUME NEW m \in Starts, StartCheck(m) \/ WriteState(m) PROVE AudioInv'
  <2>1. UNCHANGED <<recording, queued>>
    BY <1>1 DEF StartCheck, WriteState
  <2>2. stateFile' = stateFile \/ (stateFile' = m /\ pc'[m] = "unlock")
    BY <1>1 DEF StartCheck, WriteState, Goto, TypeOK, Commands
  <2>3. /\ \A c \in Stops : loaded'[c] \in {None, loaded[c]} /\ pc'[c] = pc[c]
        /\ \A c \in Stops : loaded'[c] = loaded[c]
        /\ \A n \in Starts : pc[n] \in {"unlock", "done"} => pc'[n] \in {"unlock", "done"}
    BY <1>1 DEF StartCheck, WriteState, End, Goto, TypeOK, Commands
  <2> QED
    BY <2>1, <2>2, <2>3, QuietAudio DEF Known
<1>2. ASSUME NEW m \in Starts, StartRecorder(m) PROVE AudioInv'
  BY <1>2, StartRecorderAudio
<1>3. ASSUME NEW c \in Stops, StopLoad(c) \/ ClearState(c) \/ TriggerFails(c) PROVE AudioInv'
  <2>1. /\ UNCHANGED <<recording, queued>> /\ stateFile' \in {stateFile, None}
        /\ \A m \in Starts : pc'[m] = pc[m]
        /\ \A d \in Stops : loaded'[d] \in {None, loaded[d], stateFile}
        /\ \A d \in Stops : pc'[d] \in Past => pc[d] \in Past /\ loaded'[d] = loaded[d]
    BY <1>3 DEF StopLoad, ClearState, TriggerFails, End, Goto, TypeOK, Commands, Past
  <2> QED
    BY <2>1, QuietAudio DEF Known
<1>4. ASSUME NEW c \in Stops, StopRecorder(c) PROVE AudioInv'
  <2>1. /\ UNCHANGED <<stateFile, queued, loaded>> /\ pc' = [pc EXCEPT ![c] = "clear"]
        /\ recording' = [recording EXCEPT ![SessionOf[loaded[c]]] = None]
        /\ loaded[c] \in Starts
    BY <1>4 DEF StopRecorder, Goto, TypeOK, Running
  <2>2. \A s \in Sessions : recording'[s] \in {recording[s], None}
    BY <2>1 DEF TypeOK
  <2>3. ~IsRecorded(loaded[c])'
    BY <2>1 DEF IsRecorded, AudioInv, TypeOK
  <2>4. ASSUME NEW d \in Stops, pc'[d] \in Past PROVE ~IsRecorded(loaded[d])'
    <3>1. CASE d = c
      BY <2>1, <2>3, <3>1
    <3>2. CASE d # c
      <4>1. pc[d] \in Past /\ loaded[d] \in Starts
        BY <2>1, <2>4, <3>2 DEF TypeOK, Running, Past, Commands
      <4> QED
        BY <2>1, <2>2, <4>1 DEF AudioInv, IsRecorded
    <3> QED
      BY <3>1, <3>2
  <2>5. \A m \in Starts : pc'[m] = pc[m] /\ (Known(m)' => Known(m))
    BY <2>1 DEF Known, TypeOK, Commands
  <2> QED
    BY <2>1, <2>2, <2>4, <2>5, AudioKept
<1>5. ASSUME NEW c \in Stops, Trigger(c) PROVE AudioInv'
  <2>1. /\ UNCHANGED <<stateFile, recording>> /\ pc[c] = "trigger"
        /\ queued' = [queued EXCEPT ![loaded[c]] = @ + 1]
        /\ \A m \in Starts : pc'[m] = pc[m]
        /\ \A d \in Stops : loaded'[d] \in {None, loaded[d]}
        /\ \A d \in Stops : pc'[d] \in Past => pc[d] \in Past /\ loaded'[d] = loaded[d]
    BY <1>5 DEF Trigger, End, Goto, TypeOK, Commands, Past
  <2>2. loaded[c] \in Starts /\ Known(loaded[c]) /\ ~IsRecorded(loaded[c])
    BY <2>1 DEF TypeOK, Running, Known, AudioInv, Past
  <2>3. \A m \in Starts : queued'[m] > 0 => queued[m] > 0 \/ m = loaded[c]
    BY <2>1 DEF TypeOK
  <2>4. \A m \in Starts : Known(m)' => Known(m)
    BY <2>1, <2>2, <2>3 DEF Known
  <2>5. \A d \in Stops : pc'[d] \in Past => ~IsRecorded(loaded[d])'
    BY <2>1 DEF AudioInv, IsRecorded
  <2> QED
    BY <2>1, <2>2, <2>3, <2>4, <2>5, AudioKept
<1>6. ASSUME NEW c \in Commands, Lock(c) \/ Unlock(c) \/ Fault(c) PROVE AudioInv'
  <2>1. UNCHANGED <<stateFile, recording, queued>>
    BY <1>6 DEF Lock, Unlock, Fault, RecorderFails, Abort, Crash
  <2>2. /\ \A m \in Starts : pc[m] \in {"unlock", "done"} => pc'[m] \in {"unlock", "done"}
        /\ \A d \in Stops : loaded'[d] \in {None, loaded[d]}
        /\ \A d \in Stops : pc'[d] \in Past => pc[d] \in Past /\ loaded'[d] = loaded[d]
    BY <1>6 DEF Lock, Unlock, Fault, RecorderFails, Abort, Crash, End, Goto, TypeOK,
       Commands, Past, Running
  <2> QED
    BY <2>1, <2>2, QuietAudio DEF Known
<1>7. CASE RemoveStaleLock \/ UNCHANGED vars
  <2>1. UNCHANGED <<stateFile, recording, queued, pc, loaded>>
    BY <1>7 DEF RemoveStaleLock, vars
  <2> QED
    BY <2>1, QuietAudio DEF Known
<1> QED
  BY <1>1, <1>2, <1>3, <1>4, <1>5, <1>6, <1>7 DEF Next, StartStep, StopStep

(* Whatever starts and stops race or die, the audio of a queued job is     *)
(* complete. *)
THEOREM OnlyCompleteAudioIsQueued == Spec => []JobsAreStopped
<1>1. AudioInv => JobsAreStopped
  BY DEF AudioInv
<1> QED
  BY <1>1, AudioInit, AudioNext, TypeCorrect, PTL DEF Spec

-----------------------------------------------------------------------------
(* One command at a time                                                   *)

Handing == {"unlock", "trigger"}

(* With a single command running, what it read is still so: a start that   *)
(* has checked finds no state, a stop finds the state it has loaded.       *)
SerialInv ==
  /\ \A c, d \in Commands : Running(c) /\ Running(d) => c = d
  /\ \A m \in Starts : pc[m] \in {"lock", "recorder", "write"} => stateFile = None
  /\ \A c \in Stops : pc[c] \in {"lock", "recorder", "clear"} => stateFile = loaded[c]
  /\ \A c \in Stops : pc[c] \in Handing => stateFile = None /\ queued[loaded[c]] = 0
  /\ stateFile # None => queued[stateFile] = 0
  /\ OneJobPerRecording

(* The command that moves is the only one that runs. *)
LEMMA Alone ==
  ASSUME ~Overlap, TypeOK, SerialInv, NEW c \in Commands, Running(c) \/ MayBegin,
         End(c) \/ \E label \in StartPcs \union StopPcs : Goto(c, label)
  PROVE  /\ \A d \in Commands : d # c => ~Running(d) /\ pc'[d] = pc[d] /\ ~Running(d)'
         /\ \A a, b \in Commands : Running(a)' /\ Running(b)' => a = b
<1>1. \A d \in Commands : d # c => ~Running(d) /\ pc'[d] = pc[d]
  BY OneMoves DEF SerialInv, MayBegin
<1> QED
  BY <1>1 DEF Running

(* Only the stop that moves may hold a recording to hand over. *)
LEMMA EndedOfStop ==
  ASSUME NEW c \in Stops, \A d \in Stops : d # c => ~Running(d)
  PROVE  Ended = IF pc[c] \in Handing THEN {loaded[c]} ELSE {}
BY DEF Ended, Running, Handing

LEMMA EndedOfStart ==
  ASSUME \A d \in Stops : ~Running(d)
  PROVE  Ended = {}
BY DEF Ended, Running

LEMMA StartSerial ==
  ASSUME ~Overlap, TypeOK, AudioInv, SerialInv, NEW m \in Starts,
         StartStep(m) \/ Lock(m) \/ Unlock(m) \/ Fault(m)
  PROVE  SerialInv' /\ [Session!Next]_(Session!vars)
<1> USE ConstantsAssumption
<1>1. /\ m \in Commands /\ m \notin Stops /\ UNCHANGED queued
      /\ Running(m) \/ MayBegin
      /\ End(m) \/ \E label \in StartPcs \union StopPcs : Goto(m, label)
  BY DEF StartStep, StartCheck, StartRecorder, WriteState, Lock, Unlock, Fault,
     RecorderFails, Abort, Crash, Running, Commands, StartPcs, StopPcs, Inside
<1>2. /\ \A d \in Commands : d # m => ~Running(d) /\ pc'[d] = pc[d] /\ ~Running(d)'
      /\ \A a, b \in Commands : Running(a)' /\ Running(b)' => a = b
  BY <1>1, Alone
<1>3. /\ \A c \in Stops : ~Running(c) /\ ~Running(c)'
      /\ \A n \in Starts : n # m => ~Running(n)'
  BY <1>1, <1>2 DEF Commands
<1>4. Ended = {} /\ Ended' = {}
  BY <1>3, EndedOfStart DEF Ended, Running
<1>5. CASE WriteState(m)
  <2>1. pc[m] = "write" /\ pc' = [pc EXCEPT ![m] = "unlock"] /\ stateFile' = m
    BY <1>5 DEF WriteState, Goto
  <2>2. stateFile = None /\ ~Known(m)
    BY <2>1 DEF SerialInv, AudioInv
  <2>3. queued[m] = 0 /\ m # None
    BY <2>2 DEF Known, TypeOK
  <2>4. SerialInv'
    BY <1>1, <1>2, <1>3, <2>1, <2>3 DEF SerialInv, OneJobPerRecording, Running, Handing,
       TypeOK, Commands
  <2>5. Session!Begin(m)
    BY <1>1, <1>4, <2>1, <2>2, <2>3 DEF Session!Begin
  <2> QED
    BY <2>4, <2>5 DEF Session!Next
<1>6. CASE UNCHANGED stateFile
  <2>1. ASSUME pc'[m] \in {"lock", "recorder", "write"} PROVE stateFile = None
    BY <1>1, <2>1 DEF SerialInv, StartStep, StartCheck, StartRecorder, WriteState, Lock, Unlock,
       Fault, RecorderFails, Abort, Crash, End, Goto, TypeOK
  <2>2. SerialInv'
    BY <1>1, <1>2, <1>3, <1>6, <2>1 DEF SerialInv, OneJobPerRecording, Running, Handing
  <2> QED
    BY <1>1, <1>4, <1>6, <2>2 DEF Session!vars
<1> QED
  BY <1>5, <1>6 DEF StartStep, StartCheck, StartRecorder, Lock, Unlock, Fault,
     RecorderFails, Abort, Crash

LEMMA StopSerial ==
  ASSUME ~Overlap, TypeOK, SerialInv, NEW c \in Stops,
         StopStep(c) \/ Lock(c) \/ Unlock(c) \/ Fault(c)
  PROVE  SerialInv' /\ [Session!Next]_(Session!vars)
<1> USE ConstantsAssumption
<1>1. /\ c \in Commands /\ c \notin Starts
      /\ Running(c) \/ MayBegin
      /\ End(c) \/ \E label \in StartPcs \union StopPcs : Goto(c, label)
  <2>1. c \in Commands /\ c \notin Starts
    BY DEF Commands
  <2>2. CASE StopStep(c)
    BY <2>1, <2>2 DEF StopStep, StopLoad, StopRecorder, ClearState, Trigger, TriggerFails,
       Running, StartPcs, StopPcs
  <2>3. CASE Lock(c) \/ Unlock(c) \/ Fault(c)
    BY <2>1, <2>3 DEF Lock, Unlock, Fault, RecorderFails, Abort, Crash, Running, StartPcs, StopPcs
  <2> QED
    BY <2>1, <2>2, <2>3
<1>2. /\ \A d \in Commands : d # c => ~Running(d) /\ pc'[d] = pc[d] /\ ~Running(d)'
      /\ \A a, b \in Commands : Running(a)' /\ Running(b)' => a = b
  BY <1>1, Alone
<1>3. /\ \A n \in Starts : ~Running(n) /\ ~Running(n)'
      /\ \A d \in Stops : d # c => ~Running(d) /\ ~Running(d)'
  BY <1>1, <1>2 DEF Commands
<1>4. /\ Ended = IF pc[c] \in Handing THEN {loaded[c]} ELSE {}
      /\ Ended' = IF pc'[c] \in Handing THEN {loaded'[c]} ELSE {}
  BY <1>3, EndedOfStop DEF Ended, Running, Handing
<1>5. /\ pc \in [Commands -> StartPcs \union StopPcs]
      /\ queued \in [Starts -> Nat]
      /\ loaded \in [Stops -> Starts \union {None}]
      /\ Running(c) => loaded[c] \in Starts
      /\ pc[c] \in {"lock", "recorder", "clear"} => stateFile = loaded[c]
      /\ pc[c] \in Handing => stateFile = None /\ queued[loaded[c]] = 0
  BY DEF TypeOK, SerialInv
<1>6. ASSUME pc'[c] \in {"lock", "recorder", "clear"} => stateFile' = loaded'[c],
             pc'[c] \in Handing => stateFile' = None /\ queued'[loaded'[c]] = 0,
             stateFile' # None => queued'[stateFile'] = 0,
             OneJobPerRecording'
      PROVE  SerialInv'
  BY <1>2, <1>3, <1>6 DEF SerialInv, Running, Handing
<1>7. CASE StopLoad(c) \/ StopRecorder(c)
  <2>1. /\ UNCHANGED <<stateFile, queued>> /\ stateFile = loaded'[c]
        /\ pc[c] \notin Handing /\ pc'[c] \in {"lock", "clear"}
    BY <1>1, <1>5, <1>7 DEF StopLoad, StopRecorder, Goto, Handing
  <2>2. SerialInv'
    BY <1>6, <2>1 DEF SerialInv, OneJobPerRecording, Handing
  <2> QED
    BY <1>4, <2>1, <2>2 DEF Session!vars, Handing
<1>8. CASE ClearState(c)
  <2>1. /\ pc[c] = "clear" /\ pc'[c] = "unlock" /\ stateFile' = None
        /\ UNCHANGED <<queued, loaded>> /\ stateFile = loaded[c] /\ loaded[c] \in Starts
    BY <1>1, <1>5, <1>8 DEF ClearState, Goto, Running
  <2>2. SerialInv'
    BY <1>6, <2>1 DEF SerialInv, OneJobPerRecording, Handing
  <2>3. Session!End
    BY <1>4, <2>1 DEF Session!End, Handing
  <2> QED
    BY <2>2, <2>3 DEF Session!Next
<1>9. CASE Trigger(c)
  <2>1. /\ pc[c] = "trigger" /\ pc'[c] = "idle" /\ UNCHANGED stateFile
        /\ queued' = [queued EXCEPT ![loaded[c]] = @ + 1]
        /\ loaded[c] \in Starts /\ stateFile = None /\ queued[loaded[c]] = 0
    BY <1>1, <1>5, <1>9 DEF Trigger, End, Goto, Running, Handing
  <2>2. OneJobPerRecording'
    BY <2>1 DEF SerialInv, OneJobPerRecording, TypeOK
  <2>3. SerialInv'
    BY <1>6, <2>1, <2>2 DEF Handing
  <2>4. Session!Hand(loaded[c])
    BY <1>4, <2>1 DEF Session!Hand, Handing
  <2> QED
    BY <2>1, <2>3, <2>4 DEF Session!Next
<1>10. CASE TriggerFails(c) \/ Fault(c)
  <2>1. pc'[c] = "idle" /\ UNCHANGED <<stateFile, queued>> /\ Running(c)
    BY <1>1, <1>5, <1>10 DEF TriggerFails, Fault, RecorderFails, Abort, Crash, End, Goto, Running
  <2>2. SerialInv'
    BY <1>6, <2>1 DEF SerialInv, OneJobPerRecording, Handing
  <2>3. CASE pc[c] \in Handing
    <3>1. Session!Drop(loaded[c])
      BY <1>4, <2>1, <2>3 DEF Session!Drop, Handing
    <3> QED
      BY <1>5, <2>1, <2>2, <3>1 DEF Session!Next
  <2>4. CASE pc[c] \notin Handing
    BY <1>4, <2>1, <2>2, <2>4 DEF Session!vars, Handing
  <2> QED
    BY <2>3, <2>4
<1>11. CASE Lock(c) \/ Unlock(c)
  <2>1. /\ UNCHANGED <<stateFile, queued>>
        /\ \/ pc[c] = "lock" /\ pc'[c] = "recorder" /\ loaded' = loaded
           \/ pc[c] = "lock" /\ pc'[c] = "idle"
           \/ pc[c] = "unlock" /\ pc'[c] = "trigger" /\ loaded' = loaded
    BY <1>1, <1>5, <1>11 DEF Lock, Unlock, End, Goto
  <2>2. SerialInv'
    BY <1>6, <2>1 DEF SerialInv, OneJobPerRecording, Handing
  <2> QED
    BY <1>4, <2>1, <2>2 DEF Session!vars, Handing
<1> QED
  BY <1>7, <1>8, <1>9, <1>10, <1>11 DEF StopStep

LEMMA SerialInit ==
  ASSUME Init
  PROVE  SerialInv /\ Session!Init
<1>1. /\ \A c \in Commands : ~Running(c) /\ pc[c] = "idle"
      /\ stateFile = None /\ queued = [m \in Starts |-> 0]
  BY DEF Init, Running
<1>2. Ended = {}
  BY <1>1 DEF Ended, Commands
<1>3. SerialInv
  BY <1>1 DEF SerialInv, OneJobPerRecording, Commands, Handing
<1> QED
  BY <1>1, <1>2, <1>3 DEF Session!Init

LEMMA SerialNext ==
  ASSUME ~Overlap, TypeOK, AudioInv, SerialInv, [Next]_vars
  PROVE  SerialInv' /\ [Session!Next]_(Session!vars)
<1>1. CASE RemoveStaleLock \/ UNCHANGED vars
  <2>1. UNCHANGED <<stateFile, queued, pc, loaded>>
    BY <1>1 DEF RemoveStaleLock, vars
  <2>2. SerialInv'
    BY <2>1 DEF SerialInv, OneJobPerRecording, Running
  <2> QED
    BY <2>1, <2>2 DEF Session!vars, Ended
<1>2. ASSUME NEW c \in Commands, Lock(c) \/ Unlock(c) \/ Fault(c)
      PROVE  SerialInv' /\ [Session!Next]_(Session!vars)
  BY <1>2, StartSerial, StopSerial DEF Commands
<1> QED
  BY <1>1, <1>2, StartSerial, StopSerial DEF Next

(* With one command at a time, start and stop are RecordingSession, for    *)
(* any number of recordings and whatever is killed. *)
THEOREM OneAtATimeIsASession ==
  ASSUME ~Overlap
  PROVE  Spec => SessionSpec
<1>1. Init => SerialInv /\ Session!Init
  BY SerialInit
<1>2. TypeOK /\ AudioInv /\ SerialInv /\ [Next]_vars
        => SerialInv' /\ [Session!Next]_(Session!vars)
  BY SerialNext
<1> QED
  BY <1>1, <1>2, AudioInit, AudioNext, TypeInit, TypeNext, PTL
  DEF Spec, SessionSpec, Session!Spec

(* ... and so no recording is ever queued twice. *)
THEOREM NeverQueuedTwice ==
  ASSUME ~Overlap
  PROVE  Spec => []OneJobPerRecording
<1>1. Init => SerialInv
  BY SerialInit
<1>2. TypeOK /\ AudioInv /\ SerialInv /\ [Next]_vars => SerialInv'
  BY SerialNext
<1>3. SerialInv => OneJobPerRecording
  BY DEF SerialInv
<1> QED
  BY <1>1, <1>2, <1>3, AudioInit, AudioNext, TypeInit, TypeNext, PTL DEF Spec

-----------------------------------------------------------------------------
(* The recorder and the state file                                         *)

(* The faults that are not in the history change nothing else. *)
LEMMA HistoryStep ==
  ASSUME [NextWithHistory]_<<vars, killed>>
  PROVE  [Next]_vars
BY DEF NextWithHistory, NextUnharmed, Next, Fault

NothingRecorded == \A s \in Sessions : recording[s] = None
OnlyRecorded(m) ==
  recording[SessionOf[m]] = m /\ \A s \in Sessions \ {SessionOf[m]} : recording[s] = None
Agrees == IF stateFile = None THEN NothingRecorded ELSE OnlyRecorded(stateFile)

(* Until a command is killed, the recorder is ahead of the state file only *)
(* in the hands of the command that is about to write it. *)
MatchInv ==
  killed = {} =>
    /\ \A m \in Starts : pc[m] = "write" => OnlyRecorded(m)
    /\ \A c \in Stops : pc[c] = "clear" => NothingRecorded
    /\ (\A c \in Commands : pc[c] \notin {"write", "clear"}) => Agrees

LEMMA MatchInit == InitWithHistory => MatchInv
BY DEF InitWithHistory, Init, MatchInv, Agrees, NothingRecorded, Commands

(* A step that leaves the recorder and the state file alone. *)
LEMMA QuietMatch ==
  ASSUME MatchInv, killed = {}, UNCHANGED <<stateFile, recording>>,
         \A c \in Commands : pc'[c] \in {"write", "clear"} <=> pc[c] \in {"write", "clear"},
         \A c \in Commands : pc'[c] \in {"write", "clear"} => pc'[c] = pc[c]
  PROVE  MatchInv'
<1>1. Starts \subseteq Commands /\ Stops \subseteq Commands
  BY DEF Commands
<1> QED
  BY <1>1 DEF MatchInv, Agrees, NothingRecorded, OnlyRecorded

LEMMA MatchNext ==
  ASSUME ~Overlap, TypeOK, AudioInv, SerialInv, MatchInv, [NextWithHistory]_<<vars, killed>>
  PROVE  MatchInv'
<1> SUFFICES ASSUME killed' = {} PROVE MatchInv'
  BY DEF MatchInv
<1> USE ConstantsAssumption
<1>1. /\ pc \in [Commands -> StartPcs \union StopPcs] /\ recording \in [Sessions -> Starts \union {None}]
      /\ Starts \subseteq Commands /\ Stops \subseteq Commands
      /\ \A m \in Starts : pc[m] # "clear"
      /\ \A c \in Stops : pc[c] # "write"
  BY DEF TypeOK, Commands, StartPcs, StopPcs
<1>2. killed = {} /\ (NextUnharmed \/ UNCHANGED vars)
  BY DEF NextWithHistory
<1>3. ASSUME NEW m \in Starts, StartRecorder(m) PROVE MatchInv'
  <2>1. /\ pc[m] = "recorder" /\ pc' = [pc EXCEPT ![m] = "write"] /\ UNCHANGED stateFile
        /\ recording' = [recording EXCEPT ![SessionOf[m]] = IF @ = None THEN m ELSE @]
    BY <1>3 DEF StartRecorder, Goto
  <2>2. \A c \in Commands : c # m => ~Running(c)
    BY <1>1, <2>1 DEF SerialInv, Running
  <2>3. \A c \in Commands : pc[c] \notin {"write", "clear"}
    BY <2>1, <2>2 DEF Running
  <2>4. NothingRecorded
    BY <1>2, <2>1, <2>3 DEF MatchInv, Agrees, SerialInv
  <2>5. OnlyRecorded(m)'
    BY <1>1, <2>1, <2>4 DEF OnlyRecorded, NothingRecorded
  <2>6. pc'[m] = "write" /\ \A c \in Commands : c # m => pc'[c] \notin {"write", "clear"}
    BY <1>1, <2>1, <2>3
  <2> QED
    BY <1>1, <2>5, <2>6 DEF MatchInv
<1>4. ASSUME NEW m \in Starts, WriteState(m) PROVE MatchInv'
  <2>1. pc[m] = "write" /\ pc' = [pc EXCEPT ![m] = "unlock"] /\ stateFile' = m /\ UNCHANGED recording
    BY <1>4 DEF WriteState, Goto
  <2>2. \A c \in Commands : c # m => ~Running(c)
    BY <1>1, <2>1 DEF SerialInv, Running
  <2>3. \A c \in Commands : pc'[c] \notin {"write", "clear"}
    BY <1>1, <2>1, <2>2 DEF Running
  <2>4. OnlyRecorded(m)' /\ m # None
    BY <1>2, <2>1 DEF MatchInv, OnlyRecorded
  <2>5. Agrees'
    BY <2>1, <2>4 DEF Agrees, OnlyRecorded
  <2> QED
    BY <1>1, <2>3, <2>5 DEF MatchInv
<1>5. ASSUME NEW c \in Stops, StopRecorder(c) PROVE MatchInv'
  <2>1. /\ pc[c] = "recorder" /\ pc' = [pc EXCEPT ![c] = "clear"]
        /\ recording' = [recording EXCEPT ![SessionOf[loaded[c]]] = None]
        /\ loaded[c] \in Starts /\ stateFile = loaded[c]
    BY <1>5 DEF StopRecorder, Goto, TypeOK, Running, SerialInv
  <2>2. \A d \in Commands : d # c => ~Running(d)
    BY <1>1, <2>1 DEF SerialInv, Running
  <2>3. \A d \in Commands : pc[d] \notin {"write", "clear"}
    BY <2>1, <2>2 DEF Running
  <2>4. OnlyRecorded(loaded[c])
    BY <1>2, <2>1, <2>3 DEF MatchInv, Agrees
  <2>5. NothingRecorded'
    BY <1>1, <2>1, <2>4 DEF OnlyRecorded, NothingRecorded
  <2>6. pc'[c] = "clear" /\ \A d \in Commands : d # c => pc'[d] \notin {"write", "clear"}
    BY <1>1, <2>1, <2>3
  <2> QED
    BY <1>1, <2>5, <2>6 DEF MatchInv
<1>6. ASSUME NEW c \in Stops, ClearState(c) PROVE MatchInv'
  <2>1. pc[c] = "clear" /\ pc' = [pc EXCEPT ![c] = "unlock"] /\ stateFile' = None /\ UNCHANGED recording
    BY <1>6 DEF ClearState, Goto
  <2>2. \A d \in Commands : d # c => ~Running(d)
    BY <1>1, <2>1 DEF SerialInv, Running
  <2>3. \A d \in Commands : pc'[d] \notin {"write", "clear"}
    BY <1>1, <2>1, <2>2 DEF Running
  <2>4. NothingRecorded'
    BY <1>2, <2>1 DEF MatchInv, NothingRecorded
  <2>5. Agrees'
    BY <2>1, <2>4 DEF Agrees
  <2> QED
    BY <1>1, <2>3, <2>5 DEF MatchInv
<1>7. ASSUME NEW m \in Starts, StartCheck(m) PROVE MatchInv'
  <2>1. /\ UNCHANGED <<stateFile, recording>>
        /\ \A c \in Commands : pc'[c] = pc[c] \/ (pc[c] = "idle" /\ pc'[c] \in {"lock", "done"})
    BY <1>1, <1>7 DEF StartCheck, End, Goto
  <2> QED
    BY <1>2, <2>1, QuietMatch
<1>8. ASSUME NEW c \in Stops, StopLoad(c) \/ Trigger(c) \/ TriggerFails(c) PROVE MatchInv'
  <2>1. /\ UNCHANGED <<stateFile, recording>>
        /\ \A d \in Commands : pc'[d] = pc[d] \/ (pc[d] \in {"idle", "trigger"} /\ pc'[d] \in {"lock", "idle", "done"})
    BY <1>1, <1>8 DEF StopLoad, Trigger, TriggerFails, End, Goto
  <2> QED
    BY <1>2, <2>1, QuietMatch
<1>9. ASSUME NEW c \in Commands, Lock(c) \/ Unlock(c) \/ RecorderFails(c) PROVE MatchInv'
  <2>1. /\ UNCHANGED <<stateFile, recording>>
        /\ \A d \in Commands : \/ pc'[d] = pc[d]
                               \/ /\ pc[d] \in {"lock", "unlock", "recorder"}
                                  /\ pc'[d] \in {"recorder", "trigger", "idle", "done"}
    BY <1>1, <1>9 DEF Lock, Unlock, RecorderFails, End, Goto
  <2> QED
    BY <1>2, <2>1, QuietMatch
<1>10. CASE RemoveStaleLock \/ UNCHANGED vars
  <2>1. UNCHANGED <<stateFile, recording, pc>>
    BY <1>10 DEF RemoveStaleLock, vars
  <2> QED
    BY <1>2, <2>1, QuietMatch
<1> QED
  BY <1>2, <1>3, <1>4, <1>5, <1>6, <1>7, <1>8, <1>9, <1>10 DEF NextUnharmed, StartStep, StopStep

LEMMA MatchIsKept ==
  ASSUME TypeOK, AudioInv, MatchInv
  PROVE  RecorderMatchesState
<1> SUFFICES ASSUME killed = {}, \A c \in Commands : ~Running(c)
             PROVE  {recording[s] : s \in Sessions} \ {None} = {stateFile} \ {None}
  BY DEF RecorderMatchesState
<1>1. Agrees
  BY DEF MatchInv, Running
<1>2. CASE stateFile = None
  BY <1>1, <1>2 DEF Agrees, NothingRecorded
<1>3. CASE stateFile # None
  <2>1. stateFile \in Starts /\ SessionOf[stateFile] \in Sessions
    BY <1>3, ConstantsAssumption DEF TypeOK
  <2> QED
    BY <1>1, <1>3, <2>1 DEF Agrees, OnlyRecorded
<1> QED
  BY <1>2, <1>3

(* With one command at a time and none killed, Audio Hijack records what   *)
(* the state file says, and nothing else, even where Audio Hijack or the   *)
(* queue failed a command. *)
THEOREM RecorderAgreesWithState ==
  ASSUME ~Overlap
  PROVE  SpecWithHistory => []RecorderMatchesState
<1> DEFINE Inv == TypeOK /\ AudioInv /\ SerialInv /\ MatchInv
<1>1. InitWithHistory => Inv
  BY TypeInit, AudioInit, SerialInit, MatchInit DEF InitWithHistory
<1>2. Inv /\ [NextWithHistory]_<<vars, killed>> => Inv'
  <2> SUFFICES ASSUME Inv, [NextWithHistory]_<<vars, killed>> PROVE Inv'
    OBVIOUS
  <2>1. [Next]_vars
    BY HistoryStep
  <2>2. TypeOK'
    BY <2>1, TypeNext
  <2>3. AudioInv' /\ SerialInv' /\ MatchInv'
    BY <2>1, <2>2, AudioNext, SerialNext, MatchNext
  <2> QED
    BY <2>2, <2>3
<1>3. Inv => RecorderMatchesState
  BY MatchIsKept
<1> QED
  BY <1>1, <1>2, <1>3, PTL DEF SpecWithHistory
=============================================================================
