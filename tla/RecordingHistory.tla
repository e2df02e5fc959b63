-------------------------- MODULE RecordingHistory --------------------------
(***************************************************************************)
(* RecordingControl with a history of the faults that end a command from   *)
(* outside, so that what holds only without them can be stated beside what *)
(* holds with them.                                                        *)
(***************************************************************************)
EXTENDS RecordingControl

VARIABLE killed   \* the kinds of those faults that have happened

InitWithHistory == Init /\ killed = {}

(* Next, with the faults that end a command apart. *)
NextUnharmed ==
  \/ \E m \in Starts : StartStep(m)
  \/ \E c \in Stops : StopStep(c)
  \/ \E c \in Commands : Lock(c) \/ Unlock(c) \/ RecorderFails(c)
  \/ RemoveStaleLock

NextWithHistory ==
  \/ NextUnharmed /\ UNCHANGED killed
  \/ (\E c \in Commands : Abort(c)) /\ killed' = killed \union {"abort"}
  \/ (\E c \in Commands : Crash(c)) /\ killed' = killed \union {"crash"}

SpecWithHistory ==
  InitWithHistory /\ [][NextWithHistory]_<<vars, killed>> /\ Fairness

(* When no command runs, and none was killed or interrupted, Audio Hijack  *)
(* records exactly what the state file says, even if Audio Hijack itself   *)
(* failed.  Holds for one command at a time. *)
RecorderMatchesState ==
  killed = {} /\ (\A c \in Commands : ~Running(c)) =>
    {recording[s] : s \in Sessions} \ {None} = {stateFile} \ {None}

(* Unless a command is killed, the lock is never left behind: it always    *)
(* becomes free again, whatever fails or is interrupted.                   *)
LockIsReleased == lockFile ~> ~lockFile \/ "crash" \in killed
=============================================================================
