-------------------------- MODULE RecordingSession --------------------------
(***************************************************************************)
(* What `start` and `stop` promise: one meeting is recorded at a time, and *)
(* each recording that was stopped is queued for processing once, or not   *)
(* at all if the command died or its queue write failed.                   *)
(***************************************************************************)
EXTENDS Naturals

CONSTANTS Starts,    \* recordings, one per `start`
          None

VARIABLES current,   \* the recording in progress, or None
          ended,     \* recordings stopped and not yet queued
          jobs       \* how often each recording was queued

vars == <<current, ended, jobs>>

Init == current = None /\ ended = {} /\ jobs = [m \in Starts |-> 0]

Begin(m) ==
  /\ current = None /\ m \notin ended /\ jobs[m] = 0
  /\ current' = m
  /\ UNCHANGED <<ended, jobs>>

End ==
  /\ current # None
  /\ current' = None
  /\ ended' = ended \union {current}
  /\ UNCHANGED jobs

Hand(m) ==
  /\ m \in ended
  /\ ended' = ended \ {m}
  /\ jobs' = [jobs EXCEPT ![m] = @ + 1]
  /\ UNCHANGED current

Drop(m) ==
  /\ m \in ended
  /\ ended' = ended \ {m}
  /\ UNCHANGED <<current, jobs>>

Next == End \/ \E m \in Starts : Begin(m) \/ Hand(m) \/ Drop(m)

Spec == Init /\ [][Next]_vars
=============================================================================
