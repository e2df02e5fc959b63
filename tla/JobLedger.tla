----------------------------- MODULE JobLedger -----------------------------
(***************************************************************************)
(* What the processing queue promises its users, with no file, lock or     *)
(* process in sight.  The books list the jobs the system still owes, those *)
(* it has finished, and those it put at risk by letting two writers touch  *)
(* one file or by dying between two writes.  A job leaves the books only   *)
(* when it is finished or at risk: nothing is forgotten silently.          *)
(***************************************************************************)
EXTENDS FiniteSets

CONSTANT Jobs      \* payloads that may be queued

VARIABLES owed,    \* jobs queued, dead-lettered or in a worker's hands
          done,    \* jobs whose processing chain has completed
          atRisk   \* jobs that an unlocked write or a crash may have dropped

vars == <<owed, done, atRisk>>

Init == owed = {} /\ done = {} /\ atRisk = {}

(* A producer queues a job; the append may itself go to a file that is     *)
(* being replaced, and is then at risk from the start.                     *)
Accept(j) ==
  /\ \/ /\ owed' = owed \union {j}
        /\ atRisk' \in {atRisk, atRisk \union {j}}
     \/ /\ atRisk' = atRisk \union {j}
        /\ UNCHANGED owed
  /\ UNCHANGED done

(* The processing chain of an owed job completes. *)
Finish(j) ==
  /\ j \in owed
  /\ done' = done \union {j}
  /\ UNCHANGED <<owed, atRisk>>

(* Jobs that are finished or at risk are struck off. *)
StrikeOff(S) ==
  /\ S \subseteq done \union atRisk'
  /\ owed' = owed \ S
  /\ UNCHANGED done

(* Owed jobs are put at risk, and may be struck off in the same step. *)
Expose(S) ==
  /\ S \subseteq owed
  /\ atRisk' = atRisk \union S
  /\ \E T \in SUBSET owed : StrikeOff(T)

Settle == \E T \in SUBSET owed : atRisk' = atRisk /\ StrikeOff(T)

Next ==
  \/ \E j \in Jobs : Accept(j) \/ Finish(j)
  \/ \E S \in SUBSET owed : Expose(S)
  \/ Settle

Spec == Init /\ [][Next]_vars
=============================================================================
