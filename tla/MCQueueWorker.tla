--------------------------- MODULE MCQueueWorker ---------------------------
(***************************************************************************)
(* Small instances of QueueWorker for TLC.                                 *)
(***************************************************************************)
EXTENDS QueueWorker, TLC

CONSTANTS j1, j2, j3, w1, w2, p1, p2

TwoWorkers == {w1, w2}
TwoJobs == {j1, j2}
ThreeJobs == {j1, j2, j3}
LastJob == {j2}

(* failed-jobs-requeue with no argument, with --max-items 1, and with one  *)
(* --meeting-id.                                                           *)
AllArgs == {[wanted |-> {}, max |-> 0], [wanted |-> {}, max |-> 1],
            [wanted |-> {j1}, max |-> 0]}

(* A requeue that dies between its two writes leaves every payload twice;  *)
(* repeated, it would grow the files without bound.                        *)
LineBound == 3
FewLines == Len(queue) <= LineBound /\ Len(dead) <= LineBound

WorkersAlike == Permutations({w1, w2})
=============================================================================
