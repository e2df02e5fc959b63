------------------------------ MODULE MCIngest ------------------------------
(***************************************************************************)
(* A small instance of Ingest for TLC.                                     *)
(***************************************************************************)
EXTENDS Ingest, TLC

CONSTANTS r1, r2, m1, m2, a1, a2, b1, s1

TwoRecordings == {r1, r2}
SecondRecording == {r2}
TwoMeetings == {m1, m2}
TwoPollers == {a1, a2}

(* Two meetings one after the other; both recordings are of the first, one *)
(* kept in two formats.                                                    *)
Calendar == [t \in 0..1 |-> IF t = 0 THEN m1 ELSE m2]
Taken == [r \in TwoRecordings |-> 0]
Kept == [r \in TwoRecordings |-> IF r = r1 THEN {"wav", "m4a"} ELSE {"wav"}]

OneMeeting == [t \in {0} |-> m1]

(* Of recordings, faults and start commands, three in one behaviour. *)
Things == 3
FewThings ==
  Cardinality(arrived) + faults + Cardinality({c \in Starters : pc[c] # "idle"}) <= Things

PollersAlike == Permutations(TwoPollers)
=============================================================================
