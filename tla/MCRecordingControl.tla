------------------------- MODULE MCRecordingControl -------------------------
(***************************************************************************)
(* Small instances of RecordingHistory for TLC.                            *)
(***************************************************************************)
EXTENDS RecordingHistory, TLC

CONSTANTS m1, m2, m3, m4, s1, s2, browser, teams

TwoStarts == {m1, m2}
ThreeStarts == {m1, m2, m3}
FourStarts == {m1, m2, m3, m4}
TwoStops == {s1, s2}
TwoSessions == {browser, teams}

(* Two meetings share a session, the third has another. *)
Platforms == [m \in Starts |-> IF m = m2 THEN teams ELSE browser]
LastStart == {m4}
=============================================================================
