\* Two triggers of the automation, a backfill and a start, every fault once.
CONSTANTS
  r1 = r1
  r2 = r2
  m1 = m1
  m2 = m2
  a1 = a1
  a2 = a2
  b1 = b1
  s1 = s1
  None = None
  Recordings <- TwoRecordings
  Named <- SecondRecording
  Variants <- Kept
  Meetings <- TwoMeetings
  EventAt <- Calendar
  TakenAt <- Taken
  Pollers <- TwoPollers
  Backfillers = {b1}
  Starters = {s1}
  Broken = {}
  Rename = TRUE
  Review = FALSE
  Faults = {"crash", "fail", "move"}
  MaxFaults = 1
SPECIFICATION Spec
INVARIANTS TypeOK FiledInItsNote
PROPERTIES QueuedOnce MinutesSurvive
SYMMETRY PollersAlike
CONSTRAINT FewThings
CHECK_DEADLOCK FALSE
