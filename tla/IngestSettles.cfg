\* The automation keeps running beside a backfill; one recording never files.
CONSTANTS
  r1 = r1
  r2 = r2
  m1 = m1
  m2 = m2
  a1 = a1
  a2 = a2
  b1 = b1
  s1 = s1
  None = None
  Recordings <- TwoRecordings
  Named = {}
  Variants <- Kept
  Meetings <- TwoMeetings
  EventAt <- OneMeeting
  TakenAt <- Taken
  Pollers = {a1}
  Backfillers = {b1}
  Starters = {}
  Broken <- SecondRecording
  Rename = TRUE
  Review = TRUE
  Faults = {"crash", "fail"}
  MaxFaults = 1
SPECIFICATION Spec
PROPERTIES EveryRecordingIsQueued
CHECK_DEADLOCK FALSE
