\* One command at a time, every fault.
CONSTANTS
  m1 = m1
  m2 = m2
  m3 = m3
  m4 = m4
  s1 = s1
  s2 = s2
  browser = browser
  teams = teams
  None = None
  Starts <- FourStarts
  Stops <- TwoStops
  Sessions <- TwoSessions
  SessionOf <- Platforms
  Refused <- LastStart
  Overlap = FALSE
  Faults = {"crash", "abort", "recorder", "trigger"}
SPECIFICATION SpecWithHistory
INVARIANTS OneJobPerRecording RecorderMatchesState
PROPERTIES SessionSpec
CHECK_DEADLOCK FALSE
