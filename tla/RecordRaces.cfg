\* Starts and stops at the same time, every fault.
CONSTANTS
  m1 = m1
  m2 = m2
  m3 = m3
  m4 = m4
  s1 = s1
  s2 = s2
  browser = browser
  teams = teams
  None = None
  Starts <- ThreeStarts
  Stops <- TwoStops
  Sessions <- TwoSessions
  SessionOf <- Platforms
  Refused = {}
  Overlap = TRUE
  Faults = {"crash", "abort", "recorder", "trigger"}
SPECIFICATION SpecWithHistory
INVARIANTS TypeOK LockExclusion JobsAreStopped
PROPERTIES LockIsReleased
CHECK_DEADLOCK FALSE
