\* Stop mode, with aborts and crashes.
CONSTANTS
  j1 = j1
  j2 = j2
  j3 = j3
  w1 = w1
  w2 = w2
  p1 = p1
  p2 = p2
  Jobs <- ThreeJobs
  Malformed <- LastJob
  Workers <- TwoWorkers
  Producers = {p1, p2}
  MaxJobs = 2
  FailureMode = "stop"
  RequeueArgs <- AllArgs
  Faults = {"crash", "abort"}
SPECIFICATION Spec
PROPERTIES StopModeKeepsOrder
SYMMETRY WorkersAlike
