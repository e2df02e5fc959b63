\* Nothing dies: three jobs, two producers, two workers and a requeue.
CONSTANTS
  j1 = j1
  j2 = j2
  j3 = j3
  w1 = w1
  w2 = w2
  p1 = p1
  p2 = p2
  Jobs <- ThreeJobs
  Malformed <- LastJob
  Workers <- TwoWorkers
  Producers = {p1, p2}
  MaxJobs = 2
  FailureMode = "dead_letter"
  RequeueArgs <- AllArgs
  Faults = {}
SPECIFICATION FairSpec
PROPERTIES ProcessedOnce EveryJobSettles
