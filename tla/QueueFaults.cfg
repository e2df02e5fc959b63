\* Two workers, a producer and a requeue; any of them may abort or crash.
CONSTANTS
  j1 = j1
  j2 = j2
  j3 = j3
  w1 = w1
  w2 = w2
  p1 = p1
  p2 = p2
  Jobs <- TwoJobs
  Malformed <- LastJob
  Workers <- TwoWorkers
  Producers = {p1}
  MaxJobs = 2
  FailureMode = "dead_letter"
  RequeueArgs <- AllArgs
  Faults = {"crash", "abort"}
SPECIFICATION Spec
INVARIANTS TypeOK LockExclusion MemoryIsQueueHead NoSilentLoss
PROPERTIES LedgerSpec
CONSTRAINT FewLines
SYMMETRY WorkersAlike
