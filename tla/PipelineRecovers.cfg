\* One handler at a time, every fault, a transcriber that writes in place.
CONSTANTS
  t1 = t1
  t2 = t2
  h1 = h1
  h2 = h2
  None = None
  Takes <- OneTake
  Recorded <- BothFormats
  Unreadable <- FlawedWav
  Handlers <- OneHandler
  InPlace = TRUE
  Faults = {"fail", "crash", "note"}
SPECIFICATION FairSpec
PROPERTIES RerunReusesFiles EveryJobIsSettled
CHECK_DEADLOCK FALSE
