\* Two handlers on two takes of one meeting, the second a flawed wav beside an
\* m4a; every fault.
CONSTANTS
  t1 = t1
  t2 = t2
  h1 = h1
  h2 = h2
  None = None
  Takes <- TwoTakes
  Recorded <- MixedTakes
  Unreadable <- FlawedSecondWav
  Handlers <- TwoHandlers
  InPlace = FALSE
  Faults = {"fail", "crash", "note"}
SPECIFICATION Spec
INVARIANTS TypeOK AudioSurvives DeletedOnlyAfterArchive
           LoggedMeansComplete SettledMeansPatched
SYMMETRY HandlersAlike
CHECK_DEADLOCK FALSE
