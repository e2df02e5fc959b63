SPECIFICATION PartsSpec
CONSTANTS
  Models = 2
  Retries = 1
  None = None
  Unavailable = Unavailable
  Error = Error
  MaxCandidates = 2
  DayLength = 6
  Tolerance = 2
  Labellers <- BothModels
  DefaultGap = 1
  DefaultDuration = 4
  SmoothSpan = 3
  MaxMergeGap = 1
  MinSegments = 2
  MinShare = 45
  AutoSamples = 4
  AutoMin = 2
  AutoMax = 4
  MinSilhouette = 2
  MinClusterWindows = 2
  MinClusterShare = 40
  Entries = 2
  InstallAt = 1
  ByName <- InstallFirst
  MaxRelease = 2
  Regions = {"minutes", "decisions"}
  Values <- AllValues
  Inputs <- AllInputs
INVARIANTS CallIsSound CalendarAnswers NotesAreKept SummaryIsWhole SpeechIsKept CatchupResumes
PROPERTIES CallEnds InstallsWhatWasPacked
\* A call that has ended takes no step.
CHECK_DEADLOCK FALSE
