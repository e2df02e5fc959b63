\* The recording that `stop` left, with the default settings.
CONSTANTS
  None = None
  Settings <- Defaults
  Faults = {}
  MaxFaults = 0
SPECIFICATION Spec
INVARIANT TranscriptIsThere
