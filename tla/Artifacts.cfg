\* Handler, catch-up, refresh, pruning and user on one meeting's directory.
CONSTANTS
  None = None
  Settings <- Harmless
  Faults = {"fail", "crash", "missing", "note"}
  MaxFaults = 1
SPECIFICATION Spec
INVARIANTS TypeOK TranscriptAgrees
PROPERTIES BaselineKept PruneSparesNotes
