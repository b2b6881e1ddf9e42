SPECIFICATION ScoringSpec
CONSTANTS
  Visits <- MCVisits
  ChunkSize = 2
  MaxIngests = 2
  LastInstant = 2
  MaxRetries = 1
INVARIANTS
  DangerIsAlerted
CHECK_DEADLOCK FALSE
