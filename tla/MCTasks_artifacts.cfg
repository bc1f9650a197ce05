CONSTANTS
  MaxOutput = 2
  StoreFails = TRUE
  MaxRuns = 3
  Kills = FALSE
  Faults = TRUE
  Endpoints <- AllEndpoints
  MaxChunks = 3
  FilterFails = TRUE
  Interrupts = TRUE
SPECIFICATION Spec
INVARIANT ArtifactsWritten
CHECK_DEADLOCK FALSE
