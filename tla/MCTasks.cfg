CONSTANTS
  MaxOutput = 2
  StoreFails = TRUE
  MaxRuns = 3
  Kills = FALSE
  Faults = TRUE
  Endpoints <- AllEndpoints
  MaxChunks = 3
  FilterFails = TRUE
  Interrupts = TRUE
SPECIFICATION Spec
INVARIANT FollowedToTheEnd
INVARIANT LogsCompleteUnlessKilled
PROPERTY PopsFirst
PROPERTY RequestEnds
INVARIANT InstancesAddUp
PROPERTY PreparedAgain
INVARIANT ResultsCoverRuns
INVARIANT OutcomeTrue
CHECK_DEADLOCK FALSE
