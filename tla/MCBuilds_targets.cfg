CONSTANTS
  Groups <- OtherTarget
  BuildChoices <- MCChoices
  ConcurrentBuilds = 2
  UnknownBuilders = {"other"}
  Builds = {"b1", "b2"}
  CallsFail = TRUE
  CacheEnabled = TRUE
  Purges = TRUE
  MaxFaults = 1
  MaxCalls = 4
SPECIFICATION MCSpec
INVARIANT OwnArtifact
CHECK_DEADLOCK FALSE
