CONSTANTS
  Groups <- SameTarget
  BuildChoices <- MCChoices
  ConcurrentBuilds = 2
  UnknownBuilders = {"other"}
  Builds = {"b1", "b2"}
  CallsFail = TRUE
  CacheEnabled = TRUE
  Purges = TRUE
  MaxFaults = 1
  MaxCalls = 4
SPECIFICATION MCSpec
INVARIANT OwnArtifact
INVARIANT AllOrNothing
INVARIANT ProxyIsUp
INVARIANT OkIsHealthy
INVARIANT Recovers
PROPERTY AllBuildsEnd
CHECK_DEADLOCK FALSE
