CONSTANTS
  Processes = 2
  MaxWrites = 2
  Instances = 2
  GroupOf <- MCGroupOf
  ApiLimit = 2
  SubscribeFails = TRUE
  Requests = {"r1", "r2", "r3"}
  Workers = 4
  GroupCount = 1
  Replicas = 2
  Containers = {"c1", "c2"}
  MaxEvents = 4
  WorkersStop = FALSE
SPECIFICATION MCSpec
INVARIANT SuccessIsUnanimous
INVARIANT WatchedToTheEnd
INVARIANT CleanedUp
INVARIANT ClientsReturned
INVARIANT OneWorker
INVARIANT WatchedAreUp
PROPERTY RunsEnd
CHECK_DEADLOCK FALSE
