CONSTANTS
  Containers <- Three
  RunOf <- MCRunOf
  Plain = {}
  Kind = "docker"
  CacheSize = 2
  MaxMoves = 2
  Faults = TRUE
  Instances = {"i1", "i2"}
  Configs <- MCConfigs
  MaxRequests = 2
  CallsFail = TRUE
  Pair = {"p1", "p2"}
  PingFaults = TRUE
  StormInstances = {"p1", "p2"}
  Outgoing = {"k1", "k2"}
  ConcurrentDials = 1
  Chunks = 2
  StormFaults = TRUE
  BenchInstances <- Three
  GroupOf <- MCOneGroup
  Rounds = 5
  BenchFaults = TRUE
  SplitInstances <- Three
  RequestTimeout = 60
  Deadline = 60
  ServersLate = TRUE
  SyncInstances = {"p1", "p2", "p3", "p4"}
  SyncFaults = TRUE
SPECIFICATION MCSpec
INVARIANT LinksAgree
PROPERTY CallbackInForce
INVARIANT HandlesReleased
INVARIANT RoutesFresh
INVARIANT MeasuresShape
INVARIANT BarriersHold
INVARIANT NetworkSplit
PROPERTY WorkEnds
CHECK_DEADLOCK FALSE
