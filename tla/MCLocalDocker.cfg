CONSTANTS
  Instances = {"i1", "i2"}
  Groups = {"g1"}
  GroupOf <- MCGroupOf
  Configs <- MCConfigs
  Runs = {"r1", "r2", "r3"}
  Collections = {"c1"}
  NoOne = "no_one"
  MaxNetworks = 2
SPECIFICATION MCSpec
INVARIANT SuccessIsUnanimous
INVARIANT StalledIsFailure
INVARIANT LeavesNothing
PROPERTY RunsEnd
CHECK_DEADLOCK FALSE
