SPECIFICATION SettledSpec
CONSTANTS
  MaxKey = 7
  Procs = {1, 2}
  Settled = {1, 2}
  Types = {"replicaset", "deployment"}
  Workloads = {4}
  Loads = {0}
  MaxBeats = 1
  MaxLeaves = 1
  MaxCrashes = 1
INVARIANTS NoLostUpdate ViewExact
CHECK_DEADLOCK FALSE
