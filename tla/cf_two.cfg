SPECIFICATION FairSpec
CONSTANTS
  MaxKey = 7
  Procs = {1, 2}
  Settled = {1, 2}
  Types = {"replicaset"}
  Workloads = {4}
  Loads = {0, 1}
  MaxBeats = 1
  MaxLeaves = 0
  MaxCrashes = 1
INVARIANTS TypeOK NoLostUpdate ViewExact RangeConsistent ExactlyOneOwner
PROPERTIES ListConverges FilterOffOnlyIfOvertaken
CHECK_DEADLOCK FALSE
