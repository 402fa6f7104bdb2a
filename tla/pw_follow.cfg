SPECIFICATION FairSpec
CONSTANTS
  MaxTenant = 2
  SystemTenant = 2
  Objects = {1, 2}
  Intervals <- SomeIntervals
  Other = Other
  Deleted = Deleted
  FileInterval <- WholeResource
  Watches = {1}
  MaxVersions = 3
  MaxEvents = 2
  MaxChanges = 3
  MaxCompactions = 1
INVARIANTS TypeOK NothingSkipped FatalOnlyIfSecond
PROPERTY PartitionReachesWatch
CHECK_DEADLOCK FALSE
