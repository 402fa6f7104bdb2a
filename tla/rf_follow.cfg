SPECIFICATION FairSpec
CONSTANTS
  o1 = o1
  o2 = o2
  None = None
  Exited = Exited
  NoKey = NoKey
  Objects = {o1, o2}
  Members = {"owner", "own"}
  SourceOf <- OneSource
  KeyOf <- Keys
  Bounds <- TwoBounds
  MaxWrites = 2
  MaxResets = 2
  MaxFaults = 1
  MaxClientSets = 1
INVARIANTS TypeOK StoreExact
PROPERTIES NeverBack FollowsAnnounced
CHECK_DEADLOCK FALSE
