SPECIFICATION FairSpec
CONSTANTS
  c1 = c1
  c2 = c2
  k1 = k1
  k2 = k2
  Servers = {s1, s2}
  Configs = {c1, c2}
  Clients = {k1, k2}
  ConfigOf <- OwnConfig
  MaxChanges = 2
INVARIANTS TypeOK RebuildFits WaitCountsUnreported
PROPERTIES ImplementsRounds ChangesReachClients
CHECK_DEADLOCK FALSE
