SPECIFICATION FairSpec
CONSTANTS
  Clusters = {1, 2, 3}
  ClusterObjects = {o1, o2, o3}
  Addresses = {a1}
  SystemAddress = sys
  Tenants = {}
  Watches = {w1}
  None = None
  MaxWrites = 3
  Together = {{o1, o2, o3}}
  MaxRestarts = 0
PROPERTY ClustersGetClients
CHECK_DEADLOCK FALSE
