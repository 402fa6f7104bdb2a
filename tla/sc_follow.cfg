SPECIFICATION FairSpec
CONSTANTS
  Clusters = {1, 2}
  ClusterObjects = {o1, o2}
  Addresses = {a1, sys}
  SystemAddress = sys
  Tenants = {t1, t2}
  Watches = {w1}
  None = None
  MaxWrites = 3
  Together = {{o1, o2}, {o1, t1, t2}}
  MaxRestarts = 1
INVARIANTS TypeOK TenantMapOfInformer StraysOnlyInSystem
PROPERTIES DiesOnlyInRace ClientsFollowRegistry TenantMapFollowsRegistry
CHECK_DEADLOCK FALSE
