SPECIFICATION FairSpec
CONSTANTS
  ns1 = ns1
  net = net
  Controllers = {c1}
  Servers = {a1}
  Resources = {ns1, net}
  Namespaces = {ns1}
  Defaults <- DefaultContent
  Ends = {1, 2}
  Arktos = arktos
  OtherFinalizers = {other}
  MaxTenants = 2
  MaxDeletes = 1
  MaxTroubles = 1
INVARIANTS TypeOK Purged OnlyAskedFor
PROPERTIES DeletedTenantGoes TenantGetsDefaults
CHECK_DEADLOCK FALSE
