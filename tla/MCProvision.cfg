SPECIFICATION Spec
CONSTANTS
  apex = apex
  shop = shop
  Hosts = {apex, shop}
  Zones <- MCZones
  None = None
  MaxRequests = 3
  MaxAtOnce = 2
  MaxFailures = 1
INVARIANTS
  TypeOK
  LiveIsRouted
PROPERTY RollbackLeaves
SYMMETRY HostSymmetry
CHECK_DEADLOCK FALSE
