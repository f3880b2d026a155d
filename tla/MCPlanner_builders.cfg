\* The three builders over a cache of two entries.
SPECIFICATION FairSpec
CONSTANTS
  a1 = a1
  a2 = a2
  b1 = b1
  b2 = b2
  c1 = c1
  Nodes <- MCNodes
  Links <- MCLinks
  Domains <- MCDomains
  DomainOf <- MCDomainOf
  TierOf <- MCTierOf
  Capacity <- MCCapacity
  ProcDelay <- MCProcDelay
  PropDelay <- MCPropDelay
  PathDelay <- MCPathDelay
  KPaths = 1
  CpuRef = 1
  RamRef = 1
  HostSlackBand = 90
  CacheCapacity = 2
  Contracts = {"tiers", "capacity", "colocation"}
  Requests <- MCRequests
  Residuals <- MCResiduals
  Builders <- MCBuilders
  MaxRetries = 1
  Statements <- MCStatements
  MaxArrivals = 4
INVARIANTS
  PlansHostable
  CallsAccounted
PROPERTIES
  EvictsLeastRecent
  ArrivalAnswered
\* The stream of arrivals ends.
CHECK_DEADLOCK FALSE
