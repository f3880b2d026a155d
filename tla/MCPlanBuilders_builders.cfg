CONSTANTS
  a1 = a1
  a2 = a2
  b1 = b1
  b2 = b2
  c1 = c1
  Nodes <- MCNodes
  Links <- MCLinks
  Domains <- MCDomains
  DomainOf <- MCDomainOf
  TierOf <- MCTierOf
  Capacity <- MCCapacity
  ProcDelay <- MCProcDelay
  PropDelay <- MCPropDelay
  PathDelay <- MCPathDelay
  KPaths = 3
  CpuRef = 1
  RamRef = 2
  GuardModes = {"full", "modal", "obsenc", "off"}
  DelayTop = 2
  RepairBudget = 4096
  DelayUnit = 6
  NoDomain = 99
  Slices <- MCSlices
  Residuals <- MCResiduals
  Programs <- MCPrograms
  NoPlan = NoPlan
SPECIFICATION Spec
CHECK_DEADLOCK FALSE
INVARIANTS
  BuilderPlanCommittable
  WalkPlansContiguous
  OracleDominates
  GuardsKeepBuilderPlans
  MovesFit
  ExactBeatsWalk
  ColoKeepsShape
