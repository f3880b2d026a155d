CONSTANTS
  a1 = a1
  a2 = a2
  b1 = b1
  c1 = c1
  dA = dA
  dB = dB
  dC = dC
  r1 = r1
  r2 = r2
  r3 = r3
  r4 = r4
  Nodes <- MCNodes
  Links <- MCLinks
  Domains <- MCDomains
  DomainOf <- MCDomainOf
  TierOf <- MCTierOf
  Capacity <- MCCapacity
  ProcDelay <- MCProcDelay
  PropDelay <- MCPropDelay
  PathDelay <- MCPathDelay
  KPaths = 3
  Requests = {r1, r2}
  Slice <- MCSlice
  ActorDomains = {dA, dB, dC}
  ActorKind = "greedy"
  Planner = "external"
  Mode = "follow_prior"
  NodeBasedMask = FALSE
  HopLimit = 1
  DelayUnit = 6
  NoRequest = NoRequest
  NoDomain = NoDomain
SPECIFICATION Spec
INVARIANTS
  FrameAssertHolds
