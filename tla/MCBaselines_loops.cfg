\* Both loops on every order of three arrivals and departures.
SPECIFICATION Spec
CONSTANTS
  Nodes <- MCNodes
  Domains <- MCDomains
  DomainOf <- MCDomainOf
  TierOf <- MCTierOf
  IdOf <- MCIdOf
  Links <- MCLinks
  Capacity <- MCCapacity
  ProcDelay <- MCProcDelay
  PropDelay <- MCPropDelay
  PathDelay <- MCPathDelay
  KPaths = 2
  Requests = {"r1", "r2", "r3"}
  Slice <- MCSlice
  Jobs = {"plain", "clone"}
  Streams <- MCStreams
  HopLimit = 2
  DelayUnit = 4
  NamedDomain <- MCNamedDomain
  OldFiles <- MCOldFiles
  MaxKills = 1
INVARIANTS
  GateIsVerifier
  ReplayMatches
  SuggestionsFit
PROPERTY
  LedgerKept
\* The stream ends.
CHECK_DEADLOCK FALSE
