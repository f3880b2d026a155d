\* Both write policies, both eviction policies, a frozen and a growing store.
SPECIFICATION Spec
CONSTANTS
  Kinds <- MCKinds
  Stream <- MCStream
  WarmUpLength = 4
  Congested = 1
  WarmLevel = "L2"
  EvalLevel = "L2"
  Capacity = 3
  EvictShare = 2
  TopK = 1
  PoolFactor = 2
  MinPool = 3
  TaskWeight = 1
  StateWeight = 2
  Floor = 4
  LegacyFloor = 1
  WritePolicies = {"selective", "write_all"}
  EvictPolicies = {"importance", "fifo"}
  Modes = {"frozen", "accumulate"}
  RrfK = 60
  AfterDense = 2
  AfterRrf = 2
INVARIANTS
  StoreAgrees
  EpisodesTrue
  ExemplarsSound
\* The stream ends.
CHECK_DEADLOCK FALSE
