SPECIFICATION Spec
\* A curriculum ends when its last checkpoint is written, or refuses to start.
CHECK_DEADLOCK FALSE
CONSTANTS
  Domains <- MCDomains
  Canonical <- MCCanonical
  Contents <- MCContents
  Answers <- MCAnswers
  Partitions <- MCPartitions
  FixedStream <- MCFixedStream
  FreshStreams <- MCFreshStreams
  EvalStream <- MCEvalStream
  Estimate <- MCEstimate
  AdmitReward <- MCAdmitReward
  Penalty <- MCPenalty
  Gamma <- MCGamma
  Lambda <- MCLambda
  Ratio <- MCRatio
  LowRatio <- MCLowRatio
  HighRatio <- MCHighRatio
  Configs <- MCConfigs
  InitFrom <- MCInitFrom
  ObsVersion <- MCObsVersion
  Epochs <- MCEpochs
  Segments <- MCSegments
  Rounds <- MCRounds
INVARIANTS
  CreditIsReturn
  RatiosOfThisUpdate
  CheckpointCarriesOn
  ServedForItsSlice
  AgentsBuildOnEachOther
