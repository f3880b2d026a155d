\* "Kill/relaunch is always safe": a kill in the middle of a file.
SPECIFICATION FairSpec
CONSTANTS
  Seeds <- MCSeeds
  Levels <- MCLevels
  TrainingLevel = "L2"
  Requested <- MCOneApproach
  EvalInstance = 100
  Validation <- MCValidation
  WarmUp = TRUE
  Scores <- MCScores
  Leftovers <- MCNone
  EvalOnly = {FALSE}
  FinalSegment = {FALSE}
  MaxKills = 1
  MaxTimeouts = 0
  Segments = 2
  Rounds = 2
  EntStart = 3
  EntFloor = 1
  EntMax = 4
  EntropyTarget = 3
  Entropies <- MCEntropies
PROPERTY
  KillIsSafe
CHECK_DEADLOCK FALSE
