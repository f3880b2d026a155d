\* Kills and timeouts anywhere, with and without --eval-only and --final-segment.
SPECIFICATION FairSpec
CONSTANTS
  Seeds <- MCSeeds
  Levels <- MCLevels
  TrainingLevel = "L2"
  Requested <- MCRequested
  EvalInstance = 100
  Validation <- MCValidation
  WarmUp = TRUE
  Scores <- MCScores
  Leftovers <- MCLeftovers
  EvalOnly = {TRUE, FALSE}
  FinalSegment = {TRUE, FALSE}
  MaxKills = 1
  MaxTimeouts = 1
  Segments = 2
  Rounds = 2
  EntStart = 3
  EntFloor = 1
  EntMax = 4
  EntropyTarget = 3
  Entropies <- MCEntropies
INVARIANTS
  CellSaysWhatRan
  TwinsDifferAsNamed
  SelectionSound
PROPERTIES
  BankedStaysBanked
  EntropyFloorHolds
  CompletesUnlessTorn
\* A grid that is done stays done; one that is refused is launched again.
CHECK_DEADLOCK FALSE
