SPECIFICATION Spec
CONSTANTS
  None = None
  Budget = 2
  Bootstrap = 0
  Cap = 2
  EpochSize = 2
  Rank <- MCRank
  Candidates = {"owned"}
  MaxAttempts = 5
  MaxCrashes = 1
INVARIANTS
  FeedbackComplete
