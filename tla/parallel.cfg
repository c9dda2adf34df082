SPECIFICATION FairSpec
CONSTANTS
  None = None
  Budget = 3
  Bootstrap = 2
  Cap = 1
  EpochSize = 2
  Rank <- MCRank
  Candidates = {"failure", "owned"}
  MaxAttempts = 6
  MaxCrashes = 1
INVARIANTS
  FeedbackCompleteUninterrupted
  BudgetRespected
  EpochBarrier
  FoldsInCandidateOrder
  EpochIsBlind
PROPERTIES
  ImplementsEpochs
  Termination
