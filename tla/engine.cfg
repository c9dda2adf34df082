SPECIFICATION FairSpec
CONSTANTS
  None = None
  Budget = 2
  Cap = 2
  Candidates = {"failure", "owned"}
  MaxCrashes = 2
INVARIANTS
  AtMostOneLaunch
  ChargeFollowsJournal
  GeneratorMatchesHistory
  ProposalsSeeAllFeedback
  PublishedOnce
  ImageLifetime
PROPERTIES
  ImplementsExactlyOnce
  Termination
