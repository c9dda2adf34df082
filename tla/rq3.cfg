SPECIFICATION FairSpec
CONSTANTS
  None = None
  Methods <- MCMethods
  Suspects <- MCSuspects
  Tests <- MCTests
  MaxFaults = 2
INVARIANTS
  HiddenAfterSeal
  CarriedOutOnce
  EvidenceAgrees
PROPERTY VerifiedUnlessHopeless
