SPECIFICATION CleanupFairSpec
CONSTANTS
  None = None
  a1 = a1
  a2 = a2
  u1 = u1
  Attempts <- MCAttempts
  Unused <- MCUnused
  Owned <- MCOwned
  MaxFaults = 4
INVARIANTS
  RecordsTellTruth
PROPERTY EventuallyComplete
