SPECIFICATION CleanupSpec
CONSTANTS
  None = None
  a1 = a1
  a2 = a2
  u1 = u1
  Attempts <- MCAttempts
  Unused <- MCUnused
  Owned <- MCOwned
  MaxFaults = 1
INVARIANT NoOrphanedImages
