SPECIFICATION FairSpec
CONSTANTS
  a = a
  b = b
  None = None
  Tools <- MCTools
  Runs <- MCRuns
  Bootstrap = 2
  EpochSize = 2
  MaxCrashes = 1
INVARIANTS
  NoSeedLost
  CorpusCoversNovelty
  BatchAppliedOnce
PROPERTY EverySeedMutated
