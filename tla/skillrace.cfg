SPECIFICATION Spec
CONSTANTS
  None = None
  Purposes = {p1, p2, p3}
  Mutations = {m1, m2}
  EpochSize = 2
  Epochs = 3
  MaxMishaps = 1
  MaxCrashes = 1
SYMMETRY Symmetry
INVARIANTS
  JudgedOnce
  EachMutationOnce
  ReplayAccepted
  ArtifactsAgree
CHECK_DEADLOCK FALSE
