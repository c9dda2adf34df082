SPECIFICATION Spec
CONSTANTS
  Configs <- MCConfigs
  Checks = {k1, k2}
  None = None
INVARIANT PassedWasChecked
CHECK_DEADLOCK FALSE
