SPECIFICATION Spec
CONSTANTS
  Configs <- MCConfigs
  Checks = {k1, k2}
  None = None
INVARIANT OneContainer
PROPERTY KnownPassesPersist
CHECK_DEADLOCK FALSE
